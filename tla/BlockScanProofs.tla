-------------------------- MODULE BlockScanProofs --------------------------
(***************************************************************************)
(* Theorems about BlockScan, for every rule set, every address space and   *)
(* every way to cut it into blocks.                                        *)
(***************************************************************************)
EXTENDS BlockScan, RuleSetFacts

---------------------------------------------------------------------------
(* The inductive invariant. *)

\* A match is accumulated, or, when only one per string is kept, another of its string.
Represented(s) ==
    IF Clipped(s.pat) THEN \E t \in found : t.pat = s.pat ELSE s \in found

\* While a block is scanned, the rules the loop has left behind have added theirs.
CurrentInv ==
    pc = "scan" =>
        /\ Len(blocks) > 0
        /\ \A s \in FoundIn(space, Current) :
              ShouldEvaluateRule(Pattern[s.pat].rule) /\ Pattern[s.pat].rule < at
                  => Represented(s)

\* What is supplied lies in the space, and a block that was scanned is still listed.
SupplyInv ==
    /\ whole \subseteq Supplied
    /\ \A b \in Supplied : End(b) <= space.length

\* Finish has given the rules behind its loop what they mean on what is accumulated, and
\* the others nothing.
VerdictInv ==
    pc = "finish" => /\ \A q \in 1 .. (at - 1) : dense[q] = RuleResults(Facts)[q]
                     /\ \A q \in at .. NumRules : ~dense[q]

GlobalsHold(results) == \A r \in RuleIds : Rule[r].global => results[r]

\* An answer is that of what is accumulated, until the next call.
AnswerInv ==
    /\ pc # "idle" => result = Returned("none")
    /\ result.status = "reported" =>
          result.rules = ReportedIf(RuleResults(Facts), FALSE, GlobalsHold(RuleResults(Facts)))

IInv == /\ TypeOK /\ DefaultFileSize /\ AccumulatesBlocks /\ CurrentInv
        /\ SupplyInv /\ VerdictInv /\ AnswerInv

---------------------------------------------------------------------------
(* Facts on the operators. *)

\* Listing a block adds it to what is supplied and makes it the current one.
LEMMA ListedBlock ==
    ASSUME blocks \in Seq(Blocks), NEW b \in Blocks, blocks' = Append(blocks, b)
    PROVE  /\ Supplied' = Supplied \cup {b}
           /\ Current' = b
           /\ Len(blocks') = Len(blocks) + 1 /\ blocks' \in Seq(Blocks)
<1>1. /\ Len(blocks') = Len(blocks) + 1 /\ Len(blocks) \in Nat /\ blocks' \in Seq(Blocks)
      /\ \A k \in 1 .. Len(blocks) : blocks'[k] = blocks[k]
      /\ blocks'[Len(blocks) + 1] = b
    OBVIOUS
<1>2. 1 .. (Len(blocks) + 1) = (1 .. Len(blocks)) \cup {Len(blocks) + 1}
    BY <1>1
<1>3. Supplied' = {blocks'[k] : k \in (1 .. Len(blocks)) \cup {Len(blocks) + 1}}
    BY <1>1, <1>2 DEF Supplied
<1>4. Supplied' = Supplied \cup {b}
    BY <1>1, <1>3 DEF Supplied
<1> QED BY <1>1, <1>4 DEF Current

\* The block that is scanned is supplied.
LEMMA CurrentIsSupplied ==
    ASSUME blocks \in Seq(Blocks), Len(blocks) > 0
    PROVE  Current \in Supplied /\ Current \in Blocks
BY DEF Current, Supplied

\* The type invariant is inductive.
LEMMA TypeStep ==
    ASSUME TypeOK, CurrentInv, [Next]_vars
    PROVE  TypeOK'
<1> USE DEF TypeOK, Returned, NoResults, spaceVars
<1>0. NumRules \in Nat /\ FileSizes \subseteq Nat /\ 1 \in 1 .. (NumRules + 1)
    BY RuleSetAssumption, BlockAssumption
<1>1. CASE Refuse
    BY <1>1 DEF Refuse
<1>2. CASE SetFileSize
    BY <1>0, <1>2 DEF SetFileSize
<1>3. CASE Cancel
    BY <1>3 DEF Cancel
<1>4. CASE Abort
    BY <1>4 DEF Abort
<1>5. CASE StartBlock
    <2>1. PICK b \in Blocks : blocks' = Append(blocks, b) /\ fileSize' = RaisedSize(b)
        BY <1>5 DEF StartBlock
    <2>2. blocks' \in Seq(Blocks) /\ Len(blocks') <= MaxBlocks
        <3>1. Len(blocks) < MaxBlocks /\ MaxBlocks \in Nat /\ Len(blocks) \in Nat
            BY <1>5, BlockAssumption DEF StartBlock
        <3> QED BY <2>1, <3>1, ListedBlock
    <2>3. fileSize' \in Nat
        BY <2>1, BlockAssumption DEF RaisedSize, End
    <2> QED BY <1>0, <1>5, <2>2, <2>3 DEF StartBlock
<1>6. CASE MatchRule
    <2>1. found' \subseteq space.spans
        BY <1>6 DEF MatchRule, Kept, FoundIn
    <2>2. at' \in 1 .. (NumRules + 1)
        BY <1>0, <1>6 DEF MatchRule
    <2> QED BY <1>6, <2>1, <2>2 DEF MatchRule
<1>7. CASE BlockDone
    <2>1. whole' \subseteq Blocks
        BY <1>7, CurrentIsSupplied DEF BlockDone, CurrentInv
    <2> QED BY <1>7, <2>1 DEF BlockDone
<1>8. CASE StartFinish
    BY <1>0, <1>8 DEF StartFinish
<1>9. CASE EvaluateRule
    <2>1. at \in RuleIds /\ at' \in 1 .. (NumRules + 1)
        BY <1>0, <1>9 DEF EvaluateRule, RuleIds
    <2>2. Holds(at, Facts, dense) \in BOOLEAN
        BY DEF Holds
    <2>3. dense' \in [RuleIds -> BOOLEAN]
        BY <1>9, <2>1, <2>2 DEF EvaluateRule
    <2> QED BY <1>9, <2>1, <2>3 DEF EvaluateRule
<1>10. CASE ConditionFails
    BY <1>10 DEF ConditionFails
<1>11. CASE Report
    <2>1. ReportedIf(dense, FALSE, GlobalsMatched) \subseteq RuleIds
        BY DEF ReportedIf
    <2> QED BY <1>11, <2>1 DEF Report
<1>12. CASE Reset \/ Close
    <2>1. Len(<<>>) <= MaxBlocks /\ <<>> \in Seq(Blocks)
        BY BlockAssumption
    <2>2. space' \in Spaces /\ closed' \in BOOLEAN /\ dense' \in [RuleIds -> BOOLEAN]
        BY <1>12 DEF Reset, Close
    <2>3. /\ blocks' = <<>> /\ found' = {} /\ fileSize' = 0 /\ fileSizeSet' = FALSE
          /\ whole' = {} /\ result' = [status |-> "none", rules |-> {}]
          /\ UNCHANGED <<pc, at, cancelled>>
        BY <1>12 DEF Reset, Close, Emptied
    <2> QED BY <2>1, <2>2, <2>3
<1>13. CASE UNCHANGED vars
    BY <1>13 DEF vars
<1> QED BY <1>1, <1>2, <1>3, <1>4, <1>5, <1>6, <1>7, <1>8, <1>9, <1>10, <1>11, <1>12, <1>13
        DEF Next, Scanning, Finishing

\* RaisedSize keeps the highest end.
LEMMA FileSizeStep ==
    ASSUME TypeOK, DefaultFileSize, [Next]_vars
    PROVE  DefaultFileSize'
<1>1. CASE StartBlock
    <2>1. PICK b \in Blocks : blocks' = Append(blocks, b) /\ fileSize' = RaisedSize(b)
        BY <1>1 DEF StartBlock
    <2>2. Supplied' = Supplied \cup {b} /\ fileSizeSet' = fileSizeSet
        BY <1>1, <2>1, ListedBlock DEF StartBlock, TypeOK
    <2>3. /\ fileSize \in Nat /\ \A c \in Supplied \cup {b} : End(c) \in Nat
        <3>1. Supplied \subseteq Blocks
            BY DEF TypeOK, Supplied
        <3> QED BY <3>1, BlockAssumption DEF End, TypeOK
    <2> HIDE DEF End, Supplied
    <2> QED BY <2>1, <2>2, <2>3 DEF DefaultFileSize, RaisedSize
<1>2. CASE SetFileSize
    BY <1>2 DEF SetFileSize, DefaultFileSize
<1>3. CASE Reset \/ Close
    BY <1>3 DEF Reset, Close, Emptied, DefaultFileSize, Supplied
<1>4. CASE UNCHANGED <<blocks, fileSize, fileSizeSet>>
    BY <1>4 DEF DefaultFileSize, Supplied
<1> QED BY <1>1, <1>2, <1>3, <1>4
        DEF Next, Scanning, Finishing, Refuse, Cancel, Abort, MatchRule, BlockDone,
            StartFinish, EvaluateRule, ConditionFails, Report, vars, spaceVars

\* A rule whose matches are added represents every match of the block it has.
LEMMA KeptRepresents ==
    ASSUME TypeOK, NEW r \in RuleIds, found' = found \cup Kept(r),
           NEW s \in FoundIn(space, Current), Pattern[s.pat].rule = r
    PROVE  Represented(s)'
<1>1. CASE ~Clipped(s.pat)
    BY <1>1 DEF Kept, Represented
<1>2. CASE Clipped(s.pat) /\ \E t \in found : t.pat = s.pat
    BY <1>2 DEF Represented
<1>3. CASE Clipped(s.pat) /\ \A t \in found : t.pat # s.pat
    <2> DEFINE mine == {t \in FoundIn(space, Current) : t.pat = s.pat}
    <2>1. mine \subseteq space.spans /\ s \in mine
        BY DEF FoundIn
    <2>2. IsFiniteSet(mine)
        BY <2>1, BlockAssumption, FS_Subset DEF TypeOK
    <2>3. \A t \in mine : t.start \in Nat
        BY <2>1, BlockAssumption DEF TypeOK
    <2>4. PICK first \in mine : \A t \in mine : first.start <= t.start
        <3> HIDE DEF mine
        <3> QED BY <2>1, <2>2, <2>3, FirstStart
    <2>5. first \in Kept(r)
        BY <1>3, <2>4 DEF Kept
    <2> QED BY <1>3, <2>4, <2>5 DEF Represented
<1> QED BY <1>1, <1>2, <1>3

\* Matching a rule of the current block.
LEMMA MatchStep ==
    ASSUME TypeOK, AccumulatesBlocks, CurrentInv, MatchRule
    PROVE  AccumulatesBlocks' /\ CurrentInv'
<1>1. /\ at \in RuleIds /\ at' = at + 1 /\ at \in Nat /\ pc = "scan"
      /\ UNCHANGED <<space, blocks, pc, whole>>
      /\ found \subseteq found'
    BY DEF MatchRule, TypeOK, RuleIds
<1>2. Current \in Supplied /\ Current' = Current /\ Supplied' = Supplied
    BY <1>1, CurrentIsSupplied DEF CurrentInv, TypeOK, Supplied, Current
<1>3. found' = IF ShouldEvaluateRule(at) THEN found \cup Kept(at) ELSE found
    BY DEF MatchRule
<1>4. ASSUME NEW s \in found' \ found
      PROVE  /\ s \in Kept(at) /\ s \in FoundIn(space, Current)
             /\ Pattern[s.pat].rule = at /\ ShouldEvaluateRule(at)
             /\ Clipped(s.pat) => \A t \in found : t.pat # s.pat
    BY <1>3 DEF Kept
<1>5. ASSUME NEW s, Represented(s) PROVE Represented(s)'
    BY <1>1, <1>5 DEF Represented
<1>6. AccumulatesBlocks'
    <2>1. ASSUME NEW s \in found'
          PROVE  /\ ShouldEvaluateRule(Pattern[s.pat].rule)
                 /\ \E b \in Supplied : s \in FoundIn(space, b)
        BY <1>2, <1>4 DEF AccumulatesBlocks
    <2>2. ASSUME NEW b \in whole, NEW s \in FoundIn(space, b),
                 ShouldEvaluateRule(Pattern[s.pat].rule)
          PROVE  Represented(s)'
        BY <1>5, <2>2 DEF AccumulatesBlocks, Represented
    <2>3. ASSUME NEW s \in found', NEW t \in found', Clipped(s.pat), s.pat = t.pat
          PROVE  s = t
        <3>1. CASE s \in found /\ t \in found
            BY <2>3, <3>1 DEF AccumulatesBlocks
        <3>2. CASE s \notin found /\ t \in found
            BY <1>4, <2>3, <3>2
        <3>3. CASE s \in found /\ t \notin found
            BY <1>4, <2>3, <3>3
        <3>4. CASE s \notin found /\ t \notin found
            <4>1. s \in Kept(at) /\ t \in Kept(at)
                BY <1>4, <3>4
            <4>2. s \in space.spans /\ t \in space.spans
                BY <4>1 DEF Kept, FoundIn
            <4>3. s.start <= t.start /\ t.start <= s.start
                BY <2>3, <4>1 DEF Kept
            <4>4. s.start \in Nat /\ t.start \in Nat
                BY <4>2, BlockAssumption DEF TypeOK
            <4>5. s.start = t.start
                BY <4>3, <4>4
            <4> QED BY <2>3, <4>2, <4>5, BlockAssumption DEF TypeOK
        <3> QED BY <3>1, <3>2, <3>3, <3>4
    <2> QED BY <1>1, <1>2, <2>1, <2>2, <2>3 DEF AccumulatesBlocks, Represented
<1>7. CurrentInv'
    <2> SUFFICES ASSUME NEW s \in FoundIn(space, Current),
                        ShouldEvaluateRule(Pattern[s.pat].rule), Pattern[s.pat].rule < at + 1
                 PROVE  Represented(s)'
        BY <1>1, <1>2 DEF CurrentInv, FoundIn
    <2>1. Pattern[s.pat].rule \in Nat
        BY BlockAssumption DEF FoundIn, TypeOK, RuleIds
    <2>2. CASE Pattern[s.pat].rule < at
        BY <1>1, <1>5, <2>2 DEF CurrentInv
    <2>3. CASE Pattern[s.pat].rule = at
        BY <1>1, <1>3, <2>3, KeptRepresents
    <2> QED BY <1>1, <2>1, <2>2, <2>3
<1> QED BY <1>6, <1>7

\* What is accumulated stays in step with the blocks.
LEMMA AccumulationStep ==
    ASSUME TypeOK, AccumulatesBlocks, CurrentInv, [Next]_vars
    PROVE  AccumulatesBlocks' /\ CurrentInv'
<1>1. CASE StartBlock
    <2>1. PICK b \in Blocks : blocks' = Append(blocks, b)
        BY <1>1 DEF StartBlock
    <2>2. Supplied' = Supplied \cup {b} /\ Len(blocks') = Len(blocks) + 1
        BY <2>1, ListedBlock DEF TypeOK
    <2>3. UNCHANGED <<space, found, whole>> /\ at' = 1
        BY <1>1 DEF StartBlock
    <2>4. AccumulatesBlocks'
        BY <2>2, <2>3 DEF AccumulatesBlocks
    <2>5. Len(blocks') > 0
        BY <2>2 DEF TypeOK
    <2>6. ASSUME NEW s \in space.spans PROVE ~(Pattern[s.pat].rule < 1)
        BY BlockAssumption DEF TypeOK, RuleIds
    <2> QED BY <2>3, <2>4, <2>5, <2>6 DEF CurrentInv, FoundIn
<1>2. CASE MatchRule
    BY <1>2, MatchStep
<1>3. CASE BlockDone
    <2>1. /\ whole' = whole \cup {Current} /\ pc = "scan" /\ pc' = "idle" /\ at > NumRules
          /\ UNCHANGED <<space, blocks, found>>
        BY <1>3 DEF BlockDone, spaceVars
    <2>2. ASSUME NEW s \in FoundIn(space, Current), ShouldEvaluateRule(Pattern[s.pat].rule)
          PROVE  Represented(s)
        <3>1. Pattern[s.pat].rule \in 1 .. NumRules
            BY BlockAssumption DEF FoundIn, TypeOK, RuleIds
        <3>2. Pattern[s.pat].rule < at
            BY <2>1, <3>1, RuleSetAssumption DEF TypeOK
        <3> QED BY <2>1, <2>2, <3>2 DEF CurrentInv
    <2>3. Supplied' = Supplied
        BY <2>1 DEF Supplied
    <2> QED BY <2>1, <2>2, <2>3 DEF AccumulatesBlocks, CurrentInv, Represented
<1>4. CASE Reset \/ Close
    <2>1. found' = {} /\ whole' = {} /\ pc' = "idle"
        BY <1>4 DEF Reset, Close, Emptied
    <2> QED BY <2>1 DEF AccumulatesBlocks, CurrentInv
<1>5. CASE UNCHANGED <<space, blocks, found, whole>> /\ (pc' = "scan" => UNCHANGED <<pc, at>>)
    <2>1. UNCHANGED <<Supplied, Current>>
        BY <1>5 DEF Supplied, Current
    <2> QED BY <1>5, <2>1 DEF AccumulatesBlocks, CurrentInv, Represented
<1> QED BY <1>1, <1>2, <1>3, <1>4, <1>5
        DEF Next, Scanning, Finishing, Refuse, SetFileSize, Cancel, Abort, StartFinish,
            EvaluateRule, ConditionFails, Report, vars, spaceVars

\* What is supplied.
LEMMA SupplyStep ==
    ASSUME TypeOK, CurrentInv, SupplyInv, [Next]_vars
    PROVE  SupplyInv'
<1>1. CASE StartBlock
    <2>1. PICK b \in Blocks : blocks' = Append(blocks, b) /\ End(b) <= space.length
        BY <1>1 DEF StartBlock
    <2>2. Supplied' = Supplied \cup {b}
        BY <2>1, ListedBlock DEF TypeOK
    <2>3. UNCHANGED <<space, whole>>
        BY <1>1 DEF StartBlock
    <2> QED BY <2>1, <2>2, <2>3 DEF SupplyInv
<1>2. CASE BlockDone
    <2>1. whole' = whole \cup {Current} /\ UNCHANGED <<space, blocks>>
        BY <1>2 DEF BlockDone, spaceVars
    <2>2. Current \in Supplied
        BY <1>2, CurrentIsSupplied DEF BlockDone, CurrentInv, TypeOK
    <2> QED BY <2>1, <2>2 DEF SupplyInv, Supplied
<1>3. CASE Reset \/ Close
    BY <1>3 DEF Reset, Close, Emptied, SupplyInv, Supplied
<1>4. CASE UNCHANGED <<space, blocks, whole>>
    BY <1>4 DEF SupplyInv, Supplied
<1> QED BY <1>1, <1>2, <1>3, <1>4
        DEF Next, Scanning, Finishing, Refuse, SetFileSize, Cancel, Abort, MatchRule,
            StartFinish, EvaluateRule, ConditionFails, Report, vars, spaceVars

\* The loop of Finish follows the meaning of the rules, and what it reports is that.
LEMMA AnswerStep ==
    ASSUME TypeOK, VerdictInv, AnswerInv, [Next]_vars
    PROVE  VerdictInv' /\ AnswerInv'
<1>0. NumRules \in Nat
    BY RuleSetAssumption
<1>1. ASSUME UNCHANGED <<blocks, found, fileSize>> PROVE Facts' = Facts
    BY <1>1 DEF Facts, Supplied
<1>2. CASE EvaluateRule
    <2>1. /\ at \in RuleIds /\ at \in Nat /\ at' = at + 1 /\ pc = "finish"
          /\ UNCHANGED <<blocks, found, fileSize, pc, result>>
        BY <1>0, <1>2 DEF EvaluateRule, TypeOK, spaceVars, RuleIds
    <2>2. dense' = IF ShouldEvaluateRule(at)
                   THEN [dense EXCEPT ![at] = Holds(at, Facts, dense)] ELSE dense
        BY <1>2 DEF EvaluateRule
    <2>3. RuleResults(Facts)[at] = (ShouldEvaluateRule(at) /\ Holds(at, Facts, dense))
        BY <2>1, LoopFollowsResults DEF VerdictInv
    <2>4. \A q \in RuleIds \ {at} : dense'[q] = dense[q]
        BY <2>2 DEF TypeOK
    <2>5. dense'[at] = RuleResults(Facts)[at]
        <3>1. CASE ShouldEvaluateRule(at)
            <4>1. dense'[at] = Holds(at, Facts, dense)
                BY <2>1, <2>2, <3>1 DEF TypeOK
            <4>2. Holds(at, Facts, dense) \in BOOLEAN
                BY DEF Holds
            <4>3. RuleResults(Facts)[at] = Holds(at, Facts, dense)
                BY <2>3, <3>1, <4>2
            <4> QED BY <4>1, <4>3
        <3>2. CASE ~ShouldEvaluateRule(at)
            <4>1. ~dense[at] /\ dense[at] \in BOOLEAN
                BY <1>0, <2>1 DEF VerdictInv, TypeOK, RuleIds
            <4>2. RuleResults(Facts)[at] = FALSE
                BY <2>3, <3>2
            <4> QED BY <2>2, <3>2, <4>1, <4>2
        <3> QED BY <3>1, <3>2
    <2>6. VerdictInv'
        <3>1. \A q \in 1 .. at : dense'[q] = RuleResults(Facts)[q]
            BY <1>0, <2>1, <2>4, <2>5 DEF VerdictInv, RuleIds
        <3>2. \A q \in (at + 1) .. NumRules : ~dense'[q]
            BY <1>0, <2>1, <2>4 DEF VerdictInv, RuleIds
        <3>3. Facts' = Facts /\ (at + 1) - 1 = at
            BY <1>1, <2>1
        <3> HIDE DEF Facts
        <3> QED BY <2>1, <3>1, <3>2, <3>3 DEF VerdictInv
    <2> QED BY <1>1, <2>1, <2>6 DEF AnswerInv, Returned
<1>3. CASE Report
    <2>1. /\ pc = "finish" /\ pc' = "idle" /\ at > NumRules /\ at \in 1 .. (NumRules + 1)
          /\ result' = [status |-> "reported", rules |-> ReportedIf(dense, FALSE, GlobalsMatched)]
          /\ UNCHANGED <<blocks, found, fileSize>>
        BY <1>3 DEF Report, TypeOK, spaceVars
    <2>2. dense = RuleResults(Facts)
        <3>1. \A q \in RuleIds : dense[q] = RuleResults(Facts)[q]
            BY <1>0, <2>1 DEF VerdictInv, RuleIds
        <3>2. RuleResults(Facts) \in [RuleIds -> BOOLEAN]
            BY ResultsUnfold
        <3> QED BY <3>1, <3>2 DEF TypeOK
    <2>3. GlobalsMatched = GlobalsHold(dense)
        BY DEF GlobalsMatched, GlobalsHold
    <2> HIDE DEF Facts
    <2> QED BY <1>1, <2>1, <2>2, <2>3 DEF VerdictInv, AnswerInv
<1>4. CASE StartFinish
    <2>1. dense' = NoResults /\ at' = 1 /\ result' = Returned("none") /\ pc' = "finish"
        BY <1>4 DEF StartFinish
    <2>2. \A q \in 1 .. NumRules : ~dense'[q]
        BY <2>1 DEF NoResults, RuleIds
    <2> QED BY <2>1, <2>2 DEF VerdictInv, AnswerInv, Returned
<1>5. CASE Cancel \/ UNCHANGED vars
    <2>1. UNCHANGED <<blocks, found, fileSize, dense, pc, at, result>>
        BY <1>5 DEF Cancel, vars, spaceVars
    <2> QED BY <1>1, <2>1 DEF VerdictInv, AnswerInv, Returned
<1>6. CASE MatchRule
    <2>1. pc = "scan" /\ pc' = "scan" /\ result' = Returned("none")
        BY <1>6 DEF MatchRule, AnswerInv
    <2>2. result'.status # "reported"
        BY <2>1 DEF Returned
    <2> QED BY <2>1, <2>2 DEF VerdictInv, AnswerInv
<1>7. CASE Refuse \/ SetFileSize \/ Abort \/ StartBlock \/ BlockDone \/ ConditionFails \/ Reset
           \/ Close
    <2>1. /\ pc' = "idle" \/ (pc' = "scan" /\ result' = Returned("none"))
          /\ \E st \in {"none", "error", "added"} : result' = Returned(st)
        BY <1>7 DEF Refuse, SetFileSize, Abort, StartBlock, BlockDone, ConditionFails, Reset,
            Close, Emptied
    <2>2. result'.status # "reported"
        BY <2>1 DEF Returned
    <2> QED BY <2>1, <2>2 DEF VerdictInv, AnswerInv
<1> QED BY <1>2, <1>3, <1>4, <1>5, <1>6, <1>7 DEF Next, Scanning, Finishing

---------------------------------------------------------------------------
(* The answer, once every listed block was scanned. *)

FoundInAll(i, B) == UNION {FoundIn(i, b) : b \in B}

FactsFor(i, B, override) ==
    [count |-> [p \in Patterns |-> Count(FoundInAll(i, B), p)], readable |-> Readable(B),
     size |-> IF override >= 0 THEN override ELSE Max({0} \cup {End(b) : b \in B})]

Override == IF fileSizeSet THEN fileSize ELSE -1

\* What is accumulated of an evaluated string is what the blocks have of it.
LEMMA FoundIsUnion ==
    ASSUME TypeOK, AccumulatesBlocks, Supplied = whole,
           NEW p \in Patterns, ShouldEvaluateRule(Pattern[p].rule)
    PROVE  /\ Count(found, p) \in Nat /\ Count(FoundInAll(space, whole), p) \in Nat
           /\ Count(found, p) > 0 <=> Count(FoundInAll(space, whole), p) > 0
           /\ Clipped(p) \/ Count(found, p) = Count(FoundInAll(space, whole), p)
<1> DEFINE union == FoundInAll(space, whole)
<1>1. found \subseteq space.spans /\ union \subseteq space.spans /\ IsFiniteSet(space.spans)
    BY BlockAssumption DEF TypeOK, FoundInAll, FoundIn
<1>2. IsFiniteSet(found) /\ IsFiniteSet(union)
    <2> HIDE DEF union
    <2> QED BY <1>1, FS_Subset
<1>3. \A s \in found : s \in union
    BY DEF AccumulatesBlocks, FoundInAll
<1>4. ASSUME NEW s \in union, s.pat = p
      PROVE  IF Clipped(p) THEN \E t \in found : t.pat = p ELSE s \in found
    BY <1>4 DEF AccumulatesBlocks, FoundInAll
<1> HIDE DEF union
<1>5. (\E s \in found : s.pat = p) <=> (\E s \in union : s.pat = p)
    BY <1>3, <1>4
<1>6. ~Clipped(p) => {s \in found : s.pat = p} = {s \in union : s.pat = p}
    BY <1>3, <1>4
<1>7. Clipped(p) \/ Count(found, p) = Count(union, p)
    BY <1>6 DEF Count
<1>8. /\ Count(found, p) \in Nat /\ Count(union, p) \in Nat
      /\ Count(found, p) > 0 <=> \E s \in found : s.pat = p
      /\ Count(union, p) > 0 <=> \E s \in union : s.pat = p
    BY <1>2, StartsOfPattern DEF Count
<1> QED BY <1>5, <1>7, <1>8 DEF union

\* The file size a condition sees.
LEMMA SizeIsHighestEnd ==
    ASSUME TypeOK, DefaultFileSize, Supplied = whole
    PROVE  fileSize = IF Override >= 0 THEN Override ELSE Max({0} \cup {End(b) : b \in whole})
<1>1. CASE fileSizeSet
    BY <1>1 DEF TypeOK, Override
<1>2. CASE ~fileSizeSet
    <2> DEFINE ends == {0} \cup {End(b) : b \in whole}
    <2>1. ends \subseteq Int
        BY BlockAssumption DEF TypeOK, End
    <2>2. fileSize \in ends /\ \A e \in ends : fileSize >= e
        <3>1. \A b \in whole : End(b) <= fileSize /\ End(b) \in Nat
            BY <1>2, BlockAssumption DEF DefaultFileSize, TypeOK, End
        <3>2. fileSize = 0 \/ \E b \in whole : End(b) = fileSize
            BY <1>2 DEF DefaultFileSize
        <3>3. fileSize \in Nat
            BY DEF TypeOK
        <3> HIDE DEF End
        <3> QED BY <3>1, <3>2, <3>3
    <2>3. Max(ends) = fileSize
        <3> HIDE DEF ends
        <3> QED BY <2>1, <2>2, MaxIs
    <2> QED BY <1>2, <2>3 DEF Override
<1> QED BY <1>1, <1>2 DEF TypeOK

LEMMA AnswerOfSupplied ==
    ASSUME TypeOK, DefaultFileSize, AccumulatesBlocks, Supplied = whole
    PROVE  RuleResults(Facts) = RuleResults(FactsFor(space, whole, Override))
<1> DEFINE F == FactsFor(space, whole, Override)
<1>1. Facts.readable = F.readable /\ Facts.size = F.size
    BY SizeIsHighestEnd DEF Facts, FactsFor
<1>2. ASSUME NEW r \in RuleIds, ShouldEvaluateRule(r), NEW c \in Rule[r].clauses,
             NEW p \in c.need \cup c.twice \cup c.absent
      PROVE  /\ Facts.count[p] \in Nat /\ F.count[p] \in Nat
             /\ Facts.count[p] > 0 <=> F.count[p] > 0
             /\ FastScanSafe(r) \/ Facts.count[p] = F.count[p]
    <2>1. p \in Patterns /\ Pattern[p].rule = r
        BY <1>2, BlockAssumption, RuleSetAssumption DEF Clause
    <2>2. /\ Facts.count[p] = Count(found, p)
          /\ F.count[p] = Count(FoundInAll(space, whole), p)
        BY <2>1 DEF Facts, FactsFor
    <2> HIDE DEF F
    <2> QED BY <1>2, <2>1, <2>2, FoundIsUnion DEF Clipped
<1> HIDE DEF F
<1>3. RuleResults(Facts) = RuleResults(F)
    BY <1>1, <1>2, SameCountsSameResults
<1> QED BY <1>3 DEF F

---------------------------------------------------------------------------
(* Theorems *)

\* What a block scanner keeps stays in step with what it was given, through failed
\* scans, retries, repeated Finish calls and resets.
THEOREM BlockInvariant == Spec => []IInv
<1>1. Init => IInv
    <2> SUFFICES ASSUME Init PROVE IInv
        OBVIOUS
    <2>1. TypeOK
        <3>1. <<>> \in Seq(Blocks) /\ Len(<<>>) <= MaxBlocks /\ 1 \in 1 .. (NumRules + 1)
            BY BlockAssumption, RuleSetAssumption
        <3> QED BY <3>1 DEF Init, TypeOK, NoResults, Returned
    <2> QED BY <2>1 DEF Init, IInv, DefaultFileSize, AccumulatesBlocks, CurrentInv, Supplied,
                        SupplyInv, VerdictInv, AnswerInv, Returned
<1>2. IInv /\ [Next]_vars => IInv'
    BY TypeStep, FileSizeStep, AccumulationStep, SupplyStep, AnswerStep DEF IInv
<1> QED BY <1>1, <1>2, PTL DEF Spec

\* Every variable of the block scanner has its type.
THEOREM BlockTypesHold == Spec => []TypeOK
<1>1. IInv => TypeOK
    BY DEF IInv
<1> QED BY <1>1, BlockInvariant, PTL

\* BlockScanner.matches holds what the scanned blocks contain, for every rule set, every
\* order of blocks, and every history of failed and repeated calls.
THEOREM BlocksAccumulate == Spec => []AccumulatesBlocks
<1>1. IInv => AccumulatesBlocks
    BY DEF IInv
<1> QED BY <1>1, BlockInvariant, PTL

\* The default file size is the highest block end since the last Reset.
THEOREM FileSizeIsHighestEnd == Spec => []DefaultFileSize
<1>1. IInv => DefaultFileSize
    BY DEF IInv
<1> QED BY <1>1, BlockInvariant, PTL

---------------------------------------------------------------------------
(* The refinement *)

\* Finish asks every global rule, and a gated one is never evaluated.
NoGatedGlobals == \A r \in RuleIds : Rule[r].global => ~Rule[r].gated

\* What Finish reports is what its caller is promised.
LEMMA ReportOfSupplied ==
    ASSUME NoGatedGlobals, TypeOK, DefaultFileSize, AccumulatesBlocks, Supplied = whole
    PROVE  ReportedIf(RuleResults(Facts), FALSE, GlobalsHold(RuleResults(Facts)))
               = ReportFor(space, whole, Override)
<1> DEFINE R == RuleResults(FactsFor(space, whole, Override))
<1>1. RuleResults(Facts) = R
    BY AnswerOfSupplied
<1>2. ReportFor(space, whole, Override) = Reported(R, FALSE)
    BY DEF ReportFor, FactsFor, FoundInAll
<1> HIDE DEF R
<1>3. EvaluatedGlobalRules = {r \in RuleIds : Rule[r].global}
    BY GlobalsAreEvaluated DEF NoGatedGlobals
<1>4. AllGlobalMatched(R) = GlobalsHold(R)
    BY <1>3 DEF AllGlobalMatched, GlobalsHold
<1> QED BY <1>1, <1>2, <1>4 DEF Reported

\* What the contract sees of the state.
Doubtful == {blocks[k] : k \in 1 .. IF pc = "scan" THEN Len(blocks) - 1 ELSE Len(blocks)} \ whole
Request == IF pc = "scan" THEN Current ELSE NoBlock
Status == CASE pc = "scan" -> "scanning"
            [] pc = "finish" -> "finishing"
            [] OTHER -> IF result.status = "none" THEN "ready" ELSE result.status

LEMMA IdleStatus ==
    ASSUME TypeOK, pc = "idle"
    PROVE  /\ Status \notin {"scanning", "finishing"} /\ Request = NoBlock
           /\ Doubtful = Supplied \ whole
BY DEF TypeOK, Status, Request, Doubtful, Supplied

\* Outside a Scan the blocks decide what is doubtful.
LEMMA DoubtfulIsSame ==
    ASSUME UNCHANGED <<blocks, whole>>, pc # "scan", pc' # "scan"
    PROVE  Doubtful' = Doubtful
BY DEF Doubtful

\* While a block is scanned, the blocks before it may be doubtful.
LEMMA DoubtfulWhileScanning ==
    ASSUME TypeOK, Len(blocks) > 0
    PROVE  Supplied = {blocks[k] : k \in 1 .. (Len(blocks) - 1)} \cup {Current}
<1>1. Len(blocks) \in Nat /\ 1 .. Len(blocks) = (1 .. (Len(blocks) - 1)) \cup {Len(blocks)}
    BY DEF TypeOK
<1> QED BY <1>1 DEF Supplied, Current

LEMMA StepImplements ==
    ASSUME NoGatedGlobals, IInv, IInv', [Next]_vars
    PROVE  [Contract!Next]_(Contract!vars)
<1> DEFINE mapped == <<space, whole, Doubtful, Override, ~closed, Request, cancelled, Status,
                       result.rules>>
<1>0. TypeOK /\ TypeOK' /\ NumRules \in Nat
    BY RuleSetAssumption DEF IInv
<1> USE DEF Returned
<1>1. ASSUME Refuse PROVE Contract!Refuse
    <2>1. /\ pc = "idle" /\ pc' = "idle" /\ result' = [status |-> "error", rules |-> {}]
          /\ UNCHANGED <<space, closed, blocks, fileSize, fileSizeSet, cancelled, whole>>
        BY <1>1 DEF Refuse, spaceVars
    <2>2. UNCHANGED <<Doubtful, Override, Request>>
        BY <2>1, DoubtfulIsSame DEF Override, Request
    <2>3. Status' = "error" /\ Status \notin {"scanning", "finishing"}
        BY <1>0, <2>1, IdleStatus DEF Status
    <2> QED BY <2>1, <2>2, <2>3 DEF Contract!Refuse, Contract!Idle, Doubtful, Override, Request,
                Status
<1>2. ASSUME SetFileSize PROVE Contract!SetFileSize
    <2>1. /\ pc = "idle" /\ pc' = "idle" /\ result' = [status |-> "none", rules |-> {}]
          /\ fileSizeSet' = TRUE /\ UNCHANGED <<space, closed, blocks, cancelled, whole>>
        BY <1>2 DEF SetFileSize
    <2>2. UNCHANGED <<Doubtful, Request>> /\ Override' >= 0
        BY <1>0, <2>1, DoubtfulIsSame DEF Override, Request, TypeOK
    <2>3. Status' = "ready" /\ Status \notin {"scanning", "finishing"}
        BY <1>0, <2>1, IdleStatus DEF Status
    <2> QED BY <2>1, <2>2, <2>3 DEF Contract!SetFileSize, Contract!Idle, Doubtful, Override,
                Request, Status
<1>3. ASSUME Cancel PROVE Contract!Cancel
    <2>1. /\ pc \in {"scan", "finish"} /\ ~cancelled /\ cancelled' = TRUE
          /\ UNCHANGED <<space, closed, blocks, fileSize, fileSizeSet, whole, pc, result>>
        BY <1>0, <1>3 DEF Cancel, spaceVars, TypeOK
    <2>2. UNCHANGED <<Doubtful, Override, Request, Status>> /\ Status \in {"scanning", "finishing"}
        BY <2>1 DEF Doubtful, Override, Request, Status, Current
    <2> QED BY <2>1, <2>2 DEF Contract!Cancel, Contract!Idle, Doubtful, Override, Request, Status
<1>4. ASSUME Abort PROVE Contract!Broken \/ Contract!Unanswered
    <2>1. /\ pc \in {"scan", "finish"} /\ cancelled /\ pc' = "idle"
          /\ result' = [status |-> "error", rules |-> {}]
          /\ result = [status |-> "none", rules |-> {}]
          /\ UNCHANGED <<space, closed, blocks, fileSize, fileSizeSet, cancelled, whole>>
        BY <1>0, <1>4 DEF Abort, IInv, AnswerInv, spaceVars, TypeOK
    <2>2. UNCHANGED Override /\ Status' = "error" /\ Request' = NoBlock
        BY <2>1 DEF Override, Status, Request
    <2>3. CASE pc = "scan"
        <3>1. Status = "scanning" /\ Request = Current
            BY <2>3 DEF Status, Request
        <3>2. Doubtful' = Doubtful \cup ({Current} \ whole)
            <4>1. Doubtful' = Supplied \ whole
                BY <2>1 DEF Doubtful, Supplied
            <4>2. Doubtful = {blocks[k] : k \in 1 .. (Len(blocks) - 1)} \ whole
                BY <2>3 DEF Doubtful
            <4> QED BY <1>0, <2>3, <4>1, <4>2, DoubtfulWhileScanning DEF IInv, CurrentInv
        <3> QED BY <2>1, <2>2, <3>1, <3>2 DEF Contract!Broken, Doubtful, Override, Request, Status
    <2>4. CASE pc = "finish"
        <3>1. Status = "finishing" /\ Request = NoBlock /\ Doubtful' = Doubtful
            BY <2>1, <2>4, DoubtfulIsSame DEF Status, Request
        <3> QED BY <2>1, <2>2, <3>1 DEF Contract!Unanswered, Doubtful, Override, Request, Status
    <2> QED BY <2>1, <2>3, <2>4
<1>5. ASSUME StartBlock PROVE Contract!Call
    <2>1. PICK b \in Blocks : blocks' = Append(blocks, b)
        BY <1>5 DEF StartBlock
    <2>2. /\ pc = "idle" /\ pc' = "scan" /\ ~closed /\ cancelled' = FALSE
          /\ result' = [status |-> "none", rules |-> {}]
          /\ UNCHANGED <<space, closed, fileSizeSet, whole>>
          /\ ~fileSizeSet \/ fileSize' = fileSize
        BY <1>5 DEF StartBlock, RaisedSize
    <2>3. Len(blocks') = Len(blocks) + 1 /\ Len(blocks) \in Nat /\ Current' = b
        BY <1>0, <2>1, ListedBlock DEF TypeOK
    <2>4. Doubtful' = Doubtful
        <3>1. \A k \in 1 .. Len(blocks) : blocks'[k] = blocks[k]
            BY <1>0, <2>1 DEF TypeOK
        <3>2. Len(blocks') - 1 = Len(blocks)
            BY <2>3
        <3> QED BY <2>2, <3>1, <3>2 DEF Doubtful
    <2>5. Override' = Override
        BY <2>2 DEF Override
    <2>6. Request' = b /\ b # NoBlock
        <3>1. b.length \in Nat
            BY BlockAssumption
        <3> QED BY <2>2, <2>3, <3>1 DEF Request, NoBlock
    <2>7. Status' = "scanning" /\ Status \notin {"scanning", "finishing"}
        BY <1>0, <2>2, IdleStatus DEF Status
    <2> QED BY <2>2, <2>4, <2>5, <2>6, <2>7
            DEF Contract!Call, Contract!Idle, Doubtful, Override, Request, Status
<1>6. ASSUME MatchRule \/ EvaluateRule \/ UNCHANGED vars PROVE UNCHANGED Contract!vars
    <2>1. UNCHANGED <<space, whole, blocks, fileSize, fileSizeSet, closed, pc, cancelled, result>>
        BY <1>6 DEF MatchRule, EvaluateRule, vars, spaceVars
    <2>2. UNCHANGED mapped
        BY <2>1 DEF Doubtful, Override, Request, Status, Current
    <2> QED BY <2>2 DEF Contract!vars, Doubtful, Override, Request, Status
<1>7. ASSUME BlockDone PROVE Contract!Added
    <2>1. /\ pc = "scan" /\ pc' = "idle" /\ result' = [status |-> "added", rules |-> {}]
          /\ result = [status |-> "none", rules |-> {}]
          /\ whole' = whole \cup {Current}
          /\ UNCHANGED <<space, closed, blocks, fileSize, fileSizeSet, cancelled>>
        BY <1>7 DEF BlockDone, IInv, AnswerInv, spaceVars
    <2>2. Doubtful' = Doubtful \ {Current}
        <3>1. Doubtful' = Supplied \ (whole \cup {Current})
            BY <2>1 DEF Doubtful, Supplied
        <3>2. Doubtful = {blocks[k] : k \in 1 .. (Len(blocks) - 1)} \ whole
            BY <2>1 DEF Doubtful
        <3> QED BY <1>0, <2>1, <3>1, <3>2, DoubtfulWhileScanning DEF IInv, CurrentInv
    <2>3. /\ Override' = Override /\ Request = Current /\ Request' = NoBlock
          /\ Status = "scanning" /\ Status' = "added"
        BY <2>1 DEF Override, Request, Status
    <2> QED BY <2>1, <2>2, <2>3 DEF Contract!Added, Doubtful, Override, Request, Status
<1>8. ASSUME StartFinish PROVE Contract!Call
    <2>1. /\ pc = "idle" /\ pc' = "finish" /\ ~closed /\ cancelled' = FALSE
          /\ result' = [status |-> "none", rules |-> {}]
          /\ UNCHANGED <<space, closed, blocks, fileSize, fileSizeSet, whole>>
        BY <1>8 DEF StartFinish, spaceVars
    <2>2. UNCHANGED <<Doubtful, Override>> /\ Request' = NoBlock /\ Status' = "finishing"
        BY <2>1, DoubtfulIsSame DEF Override, Request, Status
    <2>3. Status \notin {"scanning", "finishing"}
        BY <1>0, <2>1, IdleStatus
    <2> QED BY <2>1, <2>2, <2>3 DEF Contract!Call, Contract!Idle, Doubtful, Override, Request, Status
<1>9. ASSUME ConditionFails PROVE Contract!Unanswered
    <2>1. /\ pc = "finish" /\ pc' = "idle" /\ Fallible # {}
          /\ result' = [status |-> "error", rules |-> {}]
          /\ result = [status |-> "none", rules |-> {}]
          /\ UNCHANGED <<space, closed, blocks, fileSize, fileSizeSet, cancelled, whole>>
        BY <1>9 DEF ConditionFails, IInv, AnswerInv, spaceVars
    <2>2. /\ UNCHANGED <<Doubtful, Override, Request>>
          /\ Status = "finishing" /\ Status' = "error"
        BY <2>1, DoubtfulIsSame DEF Override, Request, Status
    <2> QED BY <2>1, <2>2 DEF Contract!Unanswered, Doubtful, Override, Request, Status
<1>10. ASSUME Report PROVE Contract!Answered
    <2>1. /\ pc = "finish" /\ pc' = "idle" /\ result'.status = "reported"
          /\ UNCHANGED <<space, closed, blocks, found, fileSize, fileSizeSet, cancelled, whole>>
        BY <1>10 DEF Report, spaceVars
    <2>2. /\ UNCHANGED <<Doubtful, Override, Request>>
          /\ Status = "finishing" /\ Status' = "reported"
        BY <2>1, DoubtfulIsSame DEF Override, Request, Status
    <2>3. result'.rules \subseteq RuleIds
        BY <1>0 DEF TypeOK
    <2>4. ASSUME Doubtful = {} PROVE result'.rules = ReportFor(space, whole, Override)
        <3>1. Supplied = whole
            BY <2>1, <2>4 DEF Doubtful, Supplied, IInv, SupplyInv
        <3>2. Facts' = Facts
            BY <2>1 DEF Facts, Supplied
        <3>3. result'.rules = ReportedIf(RuleResults(Facts), FALSE, GlobalsHold(RuleResults(Facts)))
            <4> HIDE DEF Facts
            <4> QED BY <2>1, <3>2 DEF IInv, AnswerInv
        <3> QED BY <1>0, <3>1, <3>3, ReportOfSupplied DEF IInv
    <2> QED BY <2>1, <2>2, <2>3, <2>4 DEF Contract!Answered, Doubtful, Override, Request, Status
<1>11. ASSUME Reset \/ Close PROVE Contract!Clear
    <2>1. /\ pc = "idle" /\ pc' = "idle" /\ result' = [status |-> "none", rules |-> {}]
          /\ blocks' = <<>> /\ fileSizeSet' = FALSE /\ whole' = {}
          /\ UNCHANGED cancelled /\ (closed => closed')
        BY <1>0, <1>11 DEF Reset, Close, Emptied, TypeOK
    <2>2. /\ Doubtful' = {} /\ Override' = -1 /\ UNCHANGED Request
          /\ Status \notin {"scanning", "finishing"} /\ Status' = "ready"
        BY <1>0, <2>1, IdleStatus DEF Doubtful, Override, Request, Status
    <2> QED BY <2>1, <2>2 DEF Contract!Clear, Contract!Idle, Doubtful, Override, Request, Status
<1> QED BY <1>1, <1>2, <1>3, <1>4, <1>5, <1>6, <1>7, <1>8, <1>9, <1>10, <1>11
        DEF Next, Scanning, Finishing, Contract!Next

LEMMA InitImplements == Init => Contract!Init
BY DEF Init, Contract!Init, Returned

\* A block scanner answers as BlockContract promises, whatever order its blocks come in,
\* however often they overlap, fail and are scanned again (BlockScanner.Finish).
THEOREM BlocksImplementContract == ASSUME NoGatedGlobals PROVE Spec => ImplementsContract
<1>1. IInv /\ IInv' /\ [Next]_vars => [Contract!Next]_(Contract!vars)
    BY StepImplements
<1> QED BY <1>1, InitImplements, BlockInvariant, PTL
        DEF Spec, ImplementsContract, Contract!Spec

---------------------------------------------------------------------------
(* Blocks and one scan of the whole space *)

WholeSpace == [base |-> 0, length |-> space.length]

\* Blocks that cover the space find what one block of it would.
LEMMA CoveredFindsAll ==
    ASSUME TypeOK, SupplyInv, Supplied = whole, CoversSpace
    PROVE  FoundInAll(space, whole) = FoundInAll(space, {WholeSpace})
<1>0. /\ space.length \in Nat /\ End(WholeSpace) = space.length
      /\ Holding(WholeSpace) = 0 .. (space.length - 1)
    BY BlockAssumption DEF TypeOK, WholeSpace, End, Holding
<1>1. ASSUME NEW s \in space.spans
      PROVE  s \in FoundIn(space, WholeSpace) <=> s.start + s.len <= space.length /\ s.veto = -1
    <2>1. s.start \in Nat /\ s.veto \in -1 .. (space.length - 1)
        BY BlockAssumption DEF TypeOK
    <2>2. s.veto \notin Holding(WholeSpace) <=> s.veto = -1
        BY <1>0, <2>1
    <2> QED BY <1>0, <2>1, <2>2 DEF FoundIn, WholeSpace
<1>2. ASSUME NEW s \in space.spans
      PROVE  (\E b \in whole : s \in FoundIn(space, b)) <=> s \in FoundIn(space, WholeSpace)
    <2>1. CASE s.veto = -1
        <3>1. PICK b \in whole : s \in FoundIn(space, b)
            BY <2>1 DEF CoversSpace
        <3>2. s.start + s.len <= End(b) /\ End(b) <= space.length
            BY <3>1 DEF FoundIn, SupplyInv
        <3>3. s.start \in Nat /\ s.len \in Nat /\ End(b) \in Nat
            BY BlockAssumption DEF TypeOK, End
        <3>4. s.start + s.len <= space.length
            BY <1>0, <3>2, <3>3
        <3> QED BY <1>1, <2>1, <3>1, <3>4
    <2>2. CASE s.veto # -1
        BY <1>1, <2>2 DEF CoversSpace
    <2> QED BY <2>1, <2>2
<1>3. ASSUME NEW s
      PROVE  s \in FoundInAll(space, whole) <=> s \in FoundInAll(space, {WholeSpace})
    <2>1. \A b : s \in FoundIn(space, b) => s \in space.spans
        BY DEF FoundIn
    <2> QED BY <1>2, <2>1 DEF FoundInAll
<1> QED BY <1>3

\* They answer the same.
LEMMA CoveredFacts ==
    ASSUME TypeOK, SupplyInv, Supplied = whole, CoversSpace
    PROVE  FactsFor(space, whole, -1) = FactsFor(space, {WholeSpace}, -1)
<1>0. /\ space.length \in Nat /\ ReadWidth \in Nat /\ whole \subseteq Blocks
      /\ \A b \in whole : b.base \in Nat /\ End(b) \in Nat /\ End(b) <= space.length
      /\ End(WholeSpace) = space.length /\ WholeSpace.base = 0
    BY BlockAssumption DEF TypeOK, WholeSpace, End, SupplyInv
<1>1. Readable(whole) = Readable({WholeSpace})
    <2>1. Readable({WholeSpace}) = ReadWidth .. space.length
        BY <1>0 DEF Readable
    <2>2. ASSUME NEW b \in whole, NEW e \in (b.base + ReadWidth) .. End(b)
          PROVE  e \in ReadWidth .. space.length
        BY <1>0
    <2>3. Readable(whole) \subseteq ReadWidth .. space.length
        BY <2>2 DEF Readable
    <2> QED BY <2>1, <2>3 DEF CoversSpace
<1>2. Max({0} \cup {End(b) : b \in whole}) = space.length
    <2> DEFINE ends == {0} \cup {End(b) : b \in whole}
    <2>1. ends \subseteq Int /\ space.length \in ends /\ \A e \in ends : space.length >= e
        <3> HIDE DEF End
        <3> QED BY <1>0 DEF CoversSpace
    <2> HIDE DEF ends
    <2>2. Max(ends) = space.length
        BY <2>1, MaxIs
    <2> QED BY <2>2 DEF ends
<1>3. Max({0} \cup {End(b) : b \in {WholeSpace}}) = space.length
    <2> DEFINE ends == {0} \cup {End(b) : b \in {WholeSpace}}
    <2>1. ends \subseteq Int /\ space.length \in ends /\ \A e \in ends : space.length >= e
        BY <1>0
    <2> HIDE DEF ends
    <2>2. Max(ends) = space.length
        BY <2>1, MaxIs
    <2> QED BY <2>2 DEF ends
<1> QED BY <1>1, <1>2, <1>3, CoveredFindsAll DEF FactsFor

\* Blocks that cover a space, overlapping where occurrences cross their ends, give the
\* answer of one scan of it.
THEOREM CoveredBlocksAgree == ASSUME NoGatedGlobals PROVE Spec => []CoveredAgreesWithBuffer
<1>1. IInv => CoveredAgreesWithBuffer
    <2> SUFFICES ASSUME IInv, result.status = "reported", ~fileSizeSet, Supplied = whole, CoversSpace
                 PROVE  result.rules = ReportFor(space, {WholeSpace}, -1)
        BY DEF CoveredAgreesWithBuffer, WholeSpace
    <2>1. result.rules = ReportFor(space, whole, -1)
        <3>1. Override = -1
            BY DEF Override
        <3>2. result.rules = ReportFor(space, whole, Override)
            BY ReportOfSupplied DEF IInv, AnswerInv
        <3> QED BY <3>1, <3>2
    <2>2. \A B : ReportFor(space, B, -1) = Reported(RuleResults(FactsFor(space, B, -1)), FALSE)
        BY DEF ReportFor, FactsFor, FoundInAll
    <2> QED BY <2>1, <2>2, CoveredFacts DEF IInv
<1> QED BY <1>1, BlockInvariant, PTL
=============================================================================
