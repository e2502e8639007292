----------------------------- MODULE BlockScan -----------------------------
(***************************************************************************)
(* compiler.BlockScanner (compiler/block_scanner.go): blocks of a sparse   *)
(* address space are scanned one call at a time, in any order, with gaps   *)
(* and overlaps, and Finish evaluates the rules on the accumulated         *)
(* matches.  A call may be cancelled between two rules, which leaves the   *)
(* block listed and the matches of some rules accumulated; the caller may  *)
(* scan the block again, finish anyway, or reset.                          *)
(*                                                                         *)
(* The data are spans of the whole address space.  A span may be vetoed by *)
(* one byte outside it (the neighbour of a fullword string, what follows a *)
(* `$'): matchers see the veto only if the block holds that byte.          *)
(***************************************************************************)
EXTENDS RuleSet, Sequences

CONSTANTS
    Pattern,     \* the attributes of each pattern: the rule it belongs to
    Spaces,      \* the address spaces a caller may describe
    Blocks,      \* where the blocks of a space lie
    FileSizes,   \* the sizes given to SetFileSize
    ReadWidth,   \* the width of the integer reads of conditions, in bytes
    FastScan,    \* WithFastScan
    Fallible,    \* the rules whose condition may exceed the interpreter's limits
    MaxBlocks    \* bound: calls of Scan that add a block between two resets

ASSUME BlockAssumption ==
    /\ \A p \in Patterns : Pattern[p].rule \in RuleIds
    \* a condition observes the occurrences of its own rule's strings
    /\ \A r \in RuleIds : \A c \in Rule[r].clauses :
        \A p \in c.need \cup c.twice \cup c.absent : Pattern[p].rule = r
    /\ \A i \in Spaces :
        /\ i.length \in Nat /\ IsFiniteSet(i.spans)
        /\ \A s \in i.spans :
            /\ s.pat \in Patterns /\ s.start \in Nat /\ s.len \in Nat \ {0}
            /\ s.veto \in -1 .. (i.length - 1)    \* -1: none
            \* a pattern has one match at a start
            /\ \A t \in i.spans : s.pat = t.pat /\ s.start = t.start => s = t
    /\ \A b \in Blocks : b.base \in Nat /\ b.length \in Nat
    /\ FileSizes \subseteq Nat
    /\ ReadWidth \in Nat \ {0} /\ FastScan \in BOOLEAN
    /\ Fallible \subseteq RuleIds /\ MaxBlocks \in Nat

VARIABLES
    space,        \* what the caller's blocks are cut from
    closed,       \* the scanner was closed
    blocks,       \* BlockScanner.blocks
    found,        \* BlockScanner.matches, as one set
    fileSize,     \* BlockScanner.fileSize
    fileSizeSet,  \* BlockScanner.fileSizeSet
    dense,        \* Scanner.ruleResultsDense
    pc,           \* the call under way
    at,           \* the rule its loop is at
    cancelled,    \* ctx.Err() # nil
    result,       \* what the last call returned
    whole         \* history: the blocks whose Scan succeeded

spaceVars == <<blocks, found, fileSize, fileSizeSet>>
vars == <<space, closed, spaceVars, dense, pc, at, cancelled, result, whole>>

NoResults == [r \in RuleIds |-> FALSE]
Returned(status) == [status |-> status, rules |-> {}]

---------------------------------------------------------------------------
(* Blocks *)

End(b) == b.base + b.length
Holding(b) == b.base .. (End(b) - 1)

\* What matching the data of block b finds in space i.
FoundIn(i, b) ==
    {s \in i.spans : /\ b.base <= s.start /\ s.start + s.len <= End(b)
                     /\ s.veto \notin Holding(b)}

\* The reads that are defined: the bytes of one read lie in one block (dataRange).
Readable(B) == UNION {(b.base + ReadWidth) .. End(b) : b \in B}

Current == blocks[Len(blocks)]
Supplied == {blocks[k] : k \in 1 .. Len(blocks)}

\* Error: conditions that count occurrences are clipped too.
ClippedAlways(p) == FastScan

\* In fast-scan mode one match per string is kept (maxMatchesPerPattern, the break).
Clipped(p) == FastScan /\ FastScanSafe(Pattern[p].rule)

\* Error: the slot of a string is taken by every block.
KeptPerBlock(r) ==
    {s \in FoundIn(space, Current) :
        /\ Pattern[s.pat].rule = r
        /\ Clipped(s.pat) =>
              \A t \in FoundIn(space, Current) : t.pat = s.pat => s.start <= t.start}

\* The matches of the block that rule r adds.
Kept(r) ==
    {s \in FoundIn(space, Current) :
        /\ Pattern[s.pat].rule = r
        /\ Clipped(s.pat) =>
              /\ \A t \in found : t.pat # s.pat
              /\ \A t \in FoundIn(space, Current) :
                    t.pat = s.pat => s.start <= t.start}

---------------------------------------------------------------------------
Init ==
    /\ space \in Spaces /\ closed = FALSE
    /\ blocks = <<>> /\ found = {} /\ fileSize = 0 /\ fileSizeSet = FALSE
    /\ dense = NoResults /\ pc = "idle" /\ at = 1 /\ cancelled = FALSE
    /\ result = Returned("none") /\ whole = {}

\* A closed scanner, a negative base or size, an end that overflows, or a context that
\* is already cancelled.
Refuse ==
    /\ pc = "idle"
    /\ result' = Returned("error")
    /\ UNCHANGED <<space, closed, spaceVars, dense, pc, at, cancelled, whole>>

SetFileSize ==
    /\ pc = "idle"
    /\ \E n \in FileSizes : fileSize' = n
    /\ fileSizeSet' = TRUE
    /\ result' = Returned("none")
    /\ UNCHANGED <<space, closed, blocks, found, dense, pc, at, cancelled, whole>>

\* The caller cancels the context of the call under way, or its poll hook wants a Finish
\* to end (PollAbort): the call fails at its next check either way.
Cancel ==
    /\ pc # "idle" /\ ~cancelled
    /\ cancelled' = TRUE
    /\ UNCHANGED <<space, closed, spaceVars, dense, pc, at, result, whole>>

\* ctx.Err() before a rule and while it is matched or evaluated: what the rules before
\* it added stays.
Abort ==
    /\ pc # "idle" /\ cancelled /\ at <= NumRules
    /\ pc' = "idle" /\ result' = Returned("error")
    /\ UNCHANGED <<space, closed, spaceVars, dense, at, cancelled, whole>>

---------------------------------------------------------------------------
(* ScanWithContext *)

\* Error: the file size is the size of the last block's end.
LastEnd(b) == IF fileSizeSet THEN fileSize ELSE End(b)

\* The highest end, unless the caller has set a size.
RaisedSize(b) == IF ~fileSizeSet /\ End(b) > fileSize THEN End(b) ELSE fileSize

\* The block is listed before anything is matched.
StartBlock ==
    /\ pc = "idle" /\ ~closed /\ Len(blocks) < MaxBlocks
    /\ \E b \in Blocks : /\ End(b) <= space.length
                         /\ blocks' = Append(blocks, b)
                         /\ fileSize' = RaisedSize(b)
    /\ pc' = "scan" /\ at' = 1 /\ cancelled' = FALSE /\ result' = Returned("none")
    /\ UNCHANGED <<space, closed, found, fileSizeSet, dense, whole>>

MatchRule ==
    /\ pc = "scan" /\ ~cancelled /\ at <= NumRules
    /\ found' = IF ShouldEvaluateRule(at) THEN found \cup Kept(at) ELSE found
    /\ at' = at + 1
    /\ UNCHANGED <<space, closed, blocks, fileSize, fileSizeSet, dense, pc, cancelled,
                   result, whole>>

\* The context is not looked at after the last rule.
BlockDone ==
    /\ pc = "scan" /\ at > NumRules
    /\ pc' = "idle" /\ result' = Returned("added")
    /\ whole' = whole \cup {Current}
    /\ UNCHANGED <<space, closed, spaceVars, dense, at, cancelled>>

---------------------------------------------------------------------------
(* FinishWithContext *)

StartFinish ==
    /\ pc = "idle" /\ ~closed
    /\ dense' = NoResults
    /\ pc' = "finish" /\ at' = 1 /\ cancelled' = FALSE /\ result' = Returned("none")
    /\ UNCHANGED <<space, closed, spaceVars, whole>>

\* normalizedBlockMatches keeps one match per offset.
Count(spans, p) == Cardinality({s.start : s \in {t \in spans : t.pat = p}})

\* Error: overlaps and retries count twice.
FactsPerBlock ==
    [count |-> [p \in Patterns |->
                   Cardinality({k \in (1 .. Len(blocks)) \X found :
                       k[2].pat = p /\ k[2] \in FoundIn(space, blocks[k[1]])})],
     readable |-> Readable(Supplied), size |-> fileSize]

Facts == [count |-> [p \in Patterns |-> Count(found, p)],
          readable |-> Readable(Supplied), size |-> fileSize]

EvaluateRule ==
    /\ pc = "finish" /\ ~cancelled /\ at <= NumRules
    /\ dense' = IF ShouldEvaluateRule(at)
                THEN [dense EXCEPT ![at] = Holds(at, Facts, dense)]
                ELSE dense
    /\ at' = at + 1
    /\ UNCHANGED <<space, closed, spaceVars, pc, cancelled, result, whole>>

\* A condition exceeds the limits of the interpreter.
ConditionFails ==
    /\ pc = "finish" /\ at \in Fallible /\ ShouldEvaluateRule(at)
    /\ {Rule[at].headerEnd} \ {0} \subseteq Facts.readable
    /\ pc' = "idle" /\ result' = Returned("error")
    /\ UNCHANGED <<space, closed, spaceVars, dense, at, cancelled, whole>>

\* Every global rule counts here, the ones that were not evaluated included.
GlobalsMatched == \A r \in RuleIds : Rule[r].global => dense[r]

Report ==
    /\ pc = "finish" /\ at > NumRules
    /\ result' = [status |-> "reported", rules |-> ReportedIf(dense, FALSE, GlobalsMatched)]
    /\ dense' = NoResults
    /\ pc' = "idle"
    /\ UNCHANGED <<space, closed, spaceVars, at, cancelled, whole>>

---------------------------------------------------------------------------
(* Reset and Close *)

Emptied ==
    /\ blocks' = <<>> /\ found' = {} /\ fileSize' = 0 /\ fileSizeSet' = FALSE
    /\ whole' = {} /\ result' = Returned("none")

\* The caller goes on to any other space.
Reset ==
    /\ pc = "idle"
    /\ Emptied
    /\ space' \in Spaces
    /\ UNCHANGED <<closed, dense, pc, at, cancelled>>

Close ==
    /\ pc = "idle"
    /\ Emptied
    /\ closed' = TRUE /\ dense' = NoResults
    /\ UNCHANGED <<space, pc, at, cancelled>>

Scanning == StartBlock \/ MatchRule \/ BlockDone
Finishing == StartFinish \/ EvaluateRule \/ ConditionFails \/ Report

Next == Refuse \/ SetFileSize \/ Cancel \/ Abort \/ Scanning \/ Finishing \/ Reset \/ Close

Spec == Init /\ [][Next]_vars

---------------------------------------------------------------------------
(* Properties *)

\* Every variable has its type.
TypeOK ==
    /\ space \in Spaces /\ closed \in BOOLEAN
    /\ blocks \in Seq(Blocks) /\ Len(blocks) <= MaxBlocks
    /\ found \subseteq space.spans
    /\ fileSize \in Nat /\ fileSizeSet \in BOOLEAN
    /\ dense \in [RuleIds -> BOOLEAN]
    /\ pc \in {"idle", "scan", "finish"} /\ at \in 1 .. (NumRules + 1)
    /\ cancelled \in BOOLEAN
    /\ result.status \in {"none", "added", "reported", "error"}
    /\ result.rules \subseteq RuleIds
    /\ whole \subseteq Blocks

\* What is accumulated comes from the blocks, and every evaluated match of a block whose
\* Scan succeeded is there, or in fast-scan mode one match of its string is, whatever
\* came before, failed, or was scanned again (BlockScanner.matches).
AccumulatesBlocks ==
    /\ \A s \in found : /\ ShouldEvaluateRule(Pattern[s.pat].rule)
                        /\ \E b \in Supplied : s \in FoundIn(space, b)
    /\ \A b \in whole : \A s \in FoundIn(space, b) :
          ShouldEvaluateRule(Pattern[s.pat].rule) =>
              IF Clipped(s.pat) THEN \E t \in found : t.pat = s.pat ELSE s \in found
    /\ \A s, t \in found : Clipped(s.pat) /\ s.pat = t.pat => s = t

\* "By default it is the highest block end offset": until SetFileSize or the next input.
DefaultFileSize ==
    ~fileSizeSet => /\ \A b \in Supplied : End(b) <= fileSize
                    /\ fileSize = 0 \/ \E b \in Supplied : End(b) = fileSize

\* The rules that match blocks B of space i.
ReportFor(i, B, override) ==
    LET union == UNION {FoundIn(i, b) : b \in B}
    IN Reported(RuleResults([count |-> [p \in Patterns |-> Count(union, p)],
                             readable |-> Readable(B),
                             size |-> IF override >= 0 THEN override
                                      ELSE Max({0} \cup {End(b) : b \in B})]),
                FALSE)

NoBlock == [base |-> 0, length |-> -1]

\* The scanner implements its contract: blocks may come in any order, overlap, and be
\* scanned again after a failure, and Finish may fail and be repeated.
Contract ==
    INSTANCE BlockContract WITH
        Rules <- RuleIds,
        Fallible <- (Fallible # {}),
        supplied <- whole,
        doubtful <- {blocks[k] : k \in 1 .. IF pc = "scan" THEN Len(blocks) - 1
                                                          ELSE Len(blocks)} \ whole,
        override <- IF fileSizeSet THEN fileSize ELSE -1,
        open <- ~closed,
        request <- IF pc = "scan" THEN Current ELSE NoBlock,
        status <- CASE pc = "scan" -> "scanning"
                    [] pc = "finish" -> "finishing"
                    [] OTHER -> IF result.status = "none" THEN "ready" ELSE result.status,
        rules <- result.rules
ImplementsContract == Contract!Spec

\* The blocks overlap enough: each occurrence and each read of the whole space lies in
\* one of them, no block ends between a span and the byte that vetoes it, and one of them
\* ends where the space does.
CoversSpace ==
    /\ \A s \in space.spans :
          IF s.veto = -1 THEN \E b \in Supplied : s \in FoundIn(space, b)
                         ELSE \A b \in Supplied : s \notin FoundIn(space, b)
    /\ ReadWidth .. space.length \subseteq Readable(Supplied)
    /\ space.length \in {0} \cup {End(b) : b \in Supplied}

\* Blocks that cover a space give the answer of one scan of it: patterns that cross a
\* block boundary need overlapping bytes, and nothing else.
CoveredAgreesWithBuffer ==
    result.status = "reported" /\ ~fileSizeSet /\ Supplied = whole /\ CoversSpace =>
        result.rules = ReportFor(space, {[base |-> 0, length |-> space.length]}, -1)
=============================================================================
