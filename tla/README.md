# go-yara: a verification development

TLA+ models of go-yara, a YARA rule compiler and scanner in Go, model-checked with
TLC and, where a property matters for every size, proved with TLAPS.  Source paths are
relative to `src/`; a file without a directory is in `compiler/`.

## 1. Inventory

| Component | State it keeps | Operations | Interacts with | What is hard | What makes it correct |
|---|---|---|---|---|---|
| Rule compiler (`compiler.go`, `includes.go`, `rule_compiler.go`, `condition_*.go`, `constant_folding.go`, `header_constraints.go`) | base directory, statistics with the ignored rules, the program under construction | `CompileSource`, `CompileFile`, `SetBaseDir` | parser, semantic analysis, the file system | includes that form circles, rules left out in three phases together with what depends on them, flags derived from a condition that let a scanner skip it | a program is closed under references and has every rule it can have; what is derived from a condition holds for every input |
| Parser and lexer (`parser/`, `internal/lexer/`, `token/`, `ast/`) | the current and the next token | `ParseRules`, `ParseExpression` | compiler | precedence, ranges and quantifiers that look alike, recovery after an error | a condition is read as it was written |
| Semantic analysis (`semantic/`) | symbol tables | `ValidateProgram`, `RuleDependencies` | compiler | references between rules, cycles | no rule that refers to nothing is compiled |
| Bytecode interpreter (`interpreter*.go`) | stack, iterators, memory slots, rule results | one handler per opcode | match context, modules | undefined values, loops as patched jumps, slots that are reused | the verdict of the bytecode is that of the condition |
| Buffer scanner and its caches (`scanner*.go`, `match_context*.go`) | match context, candidate epochs and marks, pattern caches, assertions, rule results | `Scan`, `Matches`, `MatchingRules`, `MatchingRulesInBlock`, `ScanFile` | program, prefilters, hooks | caches that survive a call or are filled late, cancellation between filling and using one, rules that are skipped | skipping a rule never changes an answer; no call sees another's state |
| Candidate prefilters (`*prefilter*.go`, `required_strings.go`, `shared_*.go`, `word_routing*.go`, `boolean*.go`) | tables of a program | which rules a match makes candidates, which are ruled out | buffer scanner | several answers to one question | never rejects a rule that would match |
| Stream scanner (`scanner_stream.go`, `scanner_api.go`) | sliding buffer, overlap, window, retained header, accumulated spans, results of an earlier scan | `ScanReader`, `MatchesReader` | the reader, the context, matchers, interpreter | chunk boundaries, provisional regex matches, early exits on a part of the input, reader errors that arrive with data | the answer of one buffer; each match once; an error has a cause; a scan returns |
| Block scanner (`block_scanner.go`) | blocks, accumulated matches, file size | `Scan(base, data)`, `SetFileSize`, `Finish`, `Reset`, `Close` | scanner, gate, hooks | blocks in any order with gaps, overlaps and retries | the answer depends on the set of blocks only |
| Streaming processor (`streaming_processor.go`) | offset, overlap, progress counters | `ProcessFile`, `ProcessBytes`, setters, `GetProgress` | files, pipes | fullword tests at the edge of a chunk, files that change size, progress read by others | each occurrence once; exact counters; a success is complete |
| Compiled program and scanner pool (`compiled_program.go`) | pool of scanners, external values | one-shot scans, `NewScanner`, `SetExternalVariables` | all scanners | concurrent use, settings left behind in pooled objects | a call works with one set of values the program had during it |
| String matching automata (`ahocorasick*.go`, `teddy*.go`, `atom_selection.go`) | states, outputs, lanes of the root | `AddString`, `Compile`, `Search` | buffer scanner | different walks for dense, sparse and single-string searches | each walk finds what a plain search finds |
| Hex patterns (`hex_pattern*.go`) | tokens, work list | `ParseHexPattern`, `FindHexMatches` | buffer scanner | an anchor inside a pattern with jumps and alternatives, several xor keys | the matches of the tokens |
| Regex matching (`regex/`, `regex_*.go`) | code, literals, byte sets; threads, memory of failures | `Parse`, `Compile`, search | all scanners | starts chosen by what every match must contain, windows around a start, runs cut short by earlier failures | the matches of the regex |
| Modules, evidence and telemetry, serialization, file helpers, commands | caches of one scan; reports; - | functions, callbacks, encoding, I/O | | | (not modelled, section 7) |

`PROJECT.json` lists the components with their files and status, and under `hazards`
the places where this code is hard to test, each with the properties about it.

## 2. Modules

```
RuleSet                       what a compiled rule set means
  |-- StreamScan ------------ INSTANCE ReaderContract     StreamScanProofs
  |     MCStreamScan: MCStreamCore, MCStreamFiltered, MCStreamEarly
  |-- BlockScan ------------- INSTANCE BlockContract      BlockScanProofs
  |     MCBlockScan
  |-- BufferScan                                          BufferScanProofs
        MCBufferScan

ScannerPool ----------------- INSTANCE SharedProgram      ScannerPoolProofs
  MCScannerPool
ChunkedSearch                                             ChunkedSearchProofs
  MCChunkedSearch
RuleAssembly                                              RuleAssemblyProofs
  MCRuleAssembly

ConditionLanguage             what a condition means
  |-- ConditionCompiler -- ConditionMachine ---+
  |-- ConditionParser -------------------------+-- MCConditions

PatternAutomaton --------------------------------+
HexMatching -------------------------------------+-- MCMatching
RegexLanguage -- RegexCompiler -- RegexMachine --+

RuleSetFacts                  lemmas on the operators of RuleSet (the three scanners' proofs)
FiniteSetFacts                lemmas on sets of integers (RuleSetFacts, the proofs of the scanners and
                              of RuleAssembly)
```

A source file becomes a rule set in `RuleAssembly`; one of its conditions is read, compiled
and run in the `Condition` modules; its strings are compiled and searched in
`PatternAutomaton`, `HexMatching` and the `Regex` modules.  The scanners take the results of
these three as given: a rule of `RuleSet` has clauses for a condition, and the data of a
scanner are the occurrences a correct matcher finds.  So the three scanners, which are state
machines with caches, cancellation and errors, are checked on whole calls, and the engines,
which are functions, on every small input.

Definitions that begin with the comment "Error:" are deliberate mistakes.  They are used
only to see that each property notices a wrong program.

### RuleSet

A rule has its attributes (`private`, `global`, tag of the filter, gate, module
use, the end of its header constraints, what the match hook answers) and a
condition.  A condition is kept as a set of clauses over what the bytecode can
observe: strings present, present twice, absent; earlier rules that matched or
not; an integer read that is defined; one that is undefined; a least filesize.
`Selected`, `ShouldEvaluateRule`, `EvaluatedGlobalRules` are the selection of
`scanner_exec.go`; `FastScanSafe`, `ConditionMonotonic`, `CanRuleEarlyTerminate`
what the compiler and the stream scanner derive from a condition, translated
with their omissions; `Holds` the verdict of the interpreter; `Reported` the
list of matched rules of `evaluateStreamMatches` and of `ScanWithContext`;
`RuleResults` the rules evaluated in order over one buffer.

### StreamScan and ReaderContract

One scanner used for up to `MaxScans` calls of `ScanReader` (or `MatchesReader`,
with `EarlyTermination`).  The data are spans: an input has a length, candidate
spans and, among them, the real occurrences.  A window that sees every byte that
decides a span reports it iff it is an occurrence (`Certain`).  One that does not
may report it or not (`Provisional`): the last alternative of a regex, a word
boundary that is not there yet.

| Variable | Code |
|---|---|
| `pos`, `overlapLen`, `window` | `currentStreamOffset`, `overlapLen`, `window` of `scanReaderStream` |
| `header`, `acc` | `len(acc.headerBlock)`, `acc.accumulatedSpans` |
| `dense`, `asserts` | `Scanner.ruleResultsDense`, `Scanner.assertionResults` (survive a scan) |
| `evalAt`, `result` | the loop of `evaluateStreamMatches` and what the call returned |
| `input`, `cancelled` | the reader and the context of the caller |
| `pc` | `read` (top of the loop), `match`, `check`, `evaluate`, `done` |

| Action | Code |
|---|---|
| `StartScan` | entry, sizes, the error for a regex without a horizon |
| `Cancel`, `Abort` | the caller; every `ctx.Err()` and `contextReader.Read` |
| `ReadFails`, `ReadNothing`, `ReadChunk` | `io.ReadFull`, `Peek`, the window, `retainHeader`, clearing `assertionResults` |
| `MatchWindow` | local matches of all rules, `owns`, fast-scan clipping, accumulation |
| `EarlyExit`, `Advance` | `checkStreamEarlyTermination`, the end of the loop, the slide |
| `EvaluateRule`, `ConditionFails`, `Report` | `evaluateStreamMatches` |

A condition may fail without a cancellation: when its loops, and those of the conditions
before it, exceed the limit of the interpreter (`interpreter_iter.go:297`), or an operand has
the wrong type.  `Fallible` has the rules of which this is possible.  In `evaluateStreamMatches`
the call ends in that error (`ConditionFails`) and leaves the results before it in `dense`; an
early check ignores it (`MayFail`), so the rule does not end the scan, and keeps the result it
had from before.

Matching is one step although the code checks the context between rules: nothing
outside the call can see `acc`, and `Abort` may happen instead of the step.  A reader that
failed fails again when read again, as `bufio` and the usual readers do.  Left out: matched
bytes, `PrunedRules`, evidence, telemetry, fixed-offset filtering, limits at `MaxInt`,
zero-length matches at the very end of an input.  `ruleObservesFilesize` looks for the
opcode among all bytes of the bytecode, so an operand may count as a filesize; that only
makes early exits rarer and is left out.

`ReaderContract` is what a caller relies on: a call ends in the report of the whole
input, or in an error, and an error only after a cancellation or a failure of the
reader, for a rule set that cannot be streamed or has a condition that may fail.
`StreamScan!ImplementsContract` is the refinement: the variables of the loop are hidden,
`status` is derived from `pc` and `result`.

### BlockScan and BlockContract

One `BlockScanner`.  The caller describes an address space (`space`, with spans as in
`StreamScan`) by blocks cut from it.  What the matchers find in a block are the spans
inside it, except those that a byte of the block vetoes: a fullword string whose
neighbour lies outside the block is found.

| Variable | Code |
|---|---|
| `blocks`, `found`, `fileSize`, `fileSizeSet` | the fields `blocks`, `matches`, `fileSize`, `fileSizeSet` |
| `dense`, `closed` | `Scanner.ruleResultsDense`; a zeroed struct after `Close` |
| `pc`, `at`, `cancelled`, `result` | the call under way, the rule of its loop, its context, its outcome |
| `whole` | history: the blocks whose `Scan` succeeded |

| Action | Code |
|---|---|
| `Refuse` | the checks at the start of `Scan`, `Finish` and `SetFileSize` |
| `StartBlock`, `MatchRule`, `BlockDone` | `ScanWithContext`: the block is listed first, then each rule adds its matches |
| `StartFinish`, `EvaluateRule`, `ConditionFails`, `Report` | `FinishWithContext` |
| `Cancel`, `Abort` | the caller, or a poll hook that answers `PollAbort`; the checks before and inside the work on a rule |
| `SetFileSize`, `Reset`, `Close` | the methods of these names |

`Abort` leaves what was added, as the code does: the block stays listed, the file size
raised, and the matches of the rules before stay.  `RequiresStringMatch` only avoids
running a condition that is false and is not modelled apart from `Holds`.  Integer
reads have one width, `ReadWidth`; a read over two abutting blocks is undefined.

`BlockContract` is what a caller relies on: blocks are supplied or, after a failure,
doubtful until supplied again; an answer is determined when no block is doubtful, and
it then depends on the set of blocks only.

### BufferScan

One `Scanner` used for up to `MaxCalls` calls of `Scan`, `Matches`, `MatchingRules` and
`MatchingRulesInBlock` on inputs that differ.  A pattern is matched through its key: equal
regexes or hex strings share one, and with it a slot of the cache.  An input is the set of
places where a search finds the atom of a key (`hits`), each real or not, and says what the
sampling of the data decides (`sparse`: the shared automaton is worth running).

| Variable | Code |
|---|---|
| `nonText` | `nonTextMatchCache`: offsets by key, which slots are ready, which were touched |
| `texts`, `matched` | `globalMatches`, `sharedNonTextMatched` of the shared search |
| `epoch`, `marks` | `scanEpoch`, `candidateRuleGen` |
| `asserts`, `dense`, `globals` | `assertionResults`, `ruleResultsDense`, `allGlobalMatched` |
| `block` | `blockScan`, `blockContext`, `blockFileSize` |
| `spans`, `todo` | the match context of the rule under evaluation and the strings left to search |
| `pc`, `at`, `cancelled`, `result` | the stage of the call, its loop, its context, its answer |

| Action | Code |
|---|---|
| `Start`, `Cancel`, `Abort` | the entries of the four operations; the caller, or a poll hook that answers `PollAbort`; every check of either |
| `RejectCompact` | the compact prefilter that rejects the whole input |
| `PreparePatternScan`, `FixedRegexes` | the reset of caches and marks; the fixed-offset dispatch |
| `SharedSearch`, `VerifyEntry`, `VerifyDone` | the shared automaton, the verification of each lookup entry, or its skip |
| `SelectRules` | which rules are candidates |
| `PassOver`, `Prune` | a rule that is not evaluated, not a candidate, or rejected by header, required or forbidden strings |
| `AddTexts`, `AddString`, `Conclude` | the matches of a rule, in the order they are looked for; a monotonic condition may be decided before the last of them |
| `ConditionFails` | a condition that exceeds the limits of the interpreter: the call ends in an error |
| `RulesDone`, `Report` | global rules, tags, hooks, the result |

`Fallible` has the rules whose condition may fail.  In the check that decides whether more
strings are needed a failure counts as not satisfied, and the search goes on.

What the searches compute is external to the module; what they skip, cache and leave
behind is its subject.  `ScanFile` reads its file and is one of `Scan` and `ScanReader`.

### ScannerPool and SharedProgram

A `CompiledProgram` that goroutines share.  `pool` and `interpreters` are the two
`sync.Pool`s, which may be emptied at any time (`Collect`) and may answer with a new object
although they hold one; `scanner` has the fields of each `Scanner` that matter here,
`limitOf` the iteration limit inside each interpreter, `held` the scanner a caller works
with, `ran` (history) the settings its rules ran under.  A call of the program is `Call`,
`GetPooled` or `GetNew`, `Refresh`, `Clone` (the external values are read twice, and
the program may be given others in between), `EvaluateRule`, `ReleaseScanner`; a scanner of
one's own is `Open`, `SetOwn`, `EvaluateRule`, `Close`, and may be closed twice or
forgotten (`Leave`).  `SetProgram` is a data race in the code on one word; a read sees the
old or the new map.

`SharedProgram` has no scanners: a call begins, reads the values of the program once, and
returns.  `ScannerPool!ImplementsSharedProgram` maps `pc` to the phase of a call and the
values of the held scanner to those it is bound to.

### ChunkedSearch

`StreamingProcessor`: a loop that reads a chunk (`ReadChunk`), searches a window of overlap,
chunk and up to two bytes behind it (`SearchChunk`), keeps what ends in the chunk, counts, and
slides.  A candidate is a place where the bytes of a string are, with the neighbour that
makes its fullword test fail, if one does.  An input is a buffer, a file whose length
need not be what `Stat` said, or a pipe.  The bytes behind the chunk of a file are what `Peek`
returns (`ahead`); its error is dropped (`streaming_processor.go:232`), and as `bufio` forgets an
error it has returned, the next read may work again.  So after any chunk `ahead` may be less
than there is, and `cut` (history) has the windows where it was.

### RuleAssembly

A `Compiler`, strict or resilient (`WithIgnoreInvalidRules`), used for up to `MaxCalls` calls.
A rule is a name, the rules its condition names, its `global` modifier, and one of four
states: valid, does not parse, has a semantic error of its own, cannot be generated.

| Variable | Code |
|---|---|
| `pc`, `outcome`, `calls` | the phase of `CompileSourceWithContext` and what the last call returned |
| `baseDir`, `main` | `Compiler.baseDir`; the file and directory of the call |
| `ignored` | `stats.IgnoredRules` |
| `frames` | the recursion of `includeTraversal.processInclude`, with `activePaths` |
| `rules`, `kept`, `badImport` | the rules of the tree as written, those still in `program.Rules`, `program.Imports` |
| `errors`, `colour`, `path` | the errors of one validation; `state` and the recursion of `validateRuleDependencyCycles` |
| `at`, `changed`, `omitAll`, `back` | the loop of `propagateIgnoredRuleDependencies` and the phase it returns to |

| Action | Code |
|---|---|
| `CompileSource`, `CompileFile`, `ResetStats` | the entries |
| `ParseMain`, `OpenInclude`, `CloseInclude`, `Assembled` | `compileParseWithContext`, `processInclude`; included rules go behind those of the file |
| `ProcessImports`, `Semantics`, `CollectSymbols` | the phases up to the symbols |
| `Visit`, `Follow`, `Leave` | the depth-first search for cycles; the references of a rule are a Go map and come in any order |
| `ValidateRules`, `Judge` | the errors, and `removeSemanticallyInvalidRules` |
| `Propagate`, `NextPass`, `Filter` | one rule of `propagateIgnoredRuleDependencies`, another pass, `filterIgnoredRules` |
| `CodeGen`, `Generate`, `Finish`, `Cancel` | `compileCodeGenWithContext`; every place that looks at the context |

Left out are failures of a whole call that no rule is ignored for: the schemas and
configuration of modules (`compiler.go:530-534`, 594-597) and the tables of the finished
program (`preparationErr`, 637-639).  Each ends the call of either kind of compiler with the
error and no program.  Files do not change while they are compiled.  Of the parser, the module
keeps which errors belong to a rule and which to the program.  The instance has no invalid rule
that shares its name with another, no unparsed `private global` rule, and no duplicates of which
only one is global: there the code does something else (section 6).

### ConditionLanguage, ConditionParser, ConditionCompiler, ConditionMachine

`ConditionLanguage` has the expressions, the values (integers of `Width` bits, doubles,
strings, undefined) and `Meaning`, the value of an expression on an input, defined by
recursion over the expression without stack or jumps.  `ConditionParser` reads the text of
a condition as the productions of `expression_parser.go` and `quantifier_parser.go` do, and
gives back the condition.  `ConditionCompiler` is what `CompileRule` derives from it:
`Fold` (constant folding), `LiveStrings`, `FixedOffsets`, `ObservesOccurrences`, presence
bounds, `Headers` (header constraints), `WithoutMatches` (the verdict without any match),
assertions, `Hoisted` and fused loops, and `Code`.  `ConditionMachine` runs it: `Prune`
answers without the interpreter, `Prepare` sets the slots, and one action per kind of
instruction works on `stack`, `iters` and `memory` until `Halt`, an error or the limit of
iterations.  In fast-scan mode a string keeps its first match where `ObservesOccurrences`
allows it.  Regexes on strings, functions and modules are left out.  `CompilesIn` says which
conditions the compiler takes where `$` stands for the string of a loop; the others are not
run.  A text operation on operands that are not strings is an error that ends the evaluation, and
so is `contains` on an undefined one, while a comparison of texts is then undefined.

### PatternAutomaton, HexMatching, RegexLanguage, RegexCompiler, RegexMachine

`PatternAutomaton` adds the variants of the strings of a job to one Aho-Corasick automaton
(`AddString`), links and closes it state by state (`LinkNode`, `CloseRoot`, `CloseNode`) and
walks it over an input (`Search`, `SingleStep`, `WalkStep`, `WalkEnds`) by the path the
strings and the input lead to: dense, sparse root, one string, or window by window when
the search may be cancelled.

`HexMatching` parses a hex string, chooses one of the three searches for candidate starts,
and matches the tokens there, with the work list of branches as its state.

`RegexLanguage` is the parser; `RegexCompiler` the code and everything derived beside it
(literals and byte sets with the range of their distance from the start, prefixes, lengths);
`RegexMachine` the search: the starts that what is derived allows, the window around a start,
the threads by priority, and the failures of a run that cut later runs short.  `Compiled`
holds every compilation the scores of the compiler may choose between.

## 3. Runs

| Run | Instance | Shows |
|---|---|---|
| `stream_core` | five rules (private, global, references, counts, negation, filesize, header read, stopping and skipping hook), one of which may fail; text, regex and hex strings; inputs of 3 and 5 bytes and readers that fail at each of 0..6; chunks of 2 | exactly the settled matches are kept, none twice; `ScanReturns`; the refinement of `ReaderContract` |
| `stream_filtered` | fast scan, tag filter, gated rule, a rule that counts, unbounded regex over an explicit overlap, chunks of 1, header of 5; two scans with one scanner, cancelled anywhere | the retained header; agreement with a buffer scan, of the second scan too |
| `stream_early` | `MatchesReader` on monotonic rules, chunks of 1, a header constraint that becomes defined later | the answer, the rule returned, promptness of the exit |
| `stream_negated` | the smallest rule set with a negated reference | a violation: section 6 |
| `block_core` | fast scan with a counting rule beside presence rules; references, a global rule, a stopping hook, a gated rule, a condition that may fail; spaces of four bytes; up to three added blocks out of three that overlap and abut; an overridden file size | the file size, what is accumulated, agreement with one scan of the space, the refinement of `BlockContract` |
| `buffer_core` | six rules that share regexes and hex strings, one wide, one at a fixed offset, one forbidden; five inputs, one with a hex string twice; four sets of options; two calls of any of the four operations | answers, candidates, the cache, the marks; calls return |
| `buffer_gate` | a failing global rule, a tag filter, hooks that skip and stop, a gated rule, a condition that may fail, the compact prefilter | answers |
| `pool` | two callers, a setter and the collector; three scanners and two interpreters; three sets of values; two limits | exclusive use, one setting for a call, the refinement of `SharedProgram` |
| `chunks` | strings of one to three bytes in chunks of one to four, fullword tests that fail one or two bytes before or after; buffers, files that shrink and grow, pipes; a `Peek` that may fail at any chunk; two calls | occurrences, counters, completeness; what is wrongly reported is what a failed `Peek` hides; calls return |
| `conditions` | several hundred conditions on six inputs, with fast scan and without | the text is read back; verdicts; pruning; every evaluation ends |
| `matching` | jobs of text strings, hex strings under sets of xor keys, thirty-six regexes; every input up to a length for each | each engine finds what its pattern means; a hex atom is in every match |
| `assembly` | three files in two directories that include each other, strict and resilient, two calls of `CompileSource` or `CompileFile` cancelled anywhere; ten rule sets with chains, cycles, duplicates, undefined names and global rules that fail in each phase | includes are not circular, programs are closed, the rules are those of the tree and the sound ones of them are kept, the answer is the one the source deserves; calls return |

**Bounds.**  Lengths are scaled down and named as constants of the modules; the code's value
stands beside each in the module or here.  `MaxScans`, `MaxCalls` and `MaxBlocks` bound
calls of one object; two calls are a state and what it leaves to the next, and three blocks
are a retry with another block between a failure and it.  Everything else is finite because
its input is.

- Streams: the 64 and 4096 bytes of `maxStreamingOverlap`, the 64 KiB of header and the
  verification distance.  Inputs span several windows, spans cross chunk boundaries at every
  alignment, the overlap is smaller than the input, the header limit lies inside it, and the
  overlap exceeds every horizon by the two bytes of lookahead.
- Buffers: `EpochLimit` is 1 where the code has 2^32 - 1, so the epoch wraps in each call
  after the first.
- Conditions: integers of 8 bits (`Width`), at most 5 iterations (`IterLimit`), two strings,
  two externals.  Eight bits hold every shift count at, below and above the width and
  overflow in each operation.
- Text: `LongInput` 4 for 256, `DenseRoot` 2 for 16, `DenseSingle` 3 for 8, `NearCandidate` 2
  for 64, `SearchWindow` 3 for 1 MiB: each path of the search is taken by some input,
  and inputs are longer than each bound.
- Hex: bytes of two nibbles of one bit and atoms of at most two bytes; a mask has its four
  shapes.
- Regexes: margins of 1 and 2 for 16 and 32, `ReuseWork` and `ReuseInput` 3 for 128; the
  alphabet of each regex has the bytes it can tell apart, the length is the least at which it
  can match twice or be cut by a margin.
- Assembly: five names, so that a chain of three references fits beside a duplicate and an
  unrelated rule.

**Deadlock** is not checked where a caller may stop making calls, or an evaluation is over:
then nothing happens.

**Fairness.**  `FairSpec` of `StreamScan`, `BufferScan`, `ChunkedSearch` and `RuleAssembly`,
and `Spec` of `ConditionMachine`, have weak fairness of the steps of a call that is under way.  A
call is straight-line code on the goroutine of its caller, and the reader returns (an
`io.Reader` that blocks for ever blocks the scan, too), so a step that stays possible is
taken.  Nothing is assumed of callers: neither starting a call nor cancelling one is fair,
and in `ScannerPool`, where callers interleave, nothing is.

## 4. Proofs

Each theorem holds for all values of the constants that satisfy the named assumptions of its
module.  None of the properties is inductive as it stands; what is added is said here.

**`StreamScanProofs`**: `TypesHold`, `HeaderIsPrefix`, `OwnershipIsExclusive`,
`WindowsKeepExactlySettled`.  `IInv` adds that the overlap at the top of a round is
`min(capacity, pos)` and that the header reaches from `pos` to the end of the last
window (`BufferInv`), that the stored window is the one the read determines
(`WindowInv`), and that what was kept lies behind the windows to come
(`BehindInv`).  From the first two, `WindowShape` shows the fact the arithmetic turns
on: a window that is not final sees at least one byte beyond its chunk, and two
unless it sees the end of the input.  `OwnedIsDecided` then shows that a window
holds every byte that decides what it owns (the overlap has two bytes more than the
horizon on the left; the horizon is held back on the right), and
`OwnedIsSettled` that it owns what settles between its start and its limit.  That
the overlap is a natural number needs that a finite set of integers has a maximum
(`FiniteSetHasMax`), which is proved from the well-foundedness of strict inclusion.
`WithinReach` is the hypothesis on a span and names where the windows stop: a regex whose
horizon does not fit into an explicit overlap, and a text or hex match longer than the
overlap (hex jumps, section 6).  `AutomaticOverlapReaches` discharges it for the overlap
that `effectiveStreamOverlapSize` chooses, from what it measures of the patterns.

On these rest what a scan answers: `StreamAgrees`, `ReaderImplementsContract`,
`EarlyExitsPrompt`, `EarlyRulesConfirmed`, `EarlyAnswersAgree`.  `FinalInv` adds that only
occurrences are kept, that a string with one slot has one in it once it has a settled
occurrence, that a failing reader is noticed before its last bytes are taken for a window,
and that a call comes to its last loop with everything read or with a rule that may end it.
`LoopInv` adds how far that loop has come (the results so far are those of the rules before
`evalAt`), what a cached assertion says of the header, and that a scanner that was not used
before carries no results.  The hypotheses say where the code is right:

- `Streamable`: spans are `WithinReach`, no reader begins with `io.ErrUnexpectedEOF`, no
  string with one slot has a fullword test, integer reads stay in the retained header.
  Section 6 has what happens without the first three; a read behind the header is undefined
  in a stream and defined in a buffer.
- `~EarlyTermination` for `ReaderImplementsContract`: an early exit answers for a part of the
  input, which the contract does not allow.
- Conditions may fail in all of them. `ReaderImplementsContract` has such a failure as a cause of
  an error, and only where `Fallible` has a rule; `EarlyExitsPrompt` does not promise an exit for
  the rules in `Fallible`.
- `FreshScanner` for `EarlyExitsPrompt` and `EarlyAnswersAgree`: an early check reads the
  results of an earlier call (`MCStreamReused`).
- `OnlyPositive` for `EarlyRulesConfirmed` and `EarlyAnswersAgree`: conditions that ask only
  for what is there, and so hold on (`PositiveHoldsOn`, `MoreFactsMoreResults`).  What the code
  takes for monotonic is more, and too much (run `stream_negated`).  A hook that stops the
  list, or skips a rule, makes the early answer another, too.

**`BlockScanProofs`**: `BlockTypesHold`, `BlocksAccumulate`, `FileSizeIsHighestEnd`,
`BlocksImplementContract`, `CoveredBlocksAgree`.  `AccumulatesBlocks` says nothing of a block
that is still being scanned; `CurrentInv` adds that the rules the loop has passed are
represented.  That a string in fast-scan mode gets a match at all needs that one of finitely
many spans starts first (`FirstStart`).  The refinement needs what `Finish` answers: `SupplyInv`
relates the blocks that are listed to those that were scanned to the end, `VerdictInv` says
that the results so far are those of the rules before `at`, and `AnswerInv` what a returned
answer was computed from.  Two accumulations of the same blocks need not have the same
matches, in fast-scan mode only the same strings; `AnswerOfSupplied` shows that the rules
cannot tell them apart.  `CoveredBlocksAgree` is that covering blocks find every occurrence of
the space.  `NoGatedGlobals` is the hypothesis of both: a global rule behind the gate hides
all others from `Finish` (section 6).

**`BufferScanProofs`**: `MarksNeverStale`, `AnswersAreRight`, `CandidatesCover`,
`VerdictsRight`, `CacheIsRight`. For the first, `MarksBehind` adds that between two searches no
mark is above the epoch, which is why raising it, or clearing the marks when it wraps, leaves
none equal to it. The others follow from `CallKnows`: `CallInv` says stage by stage what a call
knows. Before the search, slots that are not listed are empty, so the reset empties all
(`SlotsListed`, `BeforeInv`); a cached assertion says what the header does (`HeadersKnown`).
While the shared search is verified, a slot holds what the entries before the current one found,
or its entry was skipped for a reason (`VerifyInv`); from there on a slot that a rule will read
holds all occurrences, the first where the search stopped at it, or none where the one rule that
uses it is ruled out anyway (`SlotsInv`, which is `CacheIsOfThisInput`), and a rule that holds
is marked (`MarksInv`). The loop over the rules has the verdicts of those it passed (`LoopInv`),
the strings of the rule at hand are complete but for those still to do (`StringsInv`), and the
report is what the verdicts give (`ReportInv`). Three hypotheses name the three defects in this
path, and for each there is an instance in which the other two hold and `AnswersAgree` fails:
`DispatchUncancelled` (`MCBufferCancelled`), `OneEntryIfRequired` (`MCBufferEncodings`),
`UncountedIfShort` (`MCBufferShort`). The instances `buffer_core` and `buffer_gate` satisfy all
three.

**`RuleSetFacts`** has what the scanners' proofs need of the rules. `RuleResults` is a
recursive function over the rules; its value at a rule is one condition evaluated over the
values before it (`ResultsUnfold`). What holds of all rules is shown with the least rule at
which it fails (`LeastNumber` of `FiniteSetFacts`): if two tables satisfy that equation for
conditions that agree, they agree (`AgreementSpreads`), so a loop computes the results of
the reference (`LoopFollowsResults`), equal facts have equal results and more facts have,
for positive conditions, more.

**`ScannerPoolProofs`**: `PoolTypesHold`, `UseIsExclusive`, `CallsHaveOneSetting`,
`PoolImplementsSharedProgram`, from `PoolInvariant`.  `HandsInv` says a scanner is in one
hand or in the pool, `PartsInv` that a built one has an interpreter of its own, `LimitsInv`
that whatever can be taken from a pool carries no limit and whatever is held carries the one
asked for, `RunsInv` that what has run is what is set now.  The refinement has one case per
action: `Clone` is the step in which the abstract call reads the values, the steps before it
stutter, and what one caller does changes nothing another is bound to (`OthersUnseen`).

**`ChunkedSearchProofs`**: `OccurrencesReportedOnce`, `UncutIsExact`, `CountersAreExact`,
`SuccessIsComplete`, from `SearchInvariant`.  `WindowInv` says the overlap is what there is
of the bytes before, up to `OverlapSize`; `WindowDecides` that a window then holds every byte
that decides what it owns, but for a neighbour that a failed `Peek` has kept out of it.
`CutInv` says that the windows in `cut` lie behind the search, so what they let through is not
let through again. `OccurrencesReportedOnce` names exactly what is reported wrongly: a string that
ends in the chunk of such a window and whose refuting neighbour lies behind its end.  While `cut` is empty nothing is
(`UncutIsExact`).

**`RuleAssemblyProofs`**: `AssemblyTypesHold`, `IncludesAreNotCircular`, `ProgramsAreClosed`,
`SoundRulesAreKept`, `CallsAnswerRight`.
That a program is closed when code generation begins depends on the whole validation before
it: `ErrorsAreComplete` says that, once all rules are judged, a rule that shares its name or
names one that is not there is among the errors; that it is still closed after rules
that cannot be generated were left out depends on the passes: `Swept` says that in a pass
without a change every rule behind `at` that is not ignored names no ignored one, and
`FromCodeGen` that what the passes began with was closed (`ClosureInv`).

`SoundRulesAreKept` is `KeepsExactlySound`: of the rules that were assembled, a call that
succeeds keeps those that are sound and reports the others.  Sound are the names of the
least set that rests on itself (`Grounded`): one rule of the name, a valid one, that refers to
sound rules only; and none at all beside an unsound global rule.  The model builds that set
level by level; that the last level rests on itself (`GroundedRestsOnItself`) is shown by
counting, as each level before it has a name more, and that no rule of a circle is in it by the
least level that has one (`NoneGrounded`).  One half of the theorem is that nothing sound is
ignored: `IgnoredInv` says so of what is ignored, and every phase that adds to it needs a reason.
A rule that did not parse is not valid (`OpenInv`); an error of validation is of an unsound
rule, which for a cycle needs that the path of the search is a path along references, so the
part of it from the grey rule on is a circle (`PathInv`); a rule is omitted in a pass only for
one that was ignored before.  The other half is that what is left is sound: `KeptInv` says that
the program is what is not ignored, and empty beside a global rule that is; `OrderInv` that, as
long as there is no error, the finished rules of the search are closed and have no circle, and so
at its end has the whole program; `OrderedInv` that this lasts while rules are removed.  Of the
kept rules that were not sound one would refer to none of the others, so it would be sound
(`KeptIsGrounded`).  The hypothesis `FailuresAreApart` names the three cases of section 6 in which
a resilient compiler does something else: an unparsed `private global` rule, an unparsed rule
that shares its name with one that parses, and rules of one name of which only some are global.
For a strict compiler the theorem needs none.

`CallsAnswerRight` is `AnswerIsRight`: a call that read its file and was not cancelled fails
exactly when the tree of the file has a fault that nothing can leave out (`ProgramFault`) or, if
the compiler is strict, a rule that is not sound; otherwise it worked on the rules of the whole
tree, in order (`SourceRules`).  It has no hypothesis but the assumption on the constants, in which
`IsFiniteSet(Files)` is what bounds the recursion.  The reference is recursive over the files and
cut off: the tree after twice as many levels as there are files, the list after as many.  The code
is a stack without any bound.  The proof brings them together:

- The cut-offs do no harm.  `TreeIsClosed` says that the last level of a tree has all that its
  nodes include: each level before it has a node more, and there are not enough nodes
  (`FewPlaces`).  `TreeIsLeast` says that it has nothing else.
- `StackInv` is the inductive part.  Of each open file, the statements that were begun and finished
  led to clean trees, and its rules so far are its own and the lists of those trees (`Parts`); the
  statement that was begun and is not finished is the one the next open file came from; and a file
  at place `k` of the stack has `NumFiles + 1 - k` levels left, which is never negative, since a
  file is not opened inside itself (`FewFrames`, from `NoFileOpenTwice`).  When the last statement
  is finished, the rules are the list of the node, and its tree is clean (`TopIsDone`); for
  a circle this needs that one through the node would be one of a subtree (`NodeIsClean`).
- `Clean` trees have no fault but a variable (`CleanIsFaultless`), which `Judge` sees; so a call
  that succeeds had no fault, and a strict one no unsound rule, by `SoundRulesAreKept`.
- A call fails for a reason: `RefusedIsFault` takes the cases in which an include statement is
  refused (of a file that is open already, the tree of that file has the one that includes it,
  because the stack is a path in the tree), `MainIsFault`, `JudgedIsFault` and `UngeneratedIsFault`
  the other phases.  A strict compiler refuses an included file for a rule that did not parse
  before that rule is in any list of the program; that it is one of `SourceRules` is the last part of
  `StackInv`.  `NamedInv` says that an error of the validation is of a rule that is there.

Proofs take names, files, callers and sizes of any number.

## 5. Only model-checked

- Liveness: `ScanReturns`, `CallReturns`, `ProcessReturns`, `EvaluationEnds`,
  `CompileReturns`.  The proof system has no rules for fairness.
- The engines and conditions: `RECURSIVE` definitions over patterns and expressions, held
  against a reference definition on bounded inputs.  They need induction over data, and the
  backends do not take modules with such definitions.

## 6. Disagreements

Where the code does something else than a comment, a document or a test says, or than its other
paths do. The first is a finding with a run. Five have an instance of their own in which TLC
finds the violation: `MCStreamReused.cfg` (`tlc -config MCStreamReused.cfg MCStreamEarly`),
`MCChunkedPeek.cfg` (of `MCChunkedSearch`), `MCBufferCancelled.cfg`, `MCBufferShort.cfg` and `MCBufferEncodings.cfg` (of `MCBufferScan`).
Four statements are written down as properties and belong to no run, because the code refutes
them: `EveryOccurrenceIsFound` (`PatternAutomaton`), `EveryHexMatchIsFound` (`HexMatching`),
`ReaderErrorsSurface` (`StreamScan`), `ResultsAreMeaning` (`RuleAssembly`). Each can be seen by
adding it to `MCMatching.cfg`, `MCStreamCore.cfg` or `MCRuleAssembly.cfg` as an `INVARIANT`. The
rest was found by reading while translating; the models either follow the code or keep their
instances away from it, and say which.

Scanning:

- `rule_compiler.go:263` takes a reference to another rule for monotonic whatever it stands
  under, so `not r` and `not defined uint8(k)` end a scan early (run `stream_negated`;
  `scanner_api.go:22-23` says the early answer is that of the whole input).
- `condition_prefilter.go:89` rejects an input without a match for `not (not @a or $b)`, whose
  condition is true; the comment at line 21 promises that no such input is rejected.
- `scanner_stream.go:328` clips text to its first span in fast-scan mode before the
  boundaries of a fullword string are certain.
- `scanner_stream.go:40` counts the overlap of a hex string in tokens; a jump is longer.
- `scanner_stream.go:630` returns the first rule of an early exit without asking its hook.
- `scanner_stream.go:440` evaluates the early check over `ruleResultsDense` of an earlier scan
  that was cancelled before it cleared them (`MCStreamReused`).
- `scanner_stream.go:266` takes an `io.ErrUnexpectedEOF` of the reader itself for the end of
  the input (`ReaderErrorsSurface`).
- `block_scanner.go:343`: a gated global rule hides all other rules from `Finish`.
- `scanner_pattern.go:220`: a scan cancelled in the fixed-offset dispatch leaves matches in slots
  that are not yet listed in `touched`, so the next `reset` keeps them and the next scan adds
  its own to them, while `scanner.go:14` lets a scanner be reused (`MCBufferCancelled`).
- `scanner_pattern.go:417` stores what a hex search had found when one rule was satisfied, or
  the context cancelled, as if it were all; a later rule that counts the same hex string is
  missed by `Matches` (`MCBufferShort`).
- `required_strings.go:262` takes the empty slot of a regex whose ASCII entry had only false
  candidates for a missing string and rejects the rule before the wide entry of the same regex
  is verified, so a wide match is lost; `scanner.go:214-220`, the option that allows the
  skip, says verdicts stay complete (`MCBufferEncodings`).
- `ScanFileWithContext` of a small file with a context that can be cancelled goes through `ScanReader`
  and gets its limits.
- `streaming_processor.go:232` drops the error of `Peek`: a fullword string whose refuting
  neighbour is missing in the window is reported, and with early termination, or when the next
  read works, the call succeeds (`SuccessIsExact`, `MCChunkedPeek`; line 24 promises exact
  matches, lines 173-174 enough lookahead).
- `streaming_processor.go`: concurrent calls of one processor share the counters.

Strings:

- `ahocorasick.go:145-147`: with a `nocase` and a case-sensitive string in one automaton
  occurrences are lost (`EveryOccurrenceIsFound`).
- `hex_pattern.go:146` and 226: with several xor keys and a jump or an alternation before the
  longest run of literals, the index of a token is used as an offset in bytes
  (`EveryHexMatchIsFound`).
- A hex string may end in a jump; its match may end behind the data.
- `nocase` and `xor` together are accepted; the folding comes before the key, so upper-case
  originals are missed.
- SIMD builds: the tail of the teddy search assumes vectors of 32 bytes where they may have
  64, and the step after a candidate rounds down and then advances by a whole vector, so a
  candidate beyond the first window may be passed over.
- `regex/literal.go`: `LiteralSuffix` steps 33 bytes over a class instruction of 34; only
  tests use it.  The odd start of a wide window in `boundedRegexWindow` is never taken, as
  its margin is even.

Conditions:

- `condition_proximity.go:199-225`: bounds `k+1` and `k-1` wrap; `interpreter_iter.go:29`: so
  does the total of a range of integers.
- Folding compares doubles exactly, the interpreter within an epsilon.
- A loop over a range that names its own variable reads the slot's last value.
- `condition_for_loops.go:274-276` calls `$` in a loop over integers invalid. `#`, `@`, `!`, `at`
  and `in` of it are refused there, but a bare `$` is taken: inside a loop over strings it is the
  variable of that loop (the string itself, not whether it is found), elsewhere the rule's
  anonymous strings.
- Memory is not cleared between rules, though `interpreter.go:347` says it is; a comment on
  `evaluationSafe` speaks of short-circuits, and none is compiled.
- `-1 of them` is true in `ofTruthWithoutStringMatches` and false in the interpreter (only an
  AST built by hand has it).
- `quantifier_parser.go:292-301` reads the offset of `any of them at 0 and x` as `0 and x`;
  `expression_parser.go:404-412` refuses `$a in (0..filesize-1)` although the same range is
  taken after `of`; lines 594-605 refuse `@a[i+1]`; a quantifier is a word or a literal;
  strings named like keywords cannot be counted; `condition_compiler.go:352` reads `010` as
  octal.

Assembly of programs:

- `site/src/content/docs/quickstart.mdx:84`: "Forward references to other rules are allowed".
  They are accepted, and read as false (`interpreter_compare.go:207`, `scanner_exec.go:222`;
  `ResultsAreMeaning`).  Rules of an included file are appended behind those of the file
  that includes it (`includes.go:132`), so a rule that uses an included one is a forward
  reference.
- A `private global` rule that only fails to parse does not omit the other rules unless a
  later phase finds an error, too; a plain invalid global rule does
  (`TestIgnoreInvalidGlobalRuleOmitsAllRules`).
- Of two invalid rules with one name only the first one's `global` counts; rules without a
  name share the name `invalid_rule`; a valid rule that shares its name with an unparsed one is
  compiled and listed as ignored, or dropped, depending on other errors.
- A file included twice duplicates its rules: an error in strict mode, both copies dropped in
  resilient mode.  Global and external variables of an included file are lost
  (`includes.go:132-133`).
- `CompileFile` moves the base directory, and the next relative file name is taken from there;
  `SetBaseDir` speaks of include paths only.  After a `CompileFile` that cannot read its file,
  `GetIgnoredRules` still answers for the call before.
- `parser.go:185-190`: in recovery an invalid `global rule` is an error of the program and not
  listed as an invalid rule; an unclosed one swallows the rule after it, and an unclosed rule
  takes the `private` from the rule after it.

## 7. Not modelled

- **Lexer and declarations.**  Pure functions from text to tokens and trees without choices
  that interact; a model would spell out characters.  `ConditionParser` begins with tokens.
  Recovery after a syntax error is represented in `RuleAssembly` by its result: a rule that does not
  parse, or an error of the program.
- **Types, arguments and schemas of the semantic analysis.**  One rule of typing per form of
  expression, without state; references, duplicates and cycles are in `RuleAssembly`.
- **Modules and built-in functions.**  Parsers of file formats and arithmetic over bytes: the
  data are the whole of it.
- **Evidence and telemetry.**  Built from the results beside the answer; no answer depends on
  them.
- **Serialization.**  A field by field encoding, for which a round-trip test is the better
  tool.  Warnings are text.
- **SIMD and teddy.**  Build-tag variants of searches whose results `PatternAutomaton`
  defines; what was seen of them is in section 6.
- **Word lookup tables, atom scores.**  They choose between searches that
  must agree, not what is found; where a score chooses between two compilations,
  `RegexCompiler` has both.
- **Captures, the shared search of several regexes, bounded verification of long matches.**
  Not used for answers, or an instance of what `BufferScan` takes as given.
- **File helpers and the commands.**  Input and output.
- **`site/`, examples, test data, analyzers.**  Documentation and tools of the repository's
  own development.

## 8. Plan

What is left, in the order of what it would add:

1. The shared search of several regexes and the word routing tables, held against
   `RegexMachine` and `PatternAutomaton`.
2. Recovery of the parser as a machine over tokens, in front of `RuleAssembly`.
3. Typing of conditions, in front of `ConditionCompiler`, to see that no condition that passes it
   reaches an undefined operation.
4. The per-scan caches of modules, composed with `BufferScan`.

Each disagreement of section 6 that is settled turns its property, or a narrower instance, into
one of the runs.
