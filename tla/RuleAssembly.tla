---------------------------- MODULE RuleAssembly ----------------------------
(***************************************************************************)
(* How a Compiler turns a rule file into the list of rules of a program    *)
(* (Compiler.CompileSourceWithContext, CompileFileWithContext): the file   *)
(* is parsed, its include statements are followed, the rules of the whole  *)
(* tree are validated together, and code is generated for them.  A strict  *)
(* compiler refuses a file with any error.  A resilient one                *)
(* (WithIgnoreInvalidRules) leaves out the invalid rules, and every rule   *)
(* that depends on one, and reports them.                                  *)
(*                                                                         *)
(* A rule is kept as what these phases tell apart: its name, the rules its *)
(* condition names (refs must hold, notRefs must not), its global          *)
(* modifier, and its "state": "unparsed" does not parse, "wrong" has a     *)
(* semantic error of its own, "unable" fails in code generation.           *)
(* What the files hold does not change while they are compiled.            *)
(***************************************************************************)
EXTENDS Integers, Sequences, FiniteSets, FiniteSetsExt, SequencesExt

CONSTANTS
    Files, Dirs, Paths, Names,
    DirOf,      \* filepath.Dir of a file
    Resolve,    \* the file a path names from a directory, links resolved, or NoFile
    Below,      \* pathWithinBase: the pairs <<d, e>> where e is d or lies under d
    NoFile,
    WorkDir,    \* the directory of the process: baseDir of a new Compiler
    Disks,      \* what the files may hold
    MaxCalls    \* bound: calls of one Compiler

\* A rule is in its final state; a file may also hold a top-level declaration that does
\* not parse, import a module that is not registered, declare a global variable without
\* a literal value, or be larger than the limits of the options.
RuleStates == {"valid", "unparsed", "wrong", "unable"}
Faults == {"no", "parse", "import", "variable", "large"}

SourceRule ==
    [name : Names, refs : SUBSET Names, notRefs : SUBSET Names, global : BOOLEAN,
     privateFirst : BOOLEAN, state : RuleStates]
Content == [rules : Seq(SourceRule), includes : Seq(Paths), fault : Faults]

ASSUME AssemblyAssumption ==
    /\ IsFiniteSet(Files) /\ NoFile \notin Files
    /\ DirOf \in [Files -> Dirs]
    /\ Resolve \in [Dirs -> [Paths -> Files \cup {NoFile}]]
    /\ Below \subseteq Dirs \X Dirs
    /\ WorkDir \in Dirs
    /\ IsFiniteSet(Names)
    /\ Disks \subseteq [Files -> Content]
    /\ MaxCalls \in Nat

VARIABLES
    disk, resilient,     \* fixed: the files, and options.IgnoreInvalidRules
    calls,               \* calls begun
    pc, outcome,         \* phase of the call; what the last call returned
    baseDir,             \* Compiler.baseDir, kept between calls
    main,                \* the file and the base directory of the call
    ignored,             \* stats.IgnoredRules: one [name, global] per name
    frames,              \* includeTraversal: the open files, outermost first
    badImport,           \* program.Imports names an unknown module
    rules, kept,         \* the rules of all files as written, and the indices of those
                         \* that are in program.Rules
    errors,              \* the rules named by the errors of the current validation
    colour, path,        \* state and path of validateRuleDependencyCycles
    at, changed, omitAll, back   \* propagateIgnoredRuleDependencies, and where it returns

fixed == <<disk, resilient>>
call == <<calls, baseDir, main>>
loading == <<frames, badImport>>
program == <<rules, kept>>
checking == <<errors, colour, path>>
spreading == <<at, changed, omitAll, back>>
vars == <<fixed, call, pc, outcome, ignored, loading, program, checking, spreading>>

---------------------------------------------------------------------------
(* Helpers. *)

IgnoredNames == {ig.name : ig \in ignored}

\* recordIgnoredRule for the rules of a sequence at the given places, in their order: the
\* first record of a name stays.
Recorded(known, seq, places) ==
    known \cup
    {[name |-> seq[i].name, global |-> seq[i].global] : i \in
        {j \in places : /\ \A ig \in known : ig.name # seq[j].name
                        /\ \A k \in places : k < j => seq[k].name # seq[j].name}}

Unparsed(rule) == rule.state = "unparsed"
InvalidRules(content) == {i \in DOMAIN content.rules : Unparsed(content.rules[i])}

\* ProgramErrors: a rule that starts with "global" is parsed as a declaration, so its
\* error is not attributed to a rule.
ProgramError(content) ==
    \/ content.fault = "parse"
    \/ \E i \in InvalidRules(content) :
            content.rules[i].global /\ ~content.rules[i].privateFirst

ParseFails(content) ==
    ProgramError(content) \/ (~resilient /\ InvalidRules(content) # {})

Frame(dir, file) ==
    [dir |-> dir, file |-> file, todo |-> disk[file].includes, rules |-> disk[file].rules]

Top == frames[Len(frames)]

\* Error: only the including file is remembered.
ParentPath == {frames[i].file : i \in {Len(frames)} \ {1}}

\* activePaths: the main file is not among them.
ActivePaths == {frames[i].file : i \in 2 .. Len(frames)}

Refs(rule) == rule.refs \cup rule.notRefs
KeptNames == {rules[i].name : i \in kept}

\* The direct references of a name, as the map of validateRuleDependencyCycles has them:
\* of two rules of that name, those of the last that has any.
Dependencies(name) ==
    LET holders == {i \in kept : rules[i].name = name /\ Refs(rules[i]) \cap KeptNames # {}}
    IN IF holders = {} THEN {} ELSE Refs(rules[Max(holders)]) \cap KeptNames

NotVisited == [n \in Names |-> 0]

\* The traversals end with the call.
Forget ==
    /\ frames' = <<>> /\ badImport' = FALSE
    /\ errors' = {} /\ colour' = NotVisited /\ path' = <<>>
    /\ at' = 1 /\ changed' = FALSE /\ omitAll' = FALSE /\ back' = "validate"

Return(result) ==
    /\ pc' = "idle"
    /\ outcome' = result
    /\ Forget
    /\ UNCHANGED <<fixed, call, program>>

Goto(label) == pc' = label /\ UNCHANGED <<fixed, call, outcome>>

---------------------------------------------------------------------------
(* The call and its files. *)

Init ==
    /\ disk \in Disks
    /\ resilient \in BOOLEAN
    /\ calls = 0 /\ pc = "idle" /\ outcome = "none"
    /\ baseDir = WorkDir /\ main = [file |-> NoFile, dir |-> WorkDir]
    /\ ignored = {} /\ rules = <<>> /\ kept = {}
    /\ frames = <<>> /\ badImport = FALSE
    /\ errors = {} /\ colour = NotVisited /\ path = <<>>
    /\ at = 1 /\ changed = FALSE /\ omitAll = FALSE /\ back = "validate"

\* CompileSource: the text of a file, its includes resolved against baseDir.
CompileSource(file) ==
    /\ pc = "idle" /\ calls < MaxCalls
    /\ calls' = calls + 1
    /\ main' = [file |-> file, dir |-> baseDir]
    /\ pc' = "source" /\ outcome' = "none"
    /\ rules' = <<>> /\ kept' = {}
    /\ UNCHANGED <<fixed, baseDir, ignored, loading, checking, spreading>>

\* CompileFile: a relative name is resolved against the base directory too, which then
\* becomes the directory of the file.
CompileFile(name) ==
    LET file == Resolve[baseDir][name]
    IN  /\ pc = "idle" /\ calls < MaxCalls
        /\ calls' = calls + 1
        /\ IF file = NoFile \/ (file # NoFile /\ disk[file].fault = "large")
           THEN /\ outcome' = "error"
                /\ main' = [file |-> NoFile, dir |-> baseDir]
                /\ UNCHANGED <<pc, baseDir, program>>
           ELSE /\ baseDir' = DirOf[file]
                /\ main' = [file |-> file, dir |-> DirOf[file]]
                /\ pc' = "source" /\ outcome' = "none"
                /\ rules' = <<>> /\ kept' = {}
        /\ UNCHANGED <<fixed, ignored, loading, checking, spreading>>

\* The statistics are those of one call.
ResetStats ==
    /\ pc = "source"
    /\ ignored' = {}
    /\ IF disk[main.file].fault = "large" THEN Return("error")
       ELSE Goto("parse") /\ UNCHANGED <<loading, program, checking, spreading>>

ParseMain ==
    LET content == disk[main.file]
    IN  /\ pc = "parse"
        /\ IF ParseFails(content)
           THEN Return("error") /\ UNCHANGED ignored
           ELSE /\ Goto("include")
                /\ ignored' = Recorded(ignored, content.rules, InvalidRules(content))
                /\ frames' = <<Frame(main.dir, main.file)>>
                /\ badImport' = (content.fault = "import")
                /\ UNCHANGED <<program, checking, spreading>>

\* processInclude up to the recursion.  An included file keeps its rules and imports; its
\* variables are not taken over.
OpenInclude ==
    LET file == Resolve[Top.dir][Head(Top.todo)]
        refused ==
            \/ file = NoFile
            \/ /\ file # NoFile
               /\ \/ <<Top.dir, DirOf[file]>> \notin Below
                  \/ file \in ActivePaths
                  \/ disk[file].fault = "large"
                  \/ ParseFails(disk[file])
    IN  /\ pc = "include" /\ Top.todo # <<>>
        /\ IF refused
           THEN Return("error") /\ UNCHANGED ignored
           ELSE /\ ignored' = Recorded(ignored, disk[file].rules, InvalidRules(disk[file]))
                /\ frames' = Append([frames EXCEPT ![Len(frames)].todo = Tail(@)],
                                    Frame(DirOf[file], file))
                /\ badImport' = (badImport \/ disk[file].fault = "import")
                /\ UNCHANGED <<fixed, call, pc, outcome, program, checking, spreading>>

\* Error: the rules of the included tree go before those of the file.
CloseIncludeInFront ==
    /\ pc = "include" /\ Top.todo = <<>> /\ Len(frames) > 1
    /\ frames' = [SubSeq(frames, 1, Len(frames) - 1)
                    EXCEPT ![Len(frames) - 1].rules = Top.rules \o @]
    /\ UNCHANGED <<fixed, call, pc, outcome, ignored, badImport, program, checking, spreading>>

\* The end of processInclude: the rules of the included tree go behind those of the file.
CloseInclude ==
    /\ pc = "include" /\ Top.todo = <<>> /\ Len(frames) > 1
    /\ frames' = [SubSeq(frames, 1, Len(frames) - 1)
                    EXCEPT ![Len(frames) - 1].rules = @ \o Top.rules]
    /\ UNCHANGED <<fixed, call, pc, outcome, ignored, badImport, program, checking, spreading>>

Assembled ==
    /\ pc = "include" /\ Top.todo = <<>> /\ Len(frames) = 1
    /\ rules' = Top.rules
    /\ kept' = {i \in DOMAIN Top.rules : ~Unparsed(Top.rules[i])}
    /\ Goto("imports")
    /\ UNCHANGED <<ignored, loading, checking, spreading>>

ProcessImports ==
    /\ pc = "imports"
    /\ IF badImport THEN Return("error")
       ELSE Goto("semantics") /\ UNCHANGED <<loading, program, checking, spreading>>
    /\ UNCHANGED ignored

---------------------------------------------------------------------------
(* Validation: Validator.ValidateProgram on the rules that are left. *)

Semantics ==
    /\ pc = "semantics"
    /\ Goto("validate")
    /\ UNCHANGED <<ignored, loading, program, checking, spreading>>

\* collectSymbols: a name that is defined twice.
CollectSymbols ==
    /\ pc = "validate"
    /\ errors' = {rules[i].name : i \in
                    {j \in kept : \E k \in kept : k < j /\ rules[k].name = rules[j].name}}
    /\ colour' = NotVisited
    /\ path' = <<>>
    /\ Goto("cycles")
    /\ UNCHANGED <<ignored, loading, program, spreading>>

Unvisited == {i \in kept : colour[rules[i].name] = 0}
First(places) == {i \in places : \A j \in places : i <= j}
Enter(name, below) ==
    /\ colour' = [colour EXCEPT ![name] = 1]
    /\ path' = Append(below, [name |-> name, left |-> Dependencies(name)])

Visit ==
    /\ pc = "cycles" /\ path = <<>>
    /\ \E i \in First(Unvisited) : Enter(rules[i].name, path)
    /\ UNCHANGED <<fixed, call, pc, outcome, ignored, loading, program, errors, spreading>>

\* The references of a rule are a map and are followed in any order.
Follow ==
    /\ pc = "cycles" /\ path # <<>>
    /\ \E dep \in path[Len(path)].left :
        LET rest == [path EXCEPT ![Len(path)].left = @ \ {dep}]
        IN  /\ IF colour[dep] = 0 THEN Enter(dep, rest)
               ELSE path' = rest /\ UNCHANGED colour
            /\ errors' = IF colour[dep] = 1 THEN errors \cup {path[Len(path)].name} ELSE errors
    /\ UNCHANGED <<fixed, call, pc, outcome, ignored, loading, program, spreading>>

Leave ==
    /\ pc = "cycles" /\ path # <<>> /\ path[Len(path)].left = {}
    /\ colour' = [colour EXCEPT ![path[Len(path)].name] = 2]
    /\ path' = SubSeq(path, 1, Len(path) - 1)
    /\ UNCHANGED <<fixed, call, pc, outcome, ignored, loading, program, errors, spreading>>

\* validateRule: an error of the rule's own, or a name that is not defined.
ValidateRules ==
    /\ pc = "cycles" /\ path = <<>> /\ Unvisited = {}
    /\ errors' = errors \cup
            {rules[i].name : i \in {j \in kept : \/ rules[j].state = "wrong"
                                                 \/ ~(Refs(rules[j]) \subseteq KeptNames)}}
    /\ Goto("judge")
    /\ UNCHANGED <<ignored, loading, program, colour, path, spreading>>

---------------------------------------------------------------------------
(* What the errors lead to. *)

\* Error: an omitted global rule is like any other.
StartPassOfNames(known) == at' = 1 /\ changed' = FALSE /\ omitAll' = FALSE

StartPass(known) ==
    /\ at' = 1
    /\ changed' = FALSE
    /\ omitAll' = \E ig \in known : ig.global

\* A global variable without a value is an error of no rule.
BadVariable == disk[main.file].fault = "variable"

Judge ==
    /\ pc = "judge"
    /\ IF errors = {} /\ ~BadVariable
       THEN Goto("codegen") /\ UNCHANGED <<ignored, loading, program, checking, spreading>>
       ELSE IF ~resilient \/ BadVariable
       THEN Return("error") /\ UNCHANGED ignored
       ELSE /\ ignored' = Recorded(ignored, rules, {i \in kept : rules[i].name \in errors})
            /\ StartPass(ignored')
            /\ back' = "validate"
            /\ Goto("propagate")
            /\ UNCHANGED <<loading, program, checking>>

\* One rule of a pass of propagateIgnoredRuleDependencies.
Propagate ==
    /\ pc = "propagate" /\ at <= Len(rules)
    /\ LET doomed == /\ at \in kept
                     /\ rules[at].name \notin IgnoredNames
                     /\ omitAll \/ Refs(rules[at]) \cap IgnoredNames # {}
       IN  /\ ignored' = IF doomed THEN Recorded(ignored, rules, {at}) ELSE ignored
           /\ changed' = (changed \/ doomed)
    /\ at' = at + 1
    /\ UNCHANGED <<fixed, call, pc, outcome, loading, program, checking, omitAll, back>>

NextPass ==
    /\ pc = "propagate" /\ at > Len(rules) /\ changed
    /\ StartPass(ignored)
    /\ UNCHANGED <<fixed, call, pc, outcome, ignored, loading, program, checking, back>>

\* Error: one pass is taken for a fixed point.
FilterAfterOnePass ==
    /\ pc = "propagate" /\ at > Len(rules)
    /\ kept' = {i \in kept : rules[i].name \notin IgnoredNames}
    /\ Goto(back)
    /\ UNCHANGED <<ignored, loading, rules, checking, spreading>>

\* Error: the reported rules stay in the program.
FilterNothing ==
    /\ pc = "propagate" /\ at > Len(rules) /\ ~changed
    /\ Goto(back)
    /\ UNCHANGED <<ignored, loading, program, checking, spreading>>

\* filterIgnoredRules, and the program is validated or generated again.
Filter ==
    /\ pc = "propagate" /\ at > Len(rules) /\ ~changed
    /\ kept' = {i \in kept : rules[i].name \notin IgnoredNames}
    /\ Goto(back)
    /\ UNCHANGED <<ignored, loading, rules, checking, spreading>>

---------------------------------------------------------------------------
(* Code generation: the first rule that cannot be compiled ends an attempt. *)

CodeGen ==
    /\ pc = "codegen"
    /\ Goto("generate")
    /\ UNCHANGED <<ignored, loading, program, checking, spreading>>

Unable == {i \in kept : rules[i].state = "unable"}

Generate ==
    /\ pc = "generate"
    /\ IF Unable = {}
       THEN Goto("finish") /\ UNCHANGED <<ignored, loading, program, checking, spreading>>
       ELSE IF ~resilient
       THEN Return("error") /\ UNCHANGED ignored
       ELSE /\ ignored' = Recorded(ignored, rules, First(Unable))
            /\ StartPass(ignored')
            /\ back' = "generate"
            /\ Goto("propagate")
            /\ UNCHANGED <<loading, program, checking>>

Finish ==
    /\ pc = "finish"
    /\ Return("ok")
    /\ UNCHANGED ignored

\* The places that look at the context; the loops of the last two phases do not.
Cancel ==
    /\ \/ pc \in {"source", "parse", "imports", "semantics", "codegen", "finish"}
       \/ pc = "include" /\ Top.todo # <<>>
    /\ Return("cancelled")
    /\ UNCHANGED ignored

Step ==
    \/ ResetStats \/ ParseMain \/ OpenInclude \/ CloseInclude \/ Assembled \/ ProcessImports
    \/ Semantics \/ CollectSymbols \/ Visit \/ Follow \/ Leave \/ ValidateRules
    \/ Judge \/ Propagate \/ NextPass \/ Filter
    \/ CodeGen \/ Generate \/ Finish

Next ==
    \/ \E file \in Files : CompileSource(file)
    \/ \E name \in Paths : CompileFile(name)
    \/ Step
    \/ Cancel

Spec == Init /\ [][Next]_vars

\* A call runs on the goroutine of its caller to its end.
FairSpec == Spec /\ WF_vars(Step)

---------------------------------------------------------------------------
(* What the source says: the tree of a file, its rules, and which of them are sound. *)

\* A file of a tree with the directory its includes are resolved against, the file that an
\* include statement names, and the files that are included; d is what the files hold.
Node(file) == <<DirOf[file], file>>
Target(d, node, i) == Resolve[node[1]][d[node[2]].includes[i]]
Included(d, node) ==
    {Node(file) : file \in {Target(d, node, i) : i \in DOMAIN d[node[2]].includes} \ {NoFile}}

\* The nodes that are reached from those of "start", level by level.
TreeLevels(d, start) ==
    LET tree[n \in 0 .. (2 * Cardinality(Files))] ==
            IF n = 0 THEN start
            ELSE tree[n - 1] \cup UNION {Included(d, node) : node \in tree[n - 1]}
    IN tree
Tree(d, start) == TreeLevels(d, start)[2 * Cardinality(Files)]

MainNode == <<main.dir, main.file>>
SourceTree == Tree(disk, {MainNode})

MissingInclude ==
    \E node \in SourceTree : \E i \in DOMAIN disk[node[2]].includes :
        LET file == Target(disk, node, i)
        IN file = NoFile \/ <<node[1], DirOf[file]>> \notin Below

CircularInclude ==
    \E node \in SourceTree : \E next \in Included(disk, node) : node \in Tree(disk, {next})

\* What no compiler can leave out.
ProgramFault ==
    \/ MissingInclude \/ CircularInclude
    \/ disk[main.file].fault = "variable"
    \/ \E node \in SourceTree : disk[node[2]].fault \in {"import", "large"}
    \/ \E node \in SourceTree : ProgramError(disk[node[2]])

\* The rules of a node and of what it includes, so many levels deep: each file's own before
\* those of its includes.
Listings(d) ==
    LET listing[n \in 0 .. Cardinality(Files)] ==
            [node \in Dirs \X Files |->
                d[node[2]].rules \o
                IF n = 0 THEN <<>>
                ELSE FlattenSeq(
                        [i \in DOMAIN d[node[2]].includes |->
                            IF Target(d, node, i) = NoFile THEN <<>>
                            ELSE listing[n - 1][Node(Target(d, node, i))]])]
    IN listing

\* All rules of the tree.
SourceRules == Listings(disk)[Cardinality(Files)][MainNode]

Holders(source, n) == {i \in DOMAIN source : source[i].name = n}

\* The names of which there is one rule, a valid one that names rules of "below" only.
RestsOn(source, below) ==
    {n \in Names : /\ Cardinality(Holders(source, n)) = 1
                   /\ \A i \in Holders(source, n) : /\ source[i].state = "valid"
                                                    /\ Refs(source[i]) \subseteq below}

\* The least set of names that rests on itself, which leaves out the rules of a cycle.
Levels(source) ==
    LET level[k \in 0 .. Cardinality(Names)] ==
            IF k = 0 THEN {} ELSE RestsOn(source, level[k - 1])
    IN level
Grounded(source) == Levels(source)[Cardinality(Names)]

\* The sound names: no rule at all is sound beside an unsound global one.
Sound(source) ==
    IF \E i \in DOMAIN source : source[i].global /\ source[i].name \notin Grounded(source)
    THEN {} ELSE Grounded(source)

\* The compiled program, in order.
Compiled == [j \in 1 .. Cardinality(kept) |->
                rules[CHOOSE i \in kept : Cardinality({k \in kept : k <= i}) = j]]

\* The references of a condition, on a set of rules that matched.
RefersTo(rule, matched) == rule.refs \subseteq matched /\ rule.notRefs \cap matched = {}

\* A scan of the program: its rules in order over results that were cleared, so a
\* reference to a later rule reads FALSE.  "own" is the rest of each rule's condition.
RuleResults(own) ==
    LET result[n \in 0 .. Len(Compiled)] ==
            IF n = 0 THEN {}
            ELSE IF own[n] /\ RefersTo(Compiled[n], result[n - 1])
                 THEN result[n - 1] \cup {Compiled[n].name} ELSE result[n - 1]
    IN result[Len(Compiled)]

---------------------------------------------------------------------------
(* Properties. *)

Phases ==
    {"idle", "source", "parse", "include", "imports", "semantics", "validate", "cycles",
     "judge", "propagate", "codegen", "generate", "finish"}

FixedOK == disk \in Disks /\ resilient \in BOOLEAN

CallOK ==
    /\ calls \in 0 .. MaxCalls
    /\ pc \in Phases
    /\ outcome \in {"none", "ok", "error", "cancelled"}
    /\ baseDir \in Dirs
    /\ main \in [file : Files \cup {NoFile}, dir : Dirs]
    /\ pc # "idle" => main.file \in Files

IgnoredOK == ignored \subseteq [name : Names, global : BOOLEAN]

LoadingOK ==
    /\ frames \in Seq([dir : Dirs, file : Files, todo : Seq(Paths), rules : Seq(SourceRule)])
    /\ badImport \in BOOLEAN
    /\ pc = "include" => frames # <<>>

ProgramOK == rules \in Seq(SourceRule) /\ kept \subseteq DOMAIN rules

CheckingOK ==
    /\ errors \subseteq Names
    /\ colour \in [Names -> 0 .. 2]
    /\ path \in Seq([name : Names, left : SUBSET Names])

SpreadingOK ==
    /\ at \in Nat \ {0} /\ changed \in BOOLEAN /\ omitAll \in BOOLEAN
    /\ back \in {"validate", "generate"}

TypeOK ==
    FixedOK /\ CallOK /\ IgnoredOK /\ LoadingOK /\ ProgramOK /\ CheckingOK /\ SpreadingOK

\* A file is never opened while it is being included: the traversal of a finite set of
\* files is finite, whatever their include statements say.
NoFileOpenTwice ==
    \A i, j \in 2 .. Len(frames) : frames[i].file = frames[j].file => i = j

Closed ==
    \A i \in kept :
        /\ Refs(rules[i]) \subseteq KeptNames
        /\ \A j \in kept : rules[i].name = rules[j].name => i = j

\* Every rule reference of a compiled program names exactly one of its rules, although
\* rules are removed from it in three phases: code generation resolves names to indices
\* without looking for a missing one.
CompiledIsClosed ==
    pc \in {"generate", "finish"} \/ (pc = "idle" /\ outcome = "ok") => Closed

\* A call that read its file and was not cancelled answers as the source deserves.  A
\* strict compiler succeeds exactly when the whole tree has no error, a resilient one when
\* nothing but rules is wrong; what it then works on is the rules of the tree, in order.
AnswerIsRight ==
    pc = "idle" /\ main.file # NoFile /\ outcome \in {"ok", "error"} =>
        LET names == {SourceRules[i].name : i \in DOMAIN SourceRules}
        IN IF ProgramFault \/ (~resilient /\ names # Sound(SourceRules))
           THEN outcome = "error"
           ELSE outcome = "ok" /\ rules = SourceRules

\* Of these a program has the sound ones, all of them, and the others are reported: what
\* depends on an omitted rule by any chain of references, or stands beside an omitted
\* global one, is omitted in whatever phase that happens, and nothing else is.
KeepsExactlySound ==
    pc = "idle" /\ outcome = "ok" =>
        LET sound == Sound(rules)
            names == {rules[i].name : i \in DOMAIN rules}
        IN /\ kept = {i \in DOMAIN rules : rules[i].name \in sound}
           /\ IgnoredNames = names \ sound
           /\ resilient \/ names = sound

\* Every call returns: the passes over the rules, their validation and their generation
\* are repeated finitely often.
CompileReturns == (pc # "idle") ~> (pc = "idle")

\* A rule matches an input exactly when its own part holds on it and the rules it names
\* match, or do not, as it says.  No run checks it: quickstart.mdx allows references to later
\* rules, which refute it.
ResultsAreMeaning ==
    pc = "idle" /\ outcome = "ok" =>
        \A own \in [DOMAIN Compiled -> BOOLEAN] :
            LET matched == RuleResults(own)
            IN \A i \in DOMAIN Compiled :
                Compiled[i].name \in matched <=> own[i] /\ RefersTo(Compiled[i], matched)
=============================================================================
