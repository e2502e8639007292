------------------------- MODULE RuleAssemblyProofs -------------------------
(***************************************************************************)
(* Proofs about RuleAssembly, for all files, include statements and rules: *)
(* no file is opened inside itself, a compiled program is closed under its *)
(* rule references and keeps exactly the sound rules, and a call fails for *)
(* the faults of its files and for nothing else.                           *)
(***************************************************************************)
EXTENDS RuleAssembly, FiniteSetFacts, SequenceTheorems

FrameRecord == [dir : Dirs, file : Files, todo : Seq(Paths), rules : Seq(SourceRule)]
IgnoredRecord == [name : Names, global : BOOLEAN]

\* recordIgnoredRule adds records of rules of the sequence.
LEMMA RecordedIsTyped ==
    ASSUME NEW known \in SUBSET IgnoredRecord, NEW seq \in Seq(SourceRule),
           NEW places \in SUBSET DOMAIN seq
    PROVE  Recorded(known, seq, places) \subseteq IgnoredRecord
<1>1. ASSUME NEW i \in places PROVE [name |-> seq[i].name, global |-> seq[i].global] \in IgnoredRecord
    <2>1. seq[i] \in SourceRule
        BY ElementOfSeq
    <2> QED BY <2>1 DEF SourceRule, IgnoredRecord
<1> QED BY <1>1 DEF Recorded

\* A name is ignored from its record on; the names of the given places are.
LEMMA RecordedGrows ==
    ASSUME NEW known, NEW seq, NEW places
    PROVE  known \subseteq Recorded(known, seq, places)
BY DEF Recorded

\* A frame of a file of the disk.
LEMMA FrameIsTyped ==
    ASSUME TypeOK, NEW dir \in Dirs, NEW file \in Files
    PROVE  /\ disk[file] \in Content
           /\ Frame(dir, file) \in FrameRecord
           /\ Frame(dir, file).file = file
           /\ InvalidRules(disk[file]) \subseteq DOMAIN disk[file].rules
<1>1. disk \in [Files -> Content]
    BY AssemblyAssumption DEF TypeOK, FixedOK
<1> QED BY <1>1 DEF Frame, FrameRecord, Content, InvalidRules

\* The innermost open file.
LEMMA TopIsTyped ==
    ASSUME TypeOK, pc = "include"
    PROVE  /\ frames \in Seq(FrameRecord) /\ Len(frames) \in Nat \ {0}
           /\ Top = frames[Len(frames)] /\ Top \in FrameRecord
<1>1. frames \in Seq(FrameRecord) /\ frames # <<>>
    BY DEF TypeOK, LoadingOK, FrameRecord
<1> QED BY <1>1, EmptySeq, LenProperties, ElementOfSeq DEF Top

---------------------------------------------------------------------------
(* Type correctness. *)

LEMMA ReturnKeepsTypes ==
    ASSUME TypeOK, NEW result \in {"ok", "error", "cancelled"}, Return(result), IgnoredOK'
    PROVE  TypeOK'
<1>1. FixedOK'
    BY DEF TypeOK, FixedOK, Return, fixed
<1>2. CallOK'
    BY DEF TypeOK, CallOK, Return, call, Phases
<1>3. LoadingOK'
    BY EmptySeq DEF LoadingOK, Return, Forget
<1>4. ProgramOK'
    BY DEF TypeOK, ProgramOK, Return, program
<1>5. CheckingOK'
    BY EmptySeq DEF CheckingOK, Return, Forget, NotVisited
<1>6. SpreadingOK'
    <2>1. at' = 1 /\ changed' = FALSE /\ omitAll' = FALSE /\ back' = "validate"
        BY DEF Return, Forget
    <2>2. at' \in Nat \ {0} /\ back' \in {"validate", "generate"}
        BY <2>1
    <2>3. changed' \in BOOLEAN /\ omitAll' \in BOOLEAN
        BY <2>1, Zenon
    <2> QED BY <2>2, <2>3, Zenon DEF SpreadingOK
<1> QED BY <1>1, <1>2, <1>3, <1>4, <1>5, <1>6 DEF TypeOK

\* What an action leaves alone keeps its type.
LEMMA UnchangedTypes ==
    ASSUME TypeOK
    PROVE  /\ UNCHANGED fixed => FixedOK'
           /\ UNCHANGED ignored => IgnoredOK'
           /\ UNCHANGED loading /\ (pc' = "include" => pc = "include") => LoadingOK'
           /\ UNCHANGED program => ProgramOK'
           /\ UNCHANGED checking => CheckingOK'
           /\ UNCHANGED spreading => SpreadingOK'
           /\ UNCHANGED <<call, outcome>> /\ pc # "idle" /\ pc' \in Phases => CallOK'
<1>1. UNCHANGED fixed => FixedOK'
    BY DEF TypeOK, FixedOK, fixed
<1>2. UNCHANGED ignored => IgnoredOK'
    BY DEF TypeOK, IgnoredOK
<1>3. UNCHANGED loading /\ (pc' = "include" => pc = "include") => LoadingOK'
    BY DEF TypeOK, LoadingOK, loading
<1>4. UNCHANGED program => ProgramOK'
    BY DEF TypeOK, ProgramOK, program
<1>5. UNCHANGED checking => CheckingOK'
    BY DEF TypeOK, CheckingOK, checking
<1>6. UNCHANGED spreading => SpreadingOK'
    BY DEF TypeOK, SpreadingOK, spreading
<1>7. UNCHANGED <<call, outcome>> /\ pc # "idle" /\ pc' \in Phases => CallOK'
    BY DEF TypeOK, CallOK, call
<1> QED BY <1>1, <1>2, <1>3, <1>4, <1>5, <1>6, <1>7

LEMMA CallsKeepTypes ==
    ASSUME TypeOK,
           \/ \E file \in Files : CompileSource(file)
           \/ \E name \in Paths : CompileFile(name)
    PROVE  TypeOK'
<1>1. ASSUME NEW file \in Files, CompileSource(file) PROVE TypeOK'
    <2>1. CallOK' /\ ProgramOK'
        BY <1>1, AssemblyAssumption, EmptySeq
        DEF TypeOK, CallOK, ProgramOK, CompileSource, Phases
    <2>2. /\ UNCHANGED fixed /\ UNCHANGED ignored /\ UNCHANGED loading /\ UNCHANGED checking
          /\ UNCHANGED spreading /\ pc' # "include"
        BY <1>1 DEF CompileSource
    <2> QED BY <2>1, <2>2, UnchangedTypes DEF TypeOK
<1>2. ASSUME NEW name \in Paths, CompileFile(name) PROVE TypeOK'
    <2> DEFINE file == Resolve[baseDir][name]
    <2>1. /\ UNCHANGED fixed /\ UNCHANGED ignored /\ UNCHANGED loading /\ UNCHANGED checking
          /\ UNCHANGED spreading /\ pc' # "include"
        BY <1>2 DEF CompileFile
    <2>2. CASE file = NoFile \/ (file # NoFile /\ disk[file].fault = "large")
        <3>1. CallOK' /\ UNCHANGED program
            BY <1>2, <2>2, AssemblyAssumption DEF TypeOK, CallOK, CompileFile, Phases
        <3> QED BY <2>1, <3>1, UnchangedTypes DEF TypeOK
    <2>3. CASE ~(file = NoFile \/ (file # NoFile /\ disk[file].fault = "large"))
        <3>1. file \in Files /\ DirOf[file] \in Dirs
            BY <2>3, AssemblyAssumption DEF TypeOK, CallOK
        <3>2. CallOK' /\ ProgramOK'
            BY <1>2, <2>3, <3>1, EmptySeq, AssemblyAssumption
            DEF TypeOK, CallOK, ProgramOK, CompileFile, Phases
        <3> QED BY <2>1, <3>2, UnchangedTypes DEF TypeOK
    <2> QED BY <2>2, <2>3
<1> QED BY <1>1, <1>2

LEMMA LoadingKeepsTypes ==
    ASSUME TypeOK,
           ResetStats \/ ParseMain \/ OpenInclude \/ CloseInclude \/ Assembled \/ ProcessImports
    PROVE  TypeOK'
<1>1. CASE ResetStats
    <2>1. IgnoredOK'
        BY <1>1 DEF ResetStats, IgnoredOK
    <2>2. CASE disk[main.file].fault = "large"
        BY <1>1, <2>1, <2>2, ReturnKeepsTypes DEF ResetStats
    <2>3. CASE disk[main.file].fault # "large"
        <3>1. UNCHANGED fixed /\ CallOK' /\ UNCHANGED <<loading, program, checking, spreading>>
              /\ pc' # "include"
            BY <1>1, <2>3, UnchangedTypes DEF ResetStats, Goto, Phases
        <3> QED BY <2>1, <3>1, UnchangedTypes DEF TypeOK
    <2> QED BY <2>2, <2>3
<1>2. CASE ParseMain
    <2> DEFINE content == disk[main.file]
    <2>1. main.file \in Files /\ main.dir \in Dirs
        BY <1>2 DEF ParseMain, TypeOK, CallOK
    <2>2. /\ content \in Content /\ InvalidRules(content) \subseteq DOMAIN content.rules
          /\ Frame(main.dir, main.file) \in FrameRecord
        BY <2>1, FrameIsTyped
    <2>3. CASE ParseFails(content)
        <3>1. Return("error") /\ UNCHANGED ignored
            BY <1>2, <2>3 DEF ParseMain
        <3> QED BY <3>1, ReturnKeepsTypes, UnchangedTypes
    <2>4. CASE ~ParseFails(content)
        <3>1. /\ Goto("include") /\ UNCHANGED <<program, checking, spreading>> /\ pc # "idle"
              /\ ignored' = Recorded(ignored, content.rules, InvalidRules(content))
              /\ frames' = <<Frame(main.dir, main.file)>>
              /\ badImport' = (content.fault = "import")
            BY <1>2, <2>4 DEF ParseMain
        <3>2. IgnoredOK'
            <4>1. content.rules \in Seq(SourceRule) /\ ignored \in SUBSET IgnoredRecord
                BY <2>2 DEF Content, TypeOK, IgnoredOK, IgnoredRecord
            <4> QED BY <2>2, <3>1, <4>1, RecordedIsTyped DEF IgnoredOK, IgnoredRecord
        <3>3. LoadingOK'
            BY <2>2, <3>1 DEF LoadingOK, FrameRecord
        <3>4. CallOK' /\ UNCHANGED fixed
            BY <3>1, UnchangedTypes DEF Goto, Phases
        <3> QED BY <3>1, <3>2, <3>3, <3>4, UnchangedTypes DEF TypeOK
    <2> QED BY <2>3, <2>4
<1>3. CASE OpenInclude
    <2> DEFINE file == Resolve[Top.dir][Head(Top.todo)]
               refused == \/ file = NoFile
                          \/ /\ file # NoFile
                             /\ \/ <<Top.dir, DirOf[file]>> \notin Below
                                \/ file \in ActivePaths
                                \/ disk[file].fault = "large"
                                \/ ParseFails(disk[file])
    <2>1. CASE refused
        <3>1. Return("error") /\ UNCHANGED ignored
            BY <1>3, <2>1 DEF OpenInclude
        <3> QED BY <3>1, ReturnKeepsTypes, UnchangedTypes
    <2>2. CASE ~refused
        <3>1. /\ pc = "include" /\ Top.todo # <<>>
              /\ ignored' = Recorded(ignored, disk[file].rules, InvalidRules(disk[file]))
              /\ frames' = Append([frames EXCEPT ![Len(frames)].todo = Tail(@)],
                                  Frame(DirOf[file], file))
              /\ badImport' = (badImport \/ disk[file].fault = "import")
              /\ UNCHANGED <<fixed, call, pc, outcome, program, checking, spreading>>
            BY <1>3, <2>2 DEF OpenInclude
        <3>2. /\ frames \in Seq(FrameRecord) /\ Len(frames) \in Nat \ {0}
              /\ Top = frames[Len(frames)] /\ Top \in FrameRecord
            BY <3>1, TopIsTyped
        <3>3. file \in Files /\ DirOf[file] \in Dirs
            <4>1. Top.dir \in Dirs /\ Head(Top.todo) \in Paths
                BY <3>1, <3>2, HeadTailProperties DEF FrameRecord
            <4> QED BY <2>2, <4>1, AssemblyAssumption
        <3>4. /\ disk[file] \in Content /\ InvalidRules(disk[file]) \subseteq DOMAIN disk[file].rules
              /\ Frame(DirOf[file], file) \in FrameRecord
            BY <3>3, FrameIsTyped
        <3>5. IgnoredOK'
            <4>1. disk[file].rules \in Seq(SourceRule) /\ ignored \in SUBSET IgnoredRecord
                BY <3>4 DEF Content, TypeOK, IgnoredOK, IgnoredRecord
            <4> QED BY <3>1, <3>4, <4>1, RecordedIsTyped DEF IgnoredOK, IgnoredRecord
        <3>6. LoadingOK'
            <4>1. [Top EXCEPT !.todo = Tail(Top.todo)] \in FrameRecord
                BY <3>1, <3>2, HeadTailProperties DEF FrameRecord
            <4> DEFINE opened == [frames EXCEPT ![Len(frames)].todo = Tail(@)]
            <4>2. opened \in Seq(FrameRecord)
                BY <3>2, <4>1, ExceptSeq
            <4>3. frames' \in Seq(FrameRecord) /\ Len(frames') = Len(opened) + 1
                <5>1. frames' = Append(opened, Frame(DirOf[file], file))
                    BY <3>1
                <5> HIDE DEF opened, file
                <5> QED BY <3>4, <4>2, <5>1, AppendProperties
            <4>6. Len(opened) \in Nat
                BY <4>2, LenProperties
            <4>5. frames' # <<>>
                BY <4>3, <4>6, EmptySeq
            <4>4. badImport' \in BOOLEAN
                BY <3>1 DEF TypeOK, LoadingOK
            <4> QED BY <4>3, <4>4, <4>5 DEF LoadingOK, FrameRecord
        <3>7. CallOK' /\ UNCHANGED fixed
            BY <3>1, UnchangedTypes DEF Phases
        <3> QED BY <3>1, <3>5, <3>6, <3>7, UnchangedTypes DEF TypeOK
    <2> QED BY <2>1, <2>2
<1>4. CASE CloseInclude
    <2>1. /\ pc = "include" /\ Len(frames) > 1
          /\ frames' = [SubSeq(frames, 1, Len(frames) - 1)
                            EXCEPT ![Len(frames) - 1].rules = @ \o Top.rules]
          /\ UNCHANGED <<fixed, call, pc, outcome, ignored, badImport, program, checking, spreading>>
        BY <1>4 DEF CloseInclude
    <2>2. /\ frames \in Seq(FrameRecord) /\ Len(frames) \in Nat \ {0}
          /\ Top = frames[Len(frames)] /\ Top \in FrameRecord
        BY <2>1, TopIsTyped
    <2> DEFINE outer == SubSeq(frames, 1, Len(frames) - 1)
    <2>3. outer \in Seq(FrameRecord) /\ Len(outer) = Len(frames) - 1
        BY <2>1, <2>2, SubSeqProperties
    <2>4. outer[Len(outer)] \in FrameRecord
        BY <2>1, <2>2, <2>3, ElementOfSeq
    <2>5. [outer[Len(outer)] EXCEPT !.rules = @ \o Top.rules] \in FrameRecord
        BY <2>2, <2>4, ConcatProperties DEF FrameRecord
    <2>6. frames' = [outer EXCEPT ![Len(outer)] =
                        [outer[Len(outer)] EXCEPT !.rules = @ \o Top.rules]]
        BY <2>1, <2>3
    <2>7. frames' \in Seq(FrameRecord) /\ Len(frames') = Len(outer)
        <3>1. Len(outer) \in 1 .. Len(outer)
            BY <2>1, <2>2, <2>3
        <3> HIDE DEF outer
        <3> QED BY <2>3, <2>5, <2>6, <3>1, ExceptSeq
    <2>8. LoadingOK'
        <3>1. frames' # <<>>
            BY <2>1, <2>2, <2>3, <2>7, EmptySeq
        <3> QED BY <2>1, <2>7, <3>1 DEF TypeOK, LoadingOK, FrameRecord
    <2>9. CallOK' /\ UNCHANGED fixed
        BY <2>1, UnchangedTypes DEF Phases
    <2> QED BY <2>1, <2>8, <2>9, UnchangedTypes DEF TypeOK
<1>5. CASE Assembled
    <2>1. /\ pc = "include" /\ Goto("imports") /\ UNCHANGED <<ignored, loading, checking, spreading>>
          /\ rules' = Top.rules
          /\ kept' = {i \in DOMAIN Top.rules : ~Unparsed(Top.rules[i])}
        BY <1>5 DEF Assembled
    <2>2. ProgramOK'
        BY <2>1, TopIsTyped DEF ProgramOK, FrameRecord
    <2>3. CallOK' /\ UNCHANGED fixed /\ pc' # "include"
        BY <2>1, UnchangedTypes DEF Goto, Phases
    <2> QED BY <2>1, <2>2, <2>3, UnchangedTypes DEF TypeOK
<1>6. CASE ProcessImports
    <2>1. CASE badImport
        BY <1>6, <2>1, ReturnKeepsTypes, UnchangedTypes DEF ProcessImports
    <2>2. CASE ~badImport
        <3>1. /\ pc # "idle" /\ Goto("semantics")
              /\ UNCHANGED <<ignored, loading, program, checking, spreading>>
            BY <1>6, <2>2 DEF ProcessImports
        <3>2. CallOK' /\ UNCHANGED fixed /\ pc' # "include"
            BY <3>1, UnchangedTypes DEF Goto, Phases
        <3> QED BY <3>1, <3>2, UnchangedTypes DEF TypeOK
    <2> QED BY <2>1, <2>2
<1> QED BY <1>1, <1>2, <1>3, <1>4, <1>5, <1>6

\* The names a rule can refer to in a program.
LEMMA KeptIsTyped ==
    ASSUME ProgramOK
    PROVE  /\ \A i \in kept : rules[i] \in SourceRule /\ rules[i].name \in Names /\ i \in Nat
           /\ KeptNames \subseteq Names
           /\ \A n : Dependencies(n) \subseteq Names
           /\ \A i \in kept : i <= Len(rules)
<1>1. ASSUME NEW i \in kept PROVE rules[i] \in SourceRule /\ i \in Nat /\ i <= Len(rules)
    BY ElementOfSeq, LenProperties DEF ProgramOK
<1>2. ASSUME NEW i \in kept PROVE rules[i].name \in Names
    BY <1>1 DEF SourceRule
<1>3. KeptNames \subseteq Names
    BY <1>2 DEF KeptNames
<1> QED BY <1>1, <1>2, <1>3 DEF Dependencies

\* The rule whose references are followed.
LEMMA LastOfPath ==
    ASSUME TypeOK, path # <<>>
    PROVE  /\ path \in Seq([name : Names, left : SUBSET Names])
           /\ Len(path) \in 1 .. Len(path)
           /\ path[Len(path)] \in [name : Names, left : SUBSET Names]
           /\ path[Len(path)].name \in Names
<1>1. path \in Seq([name : Names, left : SUBSET Names])
    BY DEF TypeOK, CheckingOK
<1>2. Len(path) \in 1 .. Len(path)
    BY <1>1, EmptySeq, LenProperties
<1>3. path[Len(path)] \in [name : Names, left : SUBSET Names]
    BY <1>1, <1>2, ElementOfSeq
<1> QED BY <1>1, <1>2, <1>3

LEMMA ValidationKeepsTypes ==
    ASSUME TypeOK,
           Semantics \/ CollectSymbols \/ Visit \/ Follow \/ Leave \/ ValidateRules
    PROVE  TypeOK'
<1> DEFINE PathRecord == [name : Names, left : SUBSET Names]
<1>1. CASE Semantics
    <2>1. CallOK' /\ pc' # "include"
        BY <1>1, UnchangedTypes DEF Semantics, Goto, Phases
    <2> QED BY <1>1, <2>1, UnchangedTypes DEF Semantics, Goto, TypeOK
<1>2. CASE CollectSymbols
    <2>1. CallOK' /\ pc' # "include" /\ UNCHANGED <<fixed, ignored, loading, program, spreading>>
        BY <1>2, UnchangedTypes DEF CollectSymbols, Goto, Phases
    <2>2. CheckingOK'
        BY <1>2, KeptIsTyped, EmptySeq DEF CollectSymbols, CheckingOK, NotVisited, TypeOK
    <2> QED BY <2>1, <2>2, UnchangedTypes DEF TypeOK
<1>3. ASSUME NEW name \in Names, NEW below \in Seq(PathRecord), Enter(name, below)
      PROVE  colour' \in [Names -> 0 .. 2] /\ path' \in Seq(PathRecord)
    <2>1. [name |-> name, left |-> Dependencies(name)] \in PathRecord
        BY KeptIsTyped DEF TypeOK
    <2> QED BY <1>3, <2>1, AppendProperties DEF Enter, TypeOK, CheckingOK
<1>4. CASE Visit
    <2>1. PICK i \in First(Unvisited) : Enter(rules[i].name, path)
        BY <1>4 DEF Visit
    <2>2. rules[i].name \in Names
        BY <2>1, KeptIsTyped DEF First, Unvisited, TypeOK
    <2>3. CheckingOK'
        BY <1>3, <1>4, <2>1, <2>2 DEF Visit, TypeOK, CheckingOK
    <2>4. CallOK' /\ UNCHANGED <<fixed, pc, ignored, loading, program, spreading>>
        BY <1>4, UnchangedTypes DEF Visit, Phases
    <2> QED BY <2>3, <2>4, UnchangedTypes DEF TypeOK
<1>5. CASE Follow
    <2>1. pc = "cycles" /\ path # <<>> /\ UNCHANGED <<fixed, call, pc, outcome, ignored, loading, program, spreading>>
        BY <1>5 DEF Follow
    <2> DEFINE last == path[Len(path)]
               rest(dep) == [path EXCEPT ![Len(path)].left = @ \ {dep}]
    <2>2. PICK dep \in last.left :
            /\ IF colour[dep] = 0 THEN Enter(dep, rest(dep))
               ELSE path' = rest(dep) /\ UNCHANGED colour
            /\ errors' = IF colour[dep] = 1 THEN errors \cup {last.name} ELSE errors
        BY <1>5 DEF Follow
    <2>3. path \in Seq(PathRecord) /\ Len(path) \in 1 .. Len(path) /\ last \in PathRecord
        BY <2>1, LastOfPath
    <2>4. dep \in Names /\ last.name \in Names
        BY <2>2, <2>3
    <2>5. rest(dep) \in Seq(PathRecord)
        <3>1. [last EXCEPT !.left = @ \ {dep}] \in PathRecord
            BY <2>3
        <3>2. rest(dep) = [path EXCEPT ![Len(path)] = [last EXCEPT !.left = @ \ {dep}]]
            OBVIOUS
        <3> HIDE DEF rest, last, PathRecord
        <3> QED BY <2>3, <3>1, <3>2, ExceptSeq
    <2>6. colour' \in [Names -> 0 .. 2] /\ path' \in Seq(PathRecord)
        BY <1>3, <2>2, <2>4, <2>5 DEF TypeOK, CheckingOK
    <2>7. CheckingOK'
        BY <2>2, <2>4, <2>6 DEF TypeOK, CheckingOK
    <2>8. CallOK'
        BY <2>1, UnchangedTypes DEF Phases
    <2> QED BY <2>1, <2>7, <2>8, UnchangedTypes DEF TypeOK
<1>6. CASE Leave
    <2>1. /\ pc = "cycles" /\ path # <<>>
          /\ colour' = [colour EXCEPT ![path[Len(path)].name] = 2]
          /\ path' = SubSeq(path, 1, Len(path) - 1)
          /\ UNCHANGED <<fixed, call, pc, outcome, ignored, loading, program, errors, spreading>>
        BY <1>6 DEF Leave
    <2>2. path \in Seq(PathRecord) /\ Len(path) \in 1 .. Len(path) /\ path[Len(path)].name \in Names
        BY <2>1, LastOfPath
    <2>3. path' \in Seq(PathRecord)
        <3>1. Len(path) \in Nat
            BY <2>2, LenProperties
        <3>2. ASSUME NEW i \in 1 .. (Len(path) - 1) PROVE path[i] \in PathRecord
            <4>1. i \in 1 .. Len(path)
                BY <3>1
            <4> QED BY <2>2, <4>1, ElementOfSeq
        <3> QED BY <2>1, <3>1, <3>2, SubSeqProperties
    <2>5. CheckingOK'
        BY <2>1, <2>2, <2>3 DEF TypeOK, CheckingOK
    <2>4. CallOK'
        BY <2>1, UnchangedTypes DEF Phases
    <2> QED BY <2>1, <2>4, <2>5, UnchangedTypes DEF TypeOK
<1>7. CASE ValidateRules
    <2>1. CallOK' /\ pc' # "include"
          /\ UNCHANGED <<fixed, ignored, loading, program, colour, path, spreading>>
        BY <1>7, UnchangedTypes DEF ValidateRules, Goto, Phases
    <2>2. CheckingOK'
        BY <1>7, KeptIsTyped DEF ValidateRules, CheckingOK, TypeOK
    <2> QED BY <2>1, <2>2, UnchangedTypes DEF TypeOK
<1> QED BY <1>1, <1>2, <1>4, <1>5, <1>6, <1>7

\* Records of rules of the program.
LEMMA RecordingKeepsTypes ==
    ASSUME TypeOK, NEW places \in SUBSET kept
    PROVE  Recorded(ignored, rules, places) \subseteq IgnoredRecord
<1>1. ignored \in SUBSET IgnoredRecord /\ rules \in Seq(SourceRule) /\ places \in SUBSET DOMAIN rules
    BY DEF TypeOK, IgnoredOK, ProgramOK, IgnoredRecord
<1> QED BY <1>1, RecordedIsTyped

LEMMA StartPassIsTyped ==
    ASSUME NEW known, StartPass(known), back' \in {"validate", "generate"}
    PROVE  SpreadingOK'
<1>1. at' \in Nat \ {0}
    BY DEF StartPass
<1>2. changed' \in BOOLEAN /\ omitAll' \in BOOLEAN
    BY Zenon DEF StartPass
<1> QED BY <1>1, <1>2, Zenon DEF SpreadingOK

\* Judge and Generate begin to spread the omission of some rules.
LEMMA OmitKeepsTypes ==
    ASSUME TypeOK, pc # "idle", NEW places \in SUBSET kept, NEW label \in {"validate", "generate"},
           ignored' = Recorded(ignored, rules, places), StartPass(ignored'),
           back' = label, Goto("propagate"), UNCHANGED <<loading, program, checking>>
    PROVE  TypeOK'
<1>1. IgnoredOK'
    BY RecordingKeepsTypes DEF IgnoredOK, IgnoredRecord
<1>2. SpreadingOK'
    BY StartPassIsTyped
<1>3. CallOK' /\ UNCHANGED fixed /\ pc' # "include"
    BY UnchangedTypes DEF Goto, Phases
<1> QED BY <1>1, <1>2, <1>3, UnchangedTypes DEF TypeOK

LEMMA OutcomeKeepsTypes ==
    ASSUME TypeOK,
           Judge \/ Propagate \/ NextPass \/ Filter \/ CodeGen \/ Generate \/ Finish \/ Cancel
    PROVE  TypeOK'
<1>1. CASE Judge
    <2>1. CASE errors = {} /\ ~BadVariable
        <3>1. pc = "judge" /\ Goto("codegen") /\ UNCHANGED <<ignored, loading, program, checking, spreading>>
            BY <1>1, <2>1 DEF Judge
        <3>2. CallOK' /\ UNCHANGED fixed /\ pc' # "include"
            BY <3>1, UnchangedTypes DEF Goto, Phases
        <3> QED BY <3>1, <3>2, UnchangedTypes DEF TypeOK
    <2>2. CASE ~(errors = {} /\ ~BadVariable) /\ (~resilient \/ BadVariable)
        BY <1>1, <2>2, ReturnKeepsTypes, UnchangedTypes DEF Judge
    <2>3. CASE ~(errors = {} /\ ~BadVariable) /\ ~(~resilient \/ BadVariable)
        <3>1. pc = "judge"
            BY <1>1 DEF Judge
        <3> QED BY <1>1, <2>3, <3>1, OmitKeepsTypes DEF Judge
    <2> QED BY <2>1, <2>2, <2>3
<1>2. CASE Propagate
    <2>1. /\ pc = "propagate" /\ at' = at + 1
          /\ ignored' = ignored \/ (at \in kept /\ ignored' = Recorded(ignored, rules, {at}))
          /\ changed' \in BOOLEAN
          /\ UNCHANGED <<fixed, call, pc, outcome, loading, program, checking, omitAll, back>>
        BY <1>2, Zenon DEF Propagate, TypeOK, SpreadingOK
    <2>2. IgnoredOK'
        BY <2>1, RecordingKeepsTypes DEF TypeOK, IgnoredOK, IgnoredRecord
    <2>3. SpreadingOK'
        <3>1. at' \in Nat \ {0}
            BY <2>1 DEF TypeOK, SpreadingOK
        <3>2. omitAll' \in BOOLEAN /\ back' \in {"validate", "generate"}
            BY <2>1, Zenon DEF TypeOK, SpreadingOK
        <3> QED BY <2>1, <3>1, <3>2, Zenon DEF SpreadingOK
    <2>4. CallOK'
        BY <2>1, UnchangedTypes DEF Phases
    <2> QED BY <2>1, <2>2, <2>3, <2>4, UnchangedTypes DEF TypeOK
<1>3. CASE NextPass
    <2>1. /\ pc = "propagate" /\ StartPass(ignored)
          /\ UNCHANGED <<fixed, call, pc, outcome, ignored, loading, program, checking, back>>
        BY <1>3 DEF NextPass
    <2>2. SpreadingOK'
        BY <2>1, StartPassIsTyped DEF TypeOK, SpreadingOK
    <2>3. CallOK'
        BY <2>1, UnchangedTypes DEF Phases
    <2> QED BY <2>1, <2>2, <2>3, UnchangedTypes DEF TypeOK
<1>4. CASE Filter
    <2>1. /\ pc = "propagate" /\ Goto(back) /\ kept' \subseteq kept
          /\ UNCHANGED <<ignored, loading, rules, checking, spreading>>
        BY <1>4 DEF Filter
    <2>2. ProgramOK'
        BY <2>1 DEF TypeOK, ProgramOK
    <2>3. pc' \in {"validate", "generate"} /\ UNCHANGED <<fixed, call, outcome>>
        BY <2>1 DEF Goto, TypeOK, SpreadingOK
    <2>4. CallOK'
        BY <2>1, <2>3, UnchangedTypes DEF Phases
    <2> QED BY <2>1, <2>2, <2>3, <2>4, UnchangedTypes DEF TypeOK
<1>5. CASE CodeGen
    <2>1. CallOK' /\ pc' # "include"
        BY <1>5, UnchangedTypes DEF CodeGen, Goto, Phases
    <2> QED BY <1>5, <2>1, UnchangedTypes DEF CodeGen, Goto, TypeOK
<1>6. CASE Generate
    <2>1. CASE Unable = {}
        <3>1. pc = "generate" /\ Goto("finish") /\ UNCHANGED <<ignored, loading, program, checking, spreading>>
            BY <1>6, <2>1 DEF Generate
        <3>2. CallOK' /\ UNCHANGED fixed /\ pc' # "include"
            BY <3>1, UnchangedTypes DEF Goto, Phases
        <3> QED BY <3>1, <3>2, UnchangedTypes DEF TypeOK
    <2>2. CASE Unable # {} /\ ~resilient
        BY <1>6, <2>2, ReturnKeepsTypes, UnchangedTypes DEF Generate
    <2>3. CASE Unable # {} /\ resilient
        <3>1. pc = "generate" /\ First(Unable) \in SUBSET kept
            BY <1>6 DEF Generate, First, Unable
        <3> QED BY <1>6, <2>3, <3>1, OmitKeepsTypes DEF Generate
    <2> QED BY <2>1, <2>2, <2>3
<1>7. CASE Finish
    BY <1>7, ReturnKeepsTypes, UnchangedTypes DEF Finish
<1>8. CASE Cancel
    BY <1>8, ReturnKeepsTypes, UnchangedTypes DEF Cancel
<1> QED BY <1>1, <1>2, <1>3, <1>4, <1>5, <1>6, <1>7, <1>8

\* The state of the compiler always has its shape.
THEOREM AssemblyTypesHold == Spec => []TypeOK
<1>1. Init => TypeOK
    <2> SUFFICES ASSUME Init PROVE TypeOK
        OBVIOUS
    <2>1. FixedOK /\ IgnoredOK
        BY DEF Init, FixedOK, IgnoredOK
    <2>2. CallOK
        BY AssemblyAssumption DEF Init, CallOK, Phases
    <2>3. LoadingOK /\ ProgramOK
        BY EmptySeq DEF Init, LoadingOK, ProgramOK
    <2>4. CheckingOK
        BY EmptySeq DEF Init, CheckingOK, NotVisited
    <2>5. SpreadingOK
        <3>1. at \in Nat \ {0} /\ back \in {"validate", "generate"}
            BY DEF Init
        <3>2. changed \in BOOLEAN /\ omitAll \in BOOLEAN
            BY Zenon DEF Init
        <3> QED BY <3>1, <3>2, Zenon DEF SpreadingOK
    <2> QED BY <2>1, <2>2, <2>3, <2>4, <2>5 DEF TypeOK
<1>2. TypeOK /\ [Next]_vars => TypeOK'
    <2> SUFFICES ASSUME TypeOK, [Next]_vars PROVE TypeOK'
        OBVIOUS
    <2>1. CASE Next
        BY <2>1, CallsKeepTypes, LoadingKeepsTypes, ValidationKeepsTypes, OutcomeKeepsTypes
        DEF Next, Step
    <2>2. CASE UNCHANGED vars
        <3>1. CallOK' /\ LoadingOK'
            BY <2>2 DEF vars, call, loading, TypeOK, CallOK, LoadingOK
        <3> QED BY <2>2, <3>1, UnchangedTypes DEF vars, TypeOK
    <2> QED BY <2>1, <2>2
<1> QED BY <1>1, <1>2, PTL DEF Spec

---------------------------------------------------------------------------
(* No file is opened inside itself. *)

\* Every action but the two that open and close an included file leaves the open files
\* alone, forgets them, or opens the main file.
LEMMA OtherActionsOpenNothing ==
    ASSUME [Next]_vars, ~OpenInclude, ~CloseInclude
    PROVE  frames' = frames \/ frames' = <<>> \/ \E f : frames' = <<f>>
<1> USE DEF Return, Forget, loading
<1>1. CASE \E file \in Files : CompileSource(file)
    BY <1>1 DEF CompileSource
<1>2. CASE \E name \in Paths : CompileFile(name)
    BY <1>2 DEF CompileFile
<1>3. CASE ResetStats \/ ParseMain \/ Assembled \/ ProcessImports
    BY <1>3 DEF ResetStats, ParseMain, Assembled, ProcessImports
<1>4. CASE Semantics \/ CollectSymbols \/ Visit \/ Follow \/ Leave \/ ValidateRules
    BY <1>4 DEF Semantics, CollectSymbols, Visit, Follow, Leave, ValidateRules
<1>5. CASE Judge \/ Propagate \/ NextPass \/ Filter
    BY <1>5 DEF Judge, Propagate, NextPass, Filter
<1>6. CASE CodeGen \/ Generate \/ Finish \/ Cancel
    BY <1>6 DEF CodeGen, Generate, Finish, Cancel
<1>7. CASE UNCHANGED vars
    BY <1>7 DEF vars
<1> QED BY <1>1, <1>2, <1>3, <1>4, <1>5, <1>6, <1>7 DEF Next, Step

\* NoFileOpenTwice: the include statements of a finite set of files are followed finitely
\* deep, whatever they say.
THEOREM IncludesAreNotCircular == Spec => []NoFileOpenTwice
<1>1. Init => NoFileOpenTwice
    BY EmptySeq DEF Init, NoFileOpenTwice
<1>2. TypeOK /\ NoFileOpenTwice /\ [Next]_vars => NoFileOpenTwice'
    <2> SUFFICES ASSUME TypeOK, NoFileOpenTwice, [Next]_vars PROVE NoFileOpenTwice'
        OBVIOUS
    <2>1. CASE OpenInclude
        <3> DEFINE file == Resolve[Top.dir][Head(Top.todo)]
                   opened == [frames EXCEPT ![Len(frames)].todo = Tail(@)]
        <3>1. CASE frames' = <<>>
            BY <3>1, EmptySeq DEF NoFileOpenTwice
        <3>2. CASE frames' # <<>>
            <4>1. /\ pc = "include" /\ file \notin ActivePaths
                  /\ frames' = Append(opened, Frame(DirOf[file], file))
                BY <2>1, <3>2 DEF OpenInclude, Return, Forget
            <4>2. frames \in Seq(FrameRecord) /\ Len(frames) \in Nat \ {0}
                BY <4>1, TopIsTyped
            <4>3. /\ Len(frames') = Len(frames) + 1
                  /\ \A i \in 1 .. Len(frames) : frames'[i].file = frames[i].file
                  /\ frames'[Len(frames) + 1].file = file
                BY <4>1, <4>2 DEF Frame, FrameRecord
            <4>4. \A i \in 2 .. Len(frames) : frames[i].file # file
                BY <4>1 DEF ActivePaths
            <4> HIDE DEF file, opened
            <4> QED BY <4>2, <4>3, <4>4 DEF NoFileOpenTwice
        <3> QED BY <3>1, <3>2
    <2>2. CASE CloseInclude
        <3>1. /\ pc = "include" /\ Len(frames) > 1
              /\ frames' = [SubSeq(frames, 1, Len(frames) - 1)
                                EXCEPT ![Len(frames) - 1].rules = @ \o Top.rules]
            BY <2>2 DEF CloseInclude
        <3>2. frames \in Seq(FrameRecord) /\ Len(frames) \in Nat \ {0}
            BY <3>1, TopIsTyped
        <3> DEFINE outer == SubSeq(frames, 1, Len(frames) - 1)
        <3>3. /\ outer \in Seq(FrameRecord) /\ Len(outer) = Len(frames) - 1
              /\ \A i \in 1 .. (Len(frames) - 1) : outer[i] = frames[i]
            BY <3>1, <3>2
        <3>4. /\ Len(frames') = Len(frames) - 1
              /\ \A i \in 1 .. (Len(frames) - 1) : frames'[i].file = frames[i].file
            <4> DEFINE last == Len(frames) - 1
                       longer == [outer[last] EXCEPT !.rules = @ \o Top.rules]
            <4>1. frames' = [outer EXCEPT ![last] = longer]
                BY <3>1
            <4>2. last \in 1 .. Len(outer)
                BY <3>1, <3>2, <3>3
            <4>3. outer[last] \in FrameRecord
                BY <3>3, <4>2, ElementOfSeq
            <4>4. longer \in FrameRecord /\ longer.file = outer[last].file
                BY <3>2, <4>3, TopIsTyped, <3>1, ConcatProperties DEF FrameRecord
            <4> HIDE DEF outer, last, longer
            <4>5. Len(frames') = Len(outer) /\ \A i \in 1 .. Len(outer) :
                        frames'[i] = IF i = last THEN longer ELSE outer[i]
                BY <3>3, <4>1, <4>2, <4>4, ExceptSeq
            <4> QED BY <3>3, <4>4, <4>5
        <3> QED BY <3>1, <3>2, <3>4 DEF NoFileOpenTwice
    <2>3. CASE ~OpenInclude /\ ~CloseInclude
        BY <2>3, OtherActionsOpenNothing, EmptySeq DEF NoFileOpenTwice
    <2> QED BY <2>1, <2>2, <2>3
<1> QED BY <1>1, <1>2, AssemblyTypesHold, PTL DEF Spec

---------------------------------------------------------------------------
(* A compiled program is closed. *)

DuplicateNames ==
    {rules[i].name : i \in {j \in kept : \E k \in kept : k < j /\ rules[k].name = rules[j].name}}
DanglingNames == {rules[i].name : i \in {j \in kept : ~(Refs(rules[j]) \subseteq KeptNames)}}

\* What validation has found out when it is judged.
ErrorsAreComplete ==
    /\ pc = "cycles" => DuplicateNames \subseteq errors
    /\ pc = "judge" => DuplicateNames \cup DanglingNames \subseteq errors

\* The rules a pass has gone over without a change name no ignored rule, unless they are
\* ignored themselves.
Swept ==
    pc = "propagate" /\ ~changed =>
        \A i \in kept : i < at /\ rules[i].name \notin IgnoredNames =>
            Refs(rules[i]) \cap IgnoredNames = {}

\* From the end of validation on the program is closed; while the omission of a rule that
\* cannot be generated spreads, it is closed with the ignored rules still in it.
FromCodeGen ==
    \/ pc \in {"codegen", "generate", "finish"}
    \/ pc = "propagate" /\ back = "generate"
    \/ pc = "idle" /\ outcome = "ok"

ClosureInv == ErrorsAreComplete /\ Swept /\ (FromCodeGen => Closed)

\* Without an error a program is closed.
LEMMA NoErrorsMeanClosed ==
    ASSUME ProgramOK, DuplicateNames = {}, DanglingNames = {}
    PROVE  Closed
<1>1. \A i \in kept : Refs(rules[i]) \subseteq KeptNames
    BY DEF DanglingNames
<1>2. ASSUME NEW i \in kept, NEW j \in kept, rules[i].name = rules[j].name, i # j PROVE FALSE
    <2>1. i \in Nat /\ j \in Nat
        BY KeptIsTyped
    <2>2. i < j \/ j < i
        BY <1>2, <2>1
    <2> QED BY <1>2, <2>2 DEF DuplicateNames
<1> QED BY <1>1, <1>2 DEF Closed

\* The program and where it stands are all the invariant is about.
LEMMA UnchangedClosure ==
    ASSUME ClosureInv, UNCHANGED program, pc' \notin {"cycles", "judge", "propagate"},
           FromCodeGen' => FromCodeGen
    PROVE  ClosureInv'
<1>1. Closed' = Closed
    BY DEF Closed, KeptNames, program
<1> QED BY <1>1 DEF ClosureInv, ErrorsAreComplete, Swept

LEMMA OtherActionsKeepClosure ==
    ASSUME TypeOK, ClosureInv, [Next]_vars,
           ~CollectSymbols, ~Visit, ~Follow, ~Leave, ~ValidateRules,
           ~Judge, ~Propagate, ~NextPass, ~Filter, ~Generate
    PROVE  ClosureInv'
<1>1. CASE \E file \in Files : CompileSource(file)
    BY <1>1 DEF CompileSource, ClosureInv, ErrorsAreComplete, Swept, FromCodeGen
<1>2. CASE \E name \in Paths : CompileFile(name)
    <2>1. \/ pc' = "source"
          \/ pc' = "idle" /\ outcome' = "error"
        BY <1>2 DEF CompileFile
    <2> QED BY <2>1 DEF ClosureInv, ErrorsAreComplete, Swept, FromCodeGen
<1>3. CASE ResetStats \/ ParseMain \/ OpenInclude \/ CloseInclude \/ Assembled \/ ProcessImports
    <2>1. \/ pc' \in {"parse", "include", "imports", "semantics"}
          \/ pc' = "idle" /\ outcome' = "error"
        BY <1>3 DEF ResetStats, ParseMain, OpenInclude, CloseInclude, Assembled, ProcessImports,
                    Return, Goto
    <2> QED BY <2>1 DEF ClosureInv, ErrorsAreComplete, Swept, FromCodeGen
<1>4. CASE Semantics
    BY <1>4 DEF Semantics, Goto, ClosureInv, ErrorsAreComplete, Swept, FromCodeGen
<1>5. CASE CodeGen
    BY <1>5, UnchangedClosure DEF CodeGen, Goto, FromCodeGen
<1>6. CASE Finish
    BY <1>6, UnchangedClosure DEF Finish, Return, FromCodeGen
<1>7. CASE Cancel
    BY <1>7 DEF Cancel, Return, ClosureInv, ErrorsAreComplete, Swept, FromCodeGen
<1>8. CASE UNCHANGED vars
    <2>1. UNCHANGED <<pc, outcome, back, changed, at, errors, rules, kept, ignored>>
        BY <1>8 DEF vars, program, spreading, checking
    <2>2. /\ DuplicateNames' = DuplicateNames /\ DanglingNames' = DanglingNames
          /\ Closed' = Closed /\ IgnoredNames' = IgnoredNames
        BY <2>1 DEF DuplicateNames, DanglingNames, Closed, KeptNames, IgnoredNames
    <2>3. ErrorsAreComplete'
        BY <2>1, <2>2 DEF ClosureInv, ErrorsAreComplete
    <2>4. Swept'
        BY <2>1, <2>2 DEF ClosureInv, Swept
    <2>5. (FromCodeGen => Closed)'
        BY <2>1, <2>2 DEF ClosureInv, FromCodeGen
    <2> QED BY <2>3, <2>4, <2>5 DEF ClosureInv
<1> QED BY <1>1, <1>2, <1>3, <1>4, <1>5, <1>6, <1>7, <1>8 DEF Next, Step

LEMMA ValidationKeepsClosure ==
    ASSUME TypeOK, ClosureInv,
           CollectSymbols \/ Visit \/ Follow \/ Leave \/ ValidateRules
    PROVE  ClosureInv'
<1>1. UNCHANGED program
    BY DEF CollectSymbols, Visit, Follow, Leave, ValidateRules, program
<1>2. DuplicateNames' = DuplicateNames /\ DanglingNames' = DanglingNames
    BY <1>1 DEF DuplicateNames, DanglingNames, KeptNames, program
<1>3. CASE CollectSymbols
    BY <1>2, <1>3 DEF CollectSymbols, Goto, ClosureInv, ErrorsAreComplete, Swept, FromCodeGen,
                      DuplicateNames
<1>4. CASE Visit \/ Follow \/ Leave
    <2>1. pc = "cycles" /\ pc' = "cycles" /\ errors \subseteq errors'
        BY <1>4 DEF Visit, Follow, Leave
    <2> QED BY <1>2, <2>1 DEF ClosureInv, ErrorsAreComplete, Swept, FromCodeGen
<1>5. CASE ValidateRules
    <2>1. pc = "cycles" /\ pc' = "judge" /\ errors \cup DanglingNames \subseteq errors'
        BY <1>5 DEF ValidateRules, Goto, DanglingNames
    <2> QED BY <1>2, <2>1 DEF ClosureInv, ErrorsAreComplete, Swept, FromCodeGen
<1> QED BY <1>3, <1>4, <1>5

\* A pass begins.
LEMMA PassBegins ==
    ASSUME TypeOK, ClosureInv, UNCHANGED program, pc' = "propagate", at' = 1,
           back' = "generate" => Closed
    PROVE  ClosureInv'
<1>1. Closed' = Closed
    BY DEF Closed, KeptNames, program
<1>2. \A i \in kept' : ~(i < at')
    BY KeptIsTyped, LenProperties DEF TypeOK, ProgramOK, program
<1> QED BY <1>1, <1>2 DEF ClosureInv, ErrorsAreComplete, Swept, FromCodeGen

LEMMA OutcomeKeepsClosure ==
    ASSUME TypeOK, ClosureInv, Judge \/ Propagate \/ NextPass \/ Filter \/ Generate
    PROVE  ClosureInv'
<1>1. CASE Judge
    <2>1. CASE errors = {} /\ ~BadVariable
        <3>1. pc = "judge" /\ pc' = "codegen" /\ UNCHANGED program
            BY <1>1, <2>1 DEF Judge, Goto
        <3>2. Closed
            BY <2>1, <3>1, NoErrorsMeanClosed DEF ClosureInv, ErrorsAreComplete, TypeOK
        <3>3. Closed'
            BY <3>1, <3>2 DEF Closed, KeptNames, program
        <3> QED BY <3>1, <3>3 DEF ClosureInv, ErrorsAreComplete, Swept
    <2>2. CASE ~(errors = {} /\ ~BadVariable) /\ (~resilient \/ BadVariable)
        BY <1>1, <2>2 DEF Judge, Return, ClosureInv, ErrorsAreComplete, Swept, FromCodeGen
    <2>3. CASE ~(errors = {} /\ ~BadVariable) /\ ~(~resilient \/ BadVariable)
        BY <1>1, <2>3, PassBegins DEF Judge, Goto, StartPass
    <2> QED BY <2>1, <2>2, <2>3
<1>2. CASE Propagate
    <2> DEFINE doomed == /\ at \in kept
                         /\ rules[at].name \notin IgnoredNames
                         /\ omitAll \/ Refs(rules[at]) \cap IgnoredNames # {}
    <2>1. /\ pc = "propagate" /\ pc' = "propagate" /\ back' = back /\ UNCHANGED program
          /\ at' = at + 1 /\ changed' = (changed \/ doomed)
          /\ ~doomed => ignored' = ignored
        BY <1>2 DEF Propagate
    <2>2. Swept'
        <3> SUFFICES ASSUME ~changed', NEW i \in kept', i < at', rules'[i].name \notin IgnoredNames'
                     PROVE  Refs(rules'[i]) \cap IgnoredNames' = {}
            BY DEF Swept
        <3>1. ~changed /\ ~doomed
            BY <2>1, Zenon
        <3>2. IgnoredNames' = IgnoredNames /\ rules' = rules /\ kept' = kept
            BY <2>1, <3>1 DEF IgnoredNames, program
        <3>3. i \in Nat /\ at \in Nat
            BY <3>2, KeptIsTyped DEF TypeOK, SpreadingOK
        <3>4. CASE i < at
            BY <2>1, <3>1, <3>2, <3>4 DEF ClosureInv, Swept
        <3>5. CASE i = at
            BY <3>1, <3>2, <3>5
        <3> QED BY <2>1, <3>3, <3>4, <3>5
    <2>3. Closed' = Closed
        BY <2>1 DEF Closed, KeptNames, program
    <2> HIDE DEF doomed
    <2> QED BY <2>1, <2>2, <2>3 DEF ClosureInv, ErrorsAreComplete, FromCodeGen
<1>3. CASE NextPass
    <2>1. /\ pc = "propagate" /\ pc' = "propagate" /\ at' = 1 /\ back' = back /\ UNCHANGED program
        BY <1>3 DEF NextPass, StartPass
    <2> QED BY <2>1, PassBegins DEF ClosureInv, FromCodeGen
<1>4. CASE Filter
    <2>1. /\ pc = "propagate" /\ at > Len(rules) /\ ~changed
          /\ kept' = {i \in kept : rules[i].name \notin IgnoredNames}
          /\ pc' = back /\ rules' = rules
        BY <1>4 DEF Filter, Goto
    <2>2. CASE back = "validate"
        BY <2>1, <2>2 DEF ClosureInv, ErrorsAreComplete, Swept, FromCodeGen
    <2>3. CASE back = "generate"
        <3>1. Closed
            BY <2>1, <2>3 DEF ClosureInv, FromCodeGen
        <3>2. ASSUME NEW i \in kept', NEW n \in Refs(rules[i]) PROVE n \in KeptNames'
            <4>1. i \in kept /\ rules[i].name \notin IgnoredNames
                BY <2>1
            <4>2. i < at
                BY <2>1, <4>1, KeptIsTyped, LenProperties DEF TypeOK, ProgramOK, SpreadingOK
            <4>3. n \notin IgnoredNames
                BY <2>1, <3>2, <4>1, <4>2 DEF ClosureInv, Swept
            <4>4. PICK k \in kept : rules[k].name = n
                BY <3>1, <3>2, <4>1 DEF Closed, KeptNames
            <4> QED BY <2>1, <4>3, <4>4 DEF KeptNames
        <3>3. Closed'
            BY <2>1, <3>1, <3>2 DEF Closed
        <3> QED BY <2>1, <2>3, <3>3 DEF ClosureInv, ErrorsAreComplete, Swept
    <2> QED BY <2>2, <2>3 DEF TypeOK, SpreadingOK
<1>5. CASE Generate
    <2>1. Closed /\ pc = "generate"
        BY <1>5 DEF Generate, ClosureInv, FromCodeGen
    <2>2. CASE Unable = {}
        BY <1>5, <2>1, <2>2, UnchangedClosure DEF Generate, Goto, FromCodeGen
    <2>3. CASE Unable # {} /\ ~resilient
        BY <1>5, <2>3 DEF Generate, Return, ClosureInv, ErrorsAreComplete, Swept, FromCodeGen
    <2>4. CASE Unable # {} /\ resilient
        BY <1>5, <2>1, <2>4, PassBegins DEF Generate, Goto, StartPass
    <2> QED BY <2>2, <2>3, <2>4
<1> QED BY <1>1, <1>2, <1>3, <1>4, <1>5

LEMMA ClosureInvHolds == Spec => []ClosureInv
<1>1. Init => ClosureInv
    BY DEF Init, ClosureInv, ErrorsAreComplete, Swept, FromCodeGen
<1>2. TypeOK /\ ClosureInv /\ [Next]_vars => ClosureInv'
    BY OtherActionsKeepClosure, ValidationKeepsClosure, OutcomeKeepsClosure
<1> QED BY <1>1, <1>2, AssemblyTypesHold, PTL DEF Spec

\* CompiledIsClosed: whatever is wrong with which rules, the program that code generation
\* numbers and that a compilation returns has every rule its conditions name, once.
THEOREM ProgramsAreClosed == Spec => []CompiledIsClosed
<1>1. ClosureInv => CompiledIsClosed
    BY DEF ClosureInv, FromCodeGen, CompiledIsClosed
<1> QED BY <1>1, ClosureInvHolds, PTL

---------------------------------------------------------------------------
(* Which rules of a list are sound. *)

NumNames == Cardinality(Names)

LEMMA NumNamesIsNat == IsFiniteSet(Names) /\ NumNames \in Nat
BY AssemblyAssumption, FS_CardinalityType DEF NumNames

\* The recursion of Levels has a solution up to k.
Solves(f, source, k) ==
    f = [m \in 0 .. k |-> IF m = 0 THEN {} ELSE RestsOn(source, f[m - 1])]

LEMMA SolutionExists ==
    ASSUME NEW source, NEW k \in Nat
    PROVE  \E f : Solves(f, source, k)
<1> DEFINE Open == {n \in Nat : ~\E f : Solves(f, source, n)}
<1>1. ASSUME Open # {} PROVE FALSE
    <2>1. PICK n \in Open : \A m \in Open : n <= m
        <3>1. Open \subseteq Nat
            OBVIOUS
        <3> HIDE DEF Open
        <3> QED BY <1>1, <3>1, LeastNumber
    <2>2. CASE n = 0
        <3> DEFINE f == [m \in 0 .. 0 |-> {}]
        <3>1. Solves(f, source, 0)
            <4>1. \A m \in 0 .. 0 : m = 0
                OBVIOUS
            <4> QED BY <4>1 DEF Solves
        <3> QED BY <2>2, <3>1
    <2>3. CASE n # 0
        <3>1. n - 1 \in Nat /\ ~(n <= n - 1)
            BY <2>3
        <3>2. PICK f : Solves(f, source, n - 1)
            BY <2>1, <3>1
        <3> DEFINE g == [m \in 0 .. n |-> IF m = 0 THEN {} ELSE RestsOn(source, f[m - 1])]
                   h == [m \in 0 .. (n - 1) |-> IF m = 0 THEN {} ELSE RestsOn(source, f[m - 1])]
        <3>3. ASSUME NEW m \in 0 .. (n - 1) PROVE g[m] = f[m]
            <4>1. f = h
                BY <3>2 DEF Solves
            <4>2. h[m] = g[m]
                BY <3>1
            <4> QED BY <4>1, <4>2
        <3>4. \A m \in 0 .. n : m # 0 => m - 1 \in 0 .. (n - 1)
            BY <3>1
        <3>5. g = [m \in 0 .. n |-> IF m = 0 THEN {} ELSE RestsOn(source, g[m - 1])]
            <4> HIDE DEF g
            <4>1. g = [m \in 0 .. n |-> IF m = 0 THEN {} ELSE RestsOn(source, f[m - 1])]
                BY DEF g
            <4> QED BY <3>3, <3>4, <4>1
        <3> QED BY <2>1, <3>5 DEF Solves
    <2> QED BY <2>2, <2>3
<1> QED BY <1>1

\* Level by level, from nothing.
LEMMA LevelsUnfold ==
    ASSUME NEW source
    PROVE  /\ Levels(source)[0] = {}
           /\ \A k \in 1 .. NumNames :
                 Levels(source)[k] = RestsOn(source, Levels(source)[k - 1])
           /\ Grounded(source) = Levels(source)[NumNames]
<1> DEFINE L == CHOOSE f : Solves(f, source, NumNames)
<1>1. Levels(source) = L
    BY DEF Levels, Solves, NumNames
<1>2. Solves(L, source, NumNames)
    BY SolutionExists, NumNamesIsNat
<1> HIDE DEF L
<1>3. L = [m \in 0 .. NumNames |-> IF m = 0 THEN {} ELSE RestsOn(source, L[m - 1])]
    BY <1>2 DEF Solves
<1>4. 0 \in 0 .. NumNames /\ \A k \in 1 .. NumNames : k \in 0 .. NumNames /\ k # 0
    BY NumNamesIsNat
<1>5. L[0] = {}
    BY <1>3, <1>4
<1>6. \A k \in 1 .. NumNames : L[k] = RestsOn(source, L[k - 1])
    BY <1>3, <1>4
<1> QED BY <1>1, <1>5, <1>6 DEF Grounded, NumNames

LEMMA RestsOnGrows ==
    ASSUME NEW source, NEW A, NEW B, A \subseteq B
    PROVE  RestsOn(source, A) \subseteq RestsOn(source, B)
BY DEF RestsOn

LEMMA LevelsGrow ==
    ASSUME NEW source, NEW k \in 0 .. NumNames
    PROVE  /\ Levels(source)[k] \subseteq Names
           /\ Levels(source)[k] \subseteq RestsOn(source, Levels(source)[k])
<1> DEFINE L == Levels(source)
           Open == {n \in Nat : n <= NumNames /\ ~(L[n] \subseteq RestsOn(source, L[n]))}
<1> HIDE DEF L
<1>1. ASSUME NEW n \in 0 .. NumNames, n # 0 PROVE n - 1 \in 0 .. NumNames /\ L[n] = RestsOn(source, L[n - 1])
    BY <1>1, LevelsUnfold, NumNamesIsNat DEF L
<1>2. L[k] \subseteq Names
    <2>1. CASE k = 0
        BY <2>1, LevelsUnfold DEF L
    <2>2. CASE k # 0
        BY <1>1, <2>2 DEF RestsOn
    <2> QED BY <2>1, <2>2
<1>3. ASSUME Open # {} PROVE FALSE
    <2>1. PICK n \in Open : \A m \in Open : n <= m
        <3>1. Open \subseteq Nat
            OBVIOUS
        <3> HIDE DEF Open
        <3> QED BY <1>3, <3>1, LeastNumber
    <2>2. CASE n = 0
        BY <2>1, <2>2, LevelsUnfold DEF L
    <2>3. CASE n # 0
        <3>1. n - 1 \in Nat /\ n - 1 <= NumNames /\ ~(n <= n - 1)
            BY <2>1, <2>3, NumNamesIsNat
        <3>2. L[n - 1] \subseteq RestsOn(source, L[n - 1])
            BY <2>1, <3>1
        <3>3. L[n] = RestsOn(source, L[n - 1])
            BY <1>1, <2>1, <2>3, NumNamesIsNat
        <3> QED BY <2>1, <3>2, <3>3, RestsOnGrows
    <2> QED BY <2>2, <2>3
<1>4. k \in Nat /\ k <= NumNames
    BY NumNamesIsNat
<1> QED BY <1>2, <1>3, <1>4 DEF L

\* Each level has a name more, until one rests on itself: the last one does.
LEMMA GroundedRestsOnItself ==
    ASSUME NEW source
    PROVE  RestsOn(source, Grounded(source)) = Grounded(source)
<1> DEFINE L == Levels(source)
           Settled(n) == L[n] = RestsOn(source, L[n])
           Open == {n \in Nat : n <= NumNames /\ ~Settled(n) /\ ~(Cardinality(L[n]) >= n)}
<1> HIDE DEF L
<1>1. ASSUME NEW n \in Nat, n <= NumNames, n # 0
      PROVE  /\ n - 1 \in Nat /\ n - 1 <= NumNames /\ ~(n <= n - 1)
             /\ L[n] = RestsOn(source, L[n - 1])
    BY <1>1, LevelsUnfold, NumNamesIsNat DEF L
<1>2. ASSUME NEW n \in Nat, n <= NumNames
      PROVE  /\ L[n] \subseteq Names /\ L[n] \subseteq RestsOn(source, L[n])
             /\ IsFiniteSet(L[n]) /\ Cardinality(L[n]) \in Nat
    <2>1. L[n] \subseteq Names /\ L[n] \subseteq RestsOn(source, L[n])
        BY <1>2, LevelsGrow, NumNamesIsNat DEF L
    <2> QED BY <2>1, NumNamesIsNat, FS_Subset, FS_CardinalityType
<1>3. ASSUME Open # {} PROVE FALSE
    <2>1. PICK n \in Open : \A m \in Open : n <= m
        <3>1. Open \subseteq Nat
            OBVIOUS
        <3> HIDE DEF Open
        <3> QED BY <1>3, <3>1, LeastNumber
    <2>2. n # 0
        BY <1>2, <2>1
    <2>3. /\ n - 1 \in Nat /\ n - 1 <= NumNames /\ L[n] = RestsOn(source, L[n - 1])
          /\ n - 1 \notin Open
        BY <1>1, <2>1, <2>2
    <2>4. CASE Settled(n - 1)
        BY <2>1, <2>3, <2>4
    <2>5. CASE ~Settled(n - 1)
        <3>1. Cardinality(L[n - 1]) >= n - 1
            BY <2>3, <2>5
        <3>2. L[n - 1] \subseteq L[n] /\ L[n - 1] # L[n]
            BY <1>2, <2>3, <2>5
        <3>3. Cardinality(L[n - 1]) < Cardinality(L[n])
            BY <1>2, <2>1, <2>3, <3>2, FS_Subset
        <3> QED BY <1>2, <2>1, <2>3, <3>1, <3>3
    <2> QED BY <2>4, <2>5
<1>4. CASE Settled(NumNames)
    BY <1>4, LevelsUnfold DEF L
<1>5. CASE ~Settled(NumNames)
    <2>1. NumNames \in Nat /\ NumNames <= NumNames
        BY NumNamesIsNat
    <2>2. Cardinality(L[NumNames]) >= NumNames
        BY <1>3, <1>5, <2>1
    <2>3. L[NumNames] = Names
        <3> SUFFICES ASSUME L[NumNames] # Names PROVE FALSE
            OBVIOUS
        <3> DEFINE last == L[NumNames]
        <3>3. last \subseteq Names /\ last # Names
            BY <1>2, <2>1
        <3>1. Cardinality(last) < Cardinality(Names)
            <4> HIDE DEF last
            <4>1. last \in SUBSET Names /\ IsFiniteSet(last)
                BY <3>3, NumNamesIsNat, FS_Subset
            <4>2. /\ Cardinality(last) \in Nat /\ Cardinality(Names) \in Nat
                  /\ Cardinality(last) <= Cardinality(Names)
                  /\ Cardinality(last) # Cardinality(Names)
                BY <3>3, <4>1, NumNamesIsNat, FS_Subset, FS_CardinalityType
            <4> QED BY <4>2
        <3>2. Cardinality(Names) = NumNames /\ Cardinality(L[NumNames]) \in Nat
            BY <1>2, <2>1 DEF NumNames
        <3> QED BY <2>1, <2>2, <3>1, <3>2
    <2>4. RestsOn(source, L[NumNames]) \subseteq Names
        BY DEF RestsOn
    <2> QED BY <1>2, <2>1, <2>3, <2>4, LevelsUnfold DEF L
<1> QED BY <1>4, <1>5

\* Names none of which rests on the others are not grounded, as those of a cycle.
LEMMA NoneGrounded ==
    ASSUME NEW source, NEW S, S \cap RestsOn(source, Names \ S) = {}
    PROVE  S \cap Grounded(source) = {}
<1> DEFINE L == Levels(source)
           Open == {n \in Nat : n <= NumNames /\ S \cap L[n] # {}}
<1> HIDE DEF L
<1>1. ASSUME Open # {} PROVE FALSE
    <2>1. PICK n \in Open : \A m \in Open : n <= m
        <3>1. Open \subseteq Nat
            OBVIOUS
        <3> HIDE DEF Open
        <3> QED BY <1>1, <3>1, LeastNumber
    <2>2. CASE n = 0
        BY <2>1, <2>2, LevelsUnfold DEF L
    <2>3. CASE n # 0
        <3>1. n - 1 \in Nat /\ n - 1 <= NumNames /\ ~(n <= n - 1) /\ n \in 1 .. NumNames
              /\ n - 1 \in 0 .. NumNames
            BY <2>1, <2>3, NumNamesIsNat
        <3>2. S \cap L[n - 1] = {}
            BY <2>1, <3>1
        <3>3. L[n - 1] \subseteq Names \ S
            BY <3>1, <3>2, LevelsGrow DEF L
        <3>4. L[n] = RestsOn(source, L[n - 1])
            BY <3>1, LevelsUnfold DEF L
        <3> QED BY <2>1, <3>3, <3>4, RestsOnGrows
    <2> QED BY <2>2, <2>3
<1>2. NumNames \in Nat /\ NumNames <= NumNames
    BY NumNamesIsNat
<1>3. Grounded(source) = L[NumNames]
    BY LevelsUnfold DEF L
<1> QED BY <1>1, <1>2, <1>3

\* A sound name is that of one rule, which is valid and names sound rules.
LEMMA SoundRestsOnItself ==
    ASSUME NEW source
    PROVE  /\ Sound(source) \subseteq Grounded(source)
           /\ Sound(source) \subseteq RestsOn(source, Sound(source))
BY GroundedRestsOnItself DEF Sound, RestsOn

---------------------------------------------------------------------------
(* A program keeps exactly the sound rules. *)

\* What the files may hold.  A rule that does not parse fails alone: no rule that parses
\* has its name, and it is no "private global" one (the error of another global rule is one
\* of the program); and rules of one name are all global or none.
RulesOn(d) == UNION {{d[file].rules[i] : i \in DOMAIN d[file].rules} : file \in Files}
FailuresAreApart ==
    \A d \in Disks : \A one, other \in RulesOn(d) :
        /\ Unparsed(one) => ~(one.global /\ one.privateFirst)
        /\ one.name = other.name =>
              (Unparsed(one) <=> Unparsed(other)) /\ one.global = other.global

\* A strict compiler does not get that far.
FailuresMayBeApart == resilient => FailuresAreApart

LEMMA FixedStays ==
    ASSUME [Next]_vars
    PROVE  UNCHANGED fixed
BY DEF Next, Step, vars, CompileSource, CompileFile, ResetStats, ParseMain, OpenInclude,
       CloseInclude, Assembled, ProcessImports, Semantics, CollectSymbols, Visit, Follow, Leave,
       ValidateRules, Judge, Propagate, NextPass, Filter, CodeGen, Generate, Finish, Cancel,
       Goto, Return

\* While files are opened, the ignored rules are those that did not parse.
OpenInv ==
    /\ pc = "parse" => ignored = {}
    /\ ~resilient => ignored = {}
    /\ pc = "include" =>
          /\ \A k \in DOMAIN frames : \A i \in DOMAIN frames[k].rules :
                /\ frames[k].rules[i] \in RulesOn(disk)
                /\ Unparsed(frames[k].rules[i]) =>
                      frames[k].rules[i].name \in IgnoredNames /\ ~frames[k].rules[i].global
          /\ \A ig \in ignored : \E k \in DOMAIN frames : \E i \in DOMAIN frames[k].rules :
                /\ frames[k].rules[i].name = ig.name /\ frames[k].rules[i].global = ig.global
                /\ Unparsed(frames[k].rules[i])

\* The rules of the whole tree are there.
Validating == pc \in {"imports", "semantics", "validate", "cycles", "judge"}
Generating == pc \in {"codegen", "generate", "finish"} \/ (pc = "idle" /\ outcome = "ok")
Loaded == Validating \/ Generating \/ pc = "propagate"

\* What is ignored is unsound, and what did not parse is ignored.
IgnoredInv ==
    Loaded =>
        /\ \A i \in DOMAIN rules :
              rules[i] \in RulesOn(disk) /\ (Unparsed(rules[i]) => rules[i].name \in IgnoredNames)
        /\ \A ig \in ignored :
              /\ ig.name \notin Sound(rules)
              /\ \E i \in DOMAIN rules : rules[i].name = ig.name /\ rules[i].global = ig.global

AGlobalIsIgnored == \E ig \in ignored : ig.global

\* The rest is kept, nothing beside an ignored global rule; while an omission spreads,
\* rules that are ignored are still there, but not behind the pass.
KeptInv ==
    /\ Validating \/ Generating =>
          /\ kept = {i \in DOMAIN rules : rules[i].name \notin IgnoredNames}
          /\ AGlobalIsIgnored => kept = {}
    /\ pc = "propagate" =>
          /\ {i \in DOMAIN rules : rules[i].name \notin IgnoredNames} \subseteq kept
          /\ omitAll => AGlobalIsIgnored
          /\ ~changed => /\ AGlobalIsIgnored => omitAll
                         /\ omitAll => \A i \in kept : i < at => rules[i].name \in IgnoredNames

\* The search for cycles: the grey names are the path, along references, and an error is
\* of a rule that is not sound.
PathNames == {path[k].name : k \in DOMAIN path}
Black == {n \in Names : colour[n] = 2}
PathInv ==
    /\ pc \in {"cycles", "judge"} => errors \cap Sound(rules) = {}
    /\ pc = "cycles" =>
          /\ \A n \in Names : colour[n] = 1 <=> n \in PathNames
          /\ \A k, l \in DOMAIN path : path[k].name = path[l].name => k = l
          /\ \A k \in DOMAIN path : path[k].left \subseteq Dependencies(path[k].name)
          /\ \A k, l \in DOMAIN path : l = k + 1 => path[l].name \in Dependencies(path[k].name)

\* A set of names without a circle.
Acyclic(S) == \A T \in SUBSET S : T # {} => \E n \in T : Dependencies(n) \cap T = {}

\* Without an error the finished names are closed and have no circle.
OrderInv ==
    /\ pc = "cycles" /\ errors = {} =>
          /\ \A k \in DOMAIN path : \A dep \in Dependencies(path[k].name) \ path[k].left :
                dep \in Black \/ \E l \in DOMAIN path : l = k + 1 /\ path[l].name = dep
          /\ \A n \in Black : Dependencies(n) \subseteq Black
          /\ Acyclic(Black)
    /\ pc = "judge" /\ errors = {} =>
          /\ Acyclic(KeptNames)
          /\ \A i \in kept : rules[i].state # "wrong"

\* Hence a program that is generated has no circle of references.
WellFounded ==
    \A T \in SUBSET kept : T # {} => \E i \in T : \A j \in T : rules[j].name \notin Refs(rules[i])
OrderedInv ==
    /\ FromCodeGen => WellFounded /\ \A i \in kept : rules[i].state # "wrong"
    /\ pc = "finish" \/ (pc = "idle" /\ outcome = "ok") =>
          \A i \in kept : rules[i].state # "unable"

SoundInv ==
    OpenInv /\ IgnoredInv /\ KeptInv /\ PathInv /\ OrderInv /\ OrderedInv

\* recordIgnoredRule adds the names of the given places and nothing else.
LEMMA RecordedNames ==
    ASSUME NEW known, NEW seq, NEW places, places \subseteq Nat
    PROVE  /\ known \subseteq Recorded(known, seq, places)
           /\ \A ig \in Recorded(known, seq, places) :
                 ig \in known \/ \E i \in places : ig.name = seq[i].name /\ ig.global = seq[i].global
           /\ \A i \in places : \E ig \in Recorded(known, seq, places) : ig.name = seq[i].name
<1> DEFINE Record(i) == [name |-> seq[i].name, global |-> seq[i].global]
           New == {j \in places : /\ \A ig \in known : ig.name # seq[j].name
                                  /\ \A k \in places : k < j => seq[k].name # seq[j].name}
<1>1. Recorded(known, seq, places) = known \cup {Record(i) : i \in New}
    BY DEF Recorded
<1>2. ASSUME NEW i \in places
      PROVE  \E ig \in Recorded(known, seq, places) : ig.name = seq[i].name
    <2>1. CASE \E ig \in known : ig.name = seq[i].name
        BY <1>1, <2>1
    <2>2. CASE \A ig \in known : ig.name # seq[i].name
        <3> DEFINE Same == {j \in places : seq[j].name = seq[i].name}
        <3>1. PICK j \in Same : \A k \in Same : j <= k
            <4>1. Same \subseteq Nat /\ Same # {}
                OBVIOUS
            <4> HIDE DEF Same
            <4> QED BY <4>1, LeastNumber
        <3>2. j \in New
            BY <2>2, <3>1
        <3>3. Record(j).name = seq[i].name
            BY <3>1
        <3> QED BY <1>1, <3>2, <3>3
    <2> QED BY <2>1, <2>2
<1>3. ASSUME NEW ig \in Recorded(known, seq, places)
      PROVE  ig \in known \/ \E i \in places : ig.name = seq[i].name /\ ig.global = seq[i].global
    BY <1>1
<1> QED BY <1>1, <1>2, <1>3

\* A file that is opened has no unparsed rule that is global, and none at all for a strict
\* compiler.
LEMMA OpenedFile ==
    ASSUME TypeOK, FailuresMayBeApart, NEW file \in Files, ~ParseFails(disk[file]),
           NEW i \in DOMAIN disk[file].rules
    PROVE  /\ disk[file].rules[i] \in RulesOn(disk)
           /\ i \in Nat
           /\ Unparsed(disk[file].rules[i]) =>
                 resilient /\ ~disk[file].rules[i].global /\ i \in InvalidRules(disk[file])
<1>1. disk \in Disks /\ disk[file] \in Content
    BY AssemblyAssumption DEF TypeOK, FixedOK
<1>2. disk[file].rules[i] \in RulesOn(disk)
    BY DEF RulesOn
<1>3. disk[file].rules \in Seq(SourceRule)
    BY <1>1 DEF Content
<1>4. i \in Nat /\ disk[file].rules[i] \in SourceRule
    BY <1>3, ElementOfSeq
<1>5. ASSUME Unparsed(disk[file].rules[i])
      PROVE  resilient /\ ~disk[file].rules[i].global /\ i \in InvalidRules(disk[file])
    <2>1. i \in InvalidRules(disk[file])
        BY <1>5 DEF InvalidRules
    <2>2. resilient
        BY <2>1 DEF ParseFails, TypeOK, FixedOK
    <2>3. ~(disk[file].rules[i].global /\ ~disk[file].rules[i].privateFirst)
        BY <2>1 DEF ParseFails, ProgramError
    <2>4. ~(disk[file].rules[i].global /\ disk[file].rules[i].privateFirst)
        BY <1>1, <1>2, <1>5, <2>2 DEF FailuresMayBeApart, FailuresAreApart
    <2> QED BY <2>1, <2>2, <2>3, <2>4, Zenon
<1> QED BY <1>2, <1>4, <1>5

\* What OpenInv says of the rules of the open files.
OpenRules(fs, igs) ==
    /\ \A k \in DOMAIN fs : \A i \in DOMAIN fs[k].rules :
          /\ fs[k].rules[i] \in RulesOn(disk)
          /\ Unparsed(fs[k].rules[i]) =>
                /\ \E ig \in igs : ig.name = fs[k].rules[i].name
                /\ ~fs[k].rules[i].global
    /\ \A ig \in igs : \E k \in DOMAIN fs : \E i \in DOMAIN fs[k].rules :
          /\ fs[k].rules[i].name = ig.name /\ fs[k].rules[i].global = ig.global
          /\ Unparsed(fs[k].rules[i])

LEMMA OpenRulesIsOpenInv ==
    /\ pc = "include" /\ OpenInv => OpenRules(frames, ignored)
    /\ disk' = disk /\ OpenRules(frames', ignored') /\ pc' = "include"
         /\ (~resilient' => ignored' = {}) => OpenInv'
BY DEF OpenInv, OpenRules, IgnoredNames, RulesOn

\* The rules of a file join those of the open ones.
LEMMA OneMoreFile ==
    ASSUME TypeOK, FailuresMayBeApart, NEW file \in Files, ~ParseFails(disk[file]),
           NEW fs, NEW gs, NEW last \in DOMAIN gs,
           gs[last].rules = disk[file].rules, DOMAIN gs = DOMAIN fs \cup {last},
           \A k \in DOMAIN fs : gs[k].rules = fs[k].rules,
           OpenRules(fs, ignored), ~resilient => ignored = {},
           NEW igs, igs = Recorded(ignored, disk[file].rules, InvalidRules(disk[file]))
    PROVE  OpenRules(gs, igs) /\ (~resilient => igs = {})
<1> DEFINE places == InvalidRules(disk[file])
           its == disk[file].rules
<1>1. \A i \in places : i \in DOMAIN its /\ Unparsed(its[i])
    BY DEF InvalidRules
<1>2. places \subseteq Nat
    BY <1>1, OpenedFile
<1>3. /\ ignored \subseteq igs
      /\ \A ig \in igs : ig \in ignored \/ \E i \in places : ig.name = its[i].name /\ ig.global = its[i].global
      /\ \A i \in places : \E ig \in igs : ig.name = its[i].name
    BY <1>2, RecordedNames
<1>4. ASSUME NEW k \in DOMAIN gs, NEW i \in DOMAIN gs[k].rules
      PROVE  /\ gs[k].rules[i] \in RulesOn(disk)
             /\ Unparsed(gs[k].rules[i]) =>
                   (\E ig \in igs : ig.name = gs[k].rules[i].name) /\ ~gs[k].rules[i].global
    <2>1. CASE k = last
        <3>1. i \in DOMAIN its /\ gs[k].rules[i] = its[i]
            BY <1>4, <2>1
        <3>2. its[i] \in RulesOn(disk) /\ (Unparsed(its[i]) => i \in places /\ ~its[i].global)
            BY <3>1, OpenedFile
        <3> QED BY <1>3, <3>1, <3>2
    <2>2. CASE k # last
        BY <1>3, <1>4, <2>2 DEF OpenRules
    <2> QED BY <2>1, <2>2
<1>5. ASSUME NEW ig \in igs
      PROVE  \E k \in DOMAIN gs : \E i \in DOMAIN gs[k].rules :
                /\ gs[k].rules[i].name = ig.name /\ gs[k].rules[i].global = ig.global
                /\ Unparsed(gs[k].rules[i])
    <2>1. CASE ig \in ignored
        BY <2>1 DEF OpenRules
    <2>2. CASE ig \notin ignored
        <3>1. PICK i \in places : ig.name = its[i].name /\ ig.global = its[i].global
            BY <1>3, <2>2
        <3> QED BY <1>1, <3>1
    <2> QED BY <2>1, <2>2
<1>6. ASSUME ~resilient PROVE igs = {}
    <2>1. places = {}
        BY <1>1, <1>6, OpenedFile
    <2> QED BY <1>3, <1>6, <2>1
<1> QED BY <1>4, <1>5, <1>6 DEF OpenRules

\* The rules of a file that is closed go to the one that includes it.
LEMMA OneFileLess ==
    ASSUME NEW fs \in Seq(FrameRecord), Len(fs) > 1, NEW gs, NEW igs,
           Len(gs) = Len(fs) - 1, DOMAIN gs = 1 .. (Len(fs) - 1),
           \A k \in 1 .. (Len(fs) - 2) : gs[k].rules = fs[k].rules,
           gs[Len(fs) - 1].rules = fs[Len(fs) - 1].rules \o fs[Len(fs)].rules,
           OpenRules(fs, igs)
    PROVE  OpenRules(gs, igs)
<1> DEFINE n == Len(fs)
           outer == fs[n - 1].rules
           inner == fs[n].rules
<1>1. n \in Nat /\ DOMAIN fs = 1 .. n /\ n - 1 \in DOMAIN fs /\ n \in DOMAIN fs
    BY LenProperties
<1>2. outer \in Seq(SourceRule) /\ inner \in Seq(SourceRule)
    <2>1. fs[n - 1] \in FrameRecord /\ fs[n] \in FrameRecord
        <3> HIDE DEF n
        <3> QED BY <1>1, ElementOfSeq
    <2> QED BY <2>1 DEF FrameRecord
<1>3. /\ Len(outer) \in Nat /\ Len(inner) \in Nat
      /\ DOMAIN outer = 1 .. Len(outer) /\ DOMAIN inner = 1 .. Len(inner)
      /\ DOMAIN (outer \o inner) = 1 .. (Len(outer) + Len(inner))
      /\ \A i \in 1 .. (Len(outer) + Len(inner)) :
            (outer \o inner)[i] = IF i <= Len(outer) THEN outer[i] ELSE inner[i - Len(outer)]
    <2> HIDE DEF outer, inner
    <2> QED BY <1>2, LenProperties, ConcatProperties
<1>4. gs[n - 1].rules = outer \o inner
    OBVIOUS
\* Every rule is one of the files before.
<1>5. ASSUME NEW k \in DOMAIN gs, NEW i \in DOMAIN gs[k].rules
      PROVE  \E l \in DOMAIN fs : \E j \in DOMAIN fs[l].rules : fs[l].rules[j] = gs[k].rules[i]
    <2>1. k \in DOMAIN fs /\ (k # n - 1 => k \in 1 .. (n - 2))
        BY <1>1
    <2>2. CASE k # n - 1
        BY <1>5, <2>1, <2>2
    <2>3. CASE k = n - 1
        <3> HIDE DEF outer, inner
        <3>1. i \in 1 .. (Len(outer) + Len(inner)) /\ gs[k].rules[i] = (outer \o inner)[i]
            BY <1>3, <1>4, <1>5, <2>3
        <3>2. CASE i <= Len(outer)
            <4>1. i \in DOMAIN outer /\ gs[k].rules[i] = outer[i]
                BY <1>3, <3>1, <3>2
            <4> QED BY <1>1, <4>1 DEF outer
        <3>3. CASE ~(i <= Len(outer))
            <4>1. i - Len(outer) \in DOMAIN inner /\ gs[k].rules[i] = inner[i - Len(outer)]
                BY <1>3, <3>1, <3>3
            <4> QED BY <1>1, <4>1 DEF inner
        <3> QED BY <3>2, <3>3
    <2> QED BY <2>2, <2>3
\* Every rule of the files before is there.
<1>6. ASSUME NEW l \in DOMAIN fs, NEW j \in DOMAIN fs[l].rules
      PROVE  \E k \in DOMAIN gs : \E i \in DOMAIN gs[k].rules : gs[k].rules[i] = fs[l].rules[j]
    <2>1. l \in 1 .. (n - 2) \/ l = n - 1 \/ l = n
        BY <1>1
    <2>2. CASE l \in 1 .. (n - 2)
        <3>1. l \in DOMAIN gs /\ gs[l].rules = fs[l].rules
            BY <1>1, <2>2
        <3> QED BY <1>6, <3>1
    <2>3. n - 1 \in DOMAIN gs
        BY <1>1
    <2>4. CASE l = n - 1
        <3> HIDE DEF inner
        <3>1. j \in 1 .. Len(outer) /\ fs[l].rules[j] = outer[j]
            BY <1>3, <1>6, <2>4
        <3> HIDE DEF outer
        <3>2. j \in DOMAIN (outer \o inner) /\ (outer \o inner)[j] = outer[j]
            BY <1>3, <3>1
        <3> QED BY <1>4, <2>3, <3>1, <3>2
    <2>5. CASE l = n
        <3> HIDE DEF outer
        <3>1. j \in 1 .. Len(inner) /\ fs[l].rules[j] = inner[j]
            BY <1>3, <1>6, <2>5
        <3> HIDE DEF inner
        <3>2. /\ Len(outer) + j \in DOMAIN (outer \o inner)
              /\ (outer \o inner)[Len(outer) + j] = inner[j]
            BY <1>3, <3>1
        <3> QED BY <1>4, <2>3, <3>1, <3>2
    <2> QED BY <2>1, <2>2, <2>4, <2>5
<1> HIDE DEF n, outer, inner
<1>7. ASSUME NEW k \in DOMAIN gs, NEW i \in DOMAIN gs[k].rules
      PROVE  /\ gs[k].rules[i] \in RulesOn(disk)
             /\ Unparsed(gs[k].rules[i]) =>
                   (\E ig \in igs : ig.name = gs[k].rules[i].name) /\ ~gs[k].rules[i].global
    <2>1. PICK l \in DOMAIN fs : \E j \in DOMAIN fs[l].rules : fs[l].rules[j] = gs[k].rules[i]
        BY <1>5, <1>7
    <2> QED BY <2>1 DEF OpenRules
<1>8. ASSUME NEW ig \in igs
      PROVE  \E k \in DOMAIN gs : \E i \in DOMAIN gs[k].rules :
                /\ gs[k].rules[i].name = ig.name /\ gs[k].rules[i].global = ig.global
                /\ Unparsed(gs[k].rules[i])
    <2>1. PICK l \in DOMAIN fs : \E j \in DOMAIN fs[l].rules :
                /\ fs[l].rules[j].name = ig.name /\ fs[l].rules[j].global = ig.global
                /\ Unparsed(fs[l].rules[j])
        BY DEF OpenRules
    <2>2. PICK j \in DOMAIN fs[l].rules :
                /\ fs[l].rules[j].name = ig.name /\ fs[l].rules[j].global = ig.global
                /\ Unparsed(fs[l].rules[j])
        BY <2>1
    <2> QED BY <1>6, <2>2
<1> QED BY <1>7, <1>8 DEF OpenRules

LEMMA OpenStep ==
    ASSUME TypeOK, FailuresMayBeApart, OpenInv, KeptInv, [Next]_vars
    PROVE  OpenInv'
<1> USE DEF Goto, Return
<1>1. CASE \E file \in Files : CompileSource(file)
    BY <1>1 DEF CompileSource, OpenInv, fixed
<1>2. CASE \E name \in Paths : CompileFile(name)
    <2>1. ignored' = ignored /\ resilient' = resilient /\ pc' \in {"source", "idle"}
        BY <1>2 DEF CompileFile, fixed
    <2> QED BY <2>1 DEF OpenInv
<1>3. CASE ResetStats
    BY <1>3 DEF ResetStats, OpenInv
<1>4. CASE ParseMain
    <2> DEFINE file == main.file
    <2>1. CASE ParseFails(disk[file])
        BY <1>4, <2>1 DEF ParseMain, OpenInv, fixed
    <2>2. CASE ~ParseFails(disk[file])
        <3>1. /\ pc = "parse" /\ pc' = "include" /\ disk' = disk /\ resilient' = resilient
              /\ ignored' = Recorded(ignored, disk[file].rules, InvalidRules(disk[file]))
              /\ frames' = <<Frame(main.dir, main.file)>>
            BY <1>4, <2>2 DEF ParseMain, fixed
        <3>2. file \in Files /\ ignored = {}
            BY <3>1 DEF TypeOK, CallOK, OpenInv
        <3>3. /\ DOMAIN frames' = {1} /\ frames'[1].rules = disk[file].rules
            BY <3>1 DEF Frame
        <3>4. OpenRules(<<>>, ignored) /\ DOMAIN <<>> = {}
            BY <3>2 DEF OpenRules
        <3>5. OpenRules(frames', ignored') /\ (~resilient => ignored' = {})
            <4> HIDE DEF file
            <4>1. 1 \in DOMAIN frames' /\ DOMAIN frames' = DOMAIN <<>> \cup {1}
                BY <3>3, <3>4
            <4>2. \A k \in DOMAIN <<>> : frames'[k].rules = <<>>[k].rules
                BY <3>4
            <4> QED BY <2>2, <3>1, <3>2, <3>3, <3>4, <4>1, <4>2, OneMoreFile
        <3> QED BY <3>1, <3>5, OpenRulesIsOpenInv
    <2> QED BY <2>1, <2>2
<1>5. CASE OpenInclude
    <2> DEFINE file == Resolve[Top.dir][Head(Top.todo)]
               refused == \/ file = NoFile
                          \/ /\ file # NoFile
                             /\ \/ <<Top.dir, DirOf[file]>> \notin Below
                                \/ file \in ActivePaths
                                \/ disk[file].fault = "large"
                                \/ ParseFails(disk[file])
    <2>1. CASE refused
        BY <1>5, <2>1 DEF OpenInclude, OpenInv, fixed
    <2>2. CASE ~refused
        <3> DEFINE opened == [frames EXCEPT ![Len(frames)].todo = Tail(@)]
        <3>1. /\ pc = "include" /\ pc' = "include" /\ disk' = disk /\ resilient' = resilient
              /\ Top.todo # <<>>
              /\ ignored' = Recorded(ignored, disk[file].rules, InvalidRules(disk[file]))
              /\ frames' = Append(opened, Frame(DirOf[file], file))
            BY <1>5, <2>2 DEF OpenInclude, fixed
        <3>2. /\ frames \in Seq(FrameRecord) /\ Len(frames) \in Nat \ {0}
              /\ Top = frames[Len(frames)] /\ Top \in FrameRecord
            BY <3>1, TopIsTyped
        <3>3. file \in Files /\ ~ParseFails(disk[file])
            <4>1. Top.dir \in Dirs /\ Head(Top.todo) \in Paths
                BY <3>1, <3>2, HeadTailProperties DEF FrameRecord
            <4> QED BY <2>2, <4>1, AssemblyAssumption
        <3>4. /\ DOMAIN frames' = 1 .. (Len(frames) + 1) /\ DOMAIN frames = 1 .. Len(frames)
              /\ \A k \in 1 .. Len(frames) : frames'[k].rules = frames[k].rules
              /\ frames'[Len(frames) + 1].rules = disk[file].rules
            <4> DEFINE longer == [Top EXCEPT !.todo = Tail(Top.todo)]
                       last == Frame(DirOf[file], file)
            <4>1. longer \in FrameRecord /\ longer.rules = Top.rules
                BY <3>1, <3>2, HeadTailProperties DEF FrameRecord
            <4>2. /\ opened \in Seq(FrameRecord) /\ Len(opened) = Len(frames)
                  /\ \A k \in 1 .. Len(frames) : opened[k].rules = frames[k].rules
                <5>1. opened = [frames EXCEPT ![Len(frames)] = longer]
                    BY <3>2
                <5> HIDE DEF opened, longer
                <5> QED BY <3>2, <4>1, <5>1, ExceptSeq
            <4>3. last \in FrameRecord /\ last.rules = disk[file].rules
                BY <3>3, AssemblyAssumption, FrameIsTyped DEF Frame
            <4>4. DOMAIN frames = 1 .. Len(frames)
                BY <3>2, LenProperties
            <4> HIDE DEF opened, last, longer, file
            <4>5. frames' = Append(opened, last)
                BY <3>1 DEF last
            <4>6. /\ frames' \in Seq(FrameRecord) /\ Len(frames') = Len(frames) + 1
                  /\ \A k \in 1 .. Len(frames) : frames'[k] = opened[k]
                  /\ frames'[Len(frames) + 1] = last
                BY <4>2, <4>3, <4>5, AppendProperties
            <4>7. DOMAIN frames' = 1 .. (Len(frames) + 1)
                BY <4>6, LenProperties
            <4> QED BY <4>2, <4>3, <4>4, <4>6, <4>7
        <3>5. OpenRules(frames, ignored) /\ (~resilient => ignored = {})
            BY <3>1, OpenRulesIsOpenInv DEF OpenInv
        <3>6. OpenRules(frames', ignored') /\ (~resilient => ignored' = {})
            <4> DEFINE last == Len(frames) + 1
            <4>1. last \in DOMAIN frames' /\ DOMAIN frames' = DOMAIN frames \cup {last}
                BY <3>2, <3>4
            <4>2. \A k \in DOMAIN frames : frames'[k].rules = frames[k].rules
                BY <3>4
            <4>3. frames'[last].rules = disk[file].rules
                BY <3>4
            <4> HIDE DEF last, file
            <4> QED BY <3>1, <3>3, <3>5, <4>1, <4>2, <4>3, OneMoreFile
        <3> QED BY <3>1, <3>6, OpenRulesIsOpenInv
    <2> QED BY <2>1, <2>2
<1>6. CASE CloseInclude
    <2> DEFINE outer == SubSeq(frames, 1, Len(frames) - 1)
               last == Len(frames) - 1
               longer == [outer[last] EXCEPT !.rules = @ \o Top.rules]
    <2>1. /\ pc = "include" /\ pc' = "include" /\ Len(frames) > 1
          /\ UNCHANGED <<disk, resilient, ignored>>
          /\ frames' = [outer EXCEPT ![last] = longer]
        BY <1>6 DEF CloseInclude, fixed
    <2>2. /\ frames \in Seq(FrameRecord) /\ Len(frames) \in Nat \ {0}
          /\ Top = frames[Len(frames)] /\ Top \in FrameRecord
        BY <2>1, TopIsTyped
    <2>3. /\ outer \in Seq(FrameRecord) /\ Len(outer) = Len(frames) - 1
          /\ \A i \in 1 .. (Len(frames) - 1) : outer[i] = frames[i]
        BY <2>1, <2>2
    <2>4. last \in 1 .. Len(outer)
        BY <2>1, <2>2, <2>3
    <2>5. outer[last] = frames[last] /\ outer[last] \in FrameRecord
        BY <2>2, <2>3, <2>4, ElementOfSeq
    <2>6. longer \in FrameRecord /\ longer.rules = frames[last].rules \o Top.rules
        BY <2>2, <2>5, ConcatProperties DEF FrameRecord
    <2>7. /\ Len(frames') = Len(outer) /\ DOMAIN frames' = 1 .. Len(outer)
          /\ \A i \in 1 .. Len(outer) : frames'[i] = IF i = last THEN longer ELSE outer[i]
        <3> HIDE DEF outer, last, longer
        <3>1. frames' \in Seq(FrameRecord)
            BY <2>1, <2>3, <2>4, <2>6, ExceptSeq
        <3> QED BY <2>1, <2>3, <2>4, <2>6, <3>1, ExceptSeq, LenProperties
    <2>8. /\ \A k \in 1 .. (Len(frames) - 2) : frames'[k].rules = frames[k].rules
          /\ frames'[Len(frames) - 1].rules = frames[Len(frames) - 1].rules \o frames[Len(frames)].rules
        <3>1. \A k \in 1 .. (Len(frames) - 2) : k \in 1 .. Len(outer) /\ k # last
            BY <2>2, <2>3
        <3> HIDE DEF outer, longer
        <3> QED BY <2>2, <2>3, <2>4, <2>6, <2>7, <3>1
    <2>9. OpenRules(frames', ignored)
        <3>1. OpenRules(frames, ignored)
            BY <2>1, OpenRulesIsOpenInv
        <3>2. Len(frames') = Len(frames) - 1 /\ DOMAIN frames' = 1 .. (Len(frames) - 1)
            BY <2>3, <2>7
        <3> HIDE DEF outer, last, longer
        <3> QED BY <2>1, <2>2, <2>8, <3>1, <3>2, OneFileLess
    <2>10. ~resilient => ignored = {}
        BY DEF OpenInv
    <2> QED BY <2>1, <2>9, <2>10, OpenRulesIsOpenInv
<1>7. CASE Assembled \/ ProcessImports \/ Semantics \/ CollectSymbols \/ Visit \/ Follow \/ Leave
           \/ ValidateRules \/ NextPass \/ Filter \/ CodeGen \/ Finish \/ Cancel
    <2>1. /\ ignored' = ignored /\ resilient' = resilient
          /\ pc' \notin {"parse", "include"}
        BY <1>7 DEF Assembled, ProcessImports, Semantics, CollectSymbols, Visit, Follow, Leave,
                    ValidateRules, NextPass, Filter, CodeGen, Finish, Cancel, fixed, TypeOK,
                    SpreadingOK
    <2> QED BY <2>1 DEF OpenInv
<1>8. CASE Judge \/ Generate
    <2>1. /\ resilient' = resilient /\ pc' \notin {"parse", "include"}
          /\ ~resilient => ignored' = ignored
        BY <1>8 DEF Judge, Generate, fixed
    <2> QED BY <2>1 DEF OpenInv
<1>9. CASE Propagate
    <2>1. /\ resilient' = resilient /\ pc = "propagate" /\ pc' = "propagate"
          /\ ~(omitAll \/ IgnoredNames # {}) => ignored' = ignored
        BY <1>9 DEF Propagate, fixed
    <2>2. ignored = {} => ~omitAll /\ IgnoredNames = {}
        BY <2>1 DEF KeptInv, AGlobalIsIgnored, IgnoredNames
    <2> QED BY <2>1, <2>2 DEF OpenInv
<1>10. CASE UNCHANGED vars
    BY <1>10 DEF vars, fixed, loading, OpenInv, IgnoredNames, RulesOn
<1> QED BY <1>1, <1>2, <1>3, <1>4, <1>5, <1>6, <1>7, <1>8, <1>9, <1>10 DEF Next, Step

\* The one rule of a sound name.
LEMMA SoundHolder ==
    ASSUME NEW source \in Seq(SourceRule), NEW n \in Sound(source)
    PROVE  \E i \in DOMAIN source :
              /\ source[i].name = n /\ source[i].state = "valid"
              /\ Refs(source[i]) \subseteq Sound(source)
              /\ \A j \in DOMAIN source : source[j].name = n => j = i
<1>1. n \in RestsOn(source, Sound(source))
    BY SoundRestsOnItself
<1>2. IsFiniteSet(Holders(source, n))
    <2>1. IsFiniteSet(DOMAIN source)
        BY LenProperties, FS_Interval
    <2>2. Holders(source, n) \subseteq DOMAIN source
        BY DEF Holders
    <2> QED BY <2>1, <2>2, FS_Subset
<1>3. Cardinality(Holders(source, n)) = 1
    BY <1>1 DEF RestsOn
<1>4. PICK i : Holders(source, n) = {i}
    BY <1>2, <1>3, FS_Singleton
<1>5. source[i].state = "valid" /\ Refs(source[i]) \subseteq Sound(source)
    BY <1>1, <1>4 DEF RestsOn
<1>6. i \in DOMAIN source /\ source[i].name = n
    BY <1>4 DEF Holders
<1>7. ASSUME NEW j \in DOMAIN source, source[j].name = n PROVE j = i
    BY <1>4, <1>7 DEF Holders
<1> QED BY <1>5, <1>6, <1>7

\* What a name depends on is referred to by a rule of that name.
LEMMA DependencyIsRef ==
    ASSUME TypeOK, NEW n, NEW d \in Dependencies(n)
    PROVE  d \in KeptNames /\ \E i \in kept : rules[i].name = n /\ d \in Refs(rules[i])
<1> DEFINE holders == {i \in kept : rules[i].name = n /\ Refs(rules[i]) \cap KeptNames # {}}
<1>1. holders # {} /\ d \in Refs(rules[Max(holders)]) \cap KeptNames
    BY DEF Dependencies
<1>2. holders \subseteq 1 .. Len(rules) /\ Len(rules) \in Nat
    BY LenProperties DEF TypeOK, ProgramOK
<1>3. Max(holders) \in holders
    <2> HIDE DEF holders
    <2>1. IsFiniteSet(1 .. Len(rules))
        BY <1>2, FS_Interval
    <2>2. IsFiniteSet(holders)
        BY <1>2, <2>1, FS_Subset
    <2>3. holders \subseteq Int
        BY <1>2
    <2> QED BY <1>1, <2>2, <2>3, FiniteSetHasMax
<1> QED BY <1>1, <1>3

\* When no name is defined twice, the dependencies of a name are those of its rule.
LEMMA UniqueDependencies ==
    ASSUME TypeOK, DuplicateNames = {}, NEW i \in kept
    PROVE  Dependencies(rules[i].name) = Refs(rules[i]) \cap KeptNames
<1> DEFINE holders == {j \in kept : /\ rules[j].name = rules[i].name
                                    /\ Refs(rules[j]) \cap KeptNames # {}}
<1>1. \A j \in kept : rules[j].name = rules[i].name => j = i
    <2> SUFFICES ASSUME NEW j \in kept, rules[j].name = rules[i].name, j # i PROVE FALSE
        OBVIOUS
    <2>1. j < i \/ i < j
        BY KeptIsTyped DEF TypeOK
    <2> QED BY <2>1 DEF DuplicateNames
<1>2. CASE Refs(rules[i]) \cap KeptNames = {}
    <2>1. holders = {}
        BY <1>1, <1>2
    <2> QED BY <1>2, <2>1 DEF Dependencies
<1>3. CASE Refs(rules[i]) \cap KeptNames # {}
    <2>1. holders = {i}
        BY <1>1, <1>3
    <2>2. Max({i}) = i
        <3>1. i \in Int /\ {i} \subseteq Int /\ \A y \in {i} : i >= y
            BY KeptIsTyped DEF TypeOK
        <3> QED BY <3>1, MaxIs
    <2> QED BY <2>1, <2>2 DEF Dependencies
<1> QED BY <1>2, <1>3

\* Beside an ignored global rule nothing is sound.
LEMMA NothingBesideAGlobal ==
    ASSUME IgnoredInv, Loaded, AGlobalIsIgnored
    PROVE  Sound(rules) = {}
<1>1. PICK ig \in ignored : ig.global
    BY DEF AGlobalIsIgnored
<1>2. PICK i \in DOMAIN rules : rules[i].name = ig.name /\ rules[i].global = ig.global
    BY DEF IgnoredInv
<1>3. rules[i].name \notin Sound(rules)
    BY <1>2 DEF IgnoredInv
<1> QED BY <1>1, <1>2, <1>3 DEF Sound

\* A kept rule that is not sound: of a name defined twice, with an error of its own or a
\* reference to no rule, one that cannot be generated, or depends on an ignored rule.
LEMMA UnsoundRules ==
    ASSUME TypeOK, IgnoredInv, Loaded, NEW i \in kept, rules[i].name \in Sound(rules)
    PROVE  /\ \A j \in kept : rules[j].name = rules[i].name => j = i
           /\ rules[i].state = "valid"
           /\ ~AGlobalIsIgnored
           /\ Refs(rules[i]) \cap IgnoredNames = {}
           /\ (\A j \in DOMAIN rules : rules[j].name \notin IgnoredNames => j \in kept)
                 => Refs(rules[i]) \subseteq KeptNames
<1>1. rules \in Seq(SourceRule) /\ kept \subseteq DOMAIN rules
    BY DEF TypeOK, ProgramOK
<1>2. /\ rules[i].state = "valid" /\ Refs(rules[i]) \subseteq Sound(rules)
      /\ \A j \in DOMAIN rules : rules[j].name = rules[i].name => j = i
    BY <1>1, SoundHolder
<1>3. \A n \in Sound(rules) : n \notin IgnoredNames
    BY DEF IgnoredInv, IgnoredNames
<1>4. ASSUME \A j \in DOMAIN rules : rules[j].name \notin IgnoredNames => j \in kept,
             NEW d \in Refs(rules[i])
      PROVE  d \in KeptNames
    <2>1. PICK j \in DOMAIN rules : rules[j].name = d
        BY <1>1, <1>2, <1>4, SoundHolder
    <2> QED BY <1>2, <1>3, <1>4, <2>1 DEF KeptNames
<1>5. ~AGlobalIsIgnored
    BY NothingBesideAGlobal
<1> QED BY <1>1, <1>2, <1>3, <1>4, <1>5

\* What is ignored is unsound still when only unsound names are added.
LEMMA MoreIgnored ==
    ASSUME TypeOK, IgnoredInv, Loaded, UNCHANGED <<disk, rules>>, NEW places \in SUBSET kept,
           ignored' = Recorded(ignored, rules, places),
           \A i \in places : rules[i].name \notin Sound(rules)
    PROVE  IgnoredInv' /\ IgnoredNames \subseteq IgnoredNames'
<1>1. places \subseteq DOMAIN rules /\ places \subseteq Nat
    BY KeptIsTyped DEF TypeOK, ProgramOK
<1>2. /\ ignored \subseteq ignored'
      /\ \A ig \in ignored' :
            ig \in ignored \/ \E i \in places : ig.name = rules[i].name /\ ig.global = rules[i].global
    BY <1>1, RecordedNames
<1>3. ASSUME NEW ig \in ignored'
      PROVE  /\ ig.name \notin Sound(rules)
             /\ \E i \in DOMAIN rules : rules[i].name = ig.name /\ rules[i].global = ig.global
    <2>1. CASE ig \in ignored
        BY <2>1 DEF IgnoredInv
    <2>2. CASE ig \notin ignored
        <3>1. PICK i \in places : ig.name = rules[i].name /\ ig.global = rules[i].global
            BY <1>2, <2>2
        <3> QED BY <1>1, <3>1
    <2> QED BY <2>1, <2>2
<1>4. IgnoredNames \subseteq IgnoredNames'
    BY <1>2 DEF IgnoredNames
<1>5. \A i \in DOMAIN rules :
        rules[i] \in RulesOn(disk) /\ (Unparsed(rules[i]) => rules[i].name \in IgnoredNames)
    BY DEF IgnoredInv
<1>6. rules' = rules /\ RulesOn(disk') = RulesOn(disk)
    OBVIOUS
<1> QED BY <1>3, <1>4, <1>5, <1>6 DEF IgnoredInv

LEMMA SameIgnored ==
    ASSUME IgnoredInv, UNCHANGED <<disk, rules, ignored>>, Loaded' => Loaded
    PROVE  IgnoredInv'
<1>1. IgnoredNames' = IgnoredNames
    BY DEF IgnoredNames
<1>2. RulesOn(disk') = RulesOn(disk) /\ Sound(rules') = Sound(rules)
    OBVIOUS
<1> QED BY <1>1, <1>2 DEF IgnoredInv

\* The rules of a tree that did not parse are not sound.
LEMMA AssembledStep ==
    ASSUME TypeOK, FailuresMayBeApart, OpenInv, Assembled
    PROVE  IgnoredInv' /\ KeptInv'
<1>1. /\ pc = "include" /\ Len(frames) = 1 /\ pc' = "imports"
      /\ rules' = Top.rules /\ ignored' = ignored /\ disk' = disk
      /\ kept' = {i \in DOMAIN Top.rules : ~Unparsed(Top.rules[i])}
    BY DEF Assembled, Goto, fixed
<1>2. Top = frames[1] /\ DOMAIN frames = {1} /\ Top.rules \in Seq(SourceRule)
    <2>1. frames \in Seq(FrameRecord) /\ Top = frames[1] /\ Top \in FrameRecord
        BY <1>1, TopIsTyped
    <2>2. DOMAIN frames = {1}
        BY <1>1, <2>1, LenProperties
    <2> QED BY <2>1, <2>2 DEF FrameRecord
<1>3. /\ \A i \in DOMAIN rules' :
            /\ rules'[i] \in RulesOn(disk)
            /\ Unparsed(rules'[i]) => rules'[i].name \in IgnoredNames /\ ~rules'[i].global
      /\ \A ig \in ignored : \E i \in DOMAIN rules' :
            /\ rules'[i].name = ig.name /\ rules'[i].global = ig.global
            /\ Unparsed(rules'[i])
    BY <1>1, <1>2 DEF OpenInv
<1>4. ASSUME NEW ig \in ignored PROVE ig.name \notin Sound(rules') /\ ~ig.global
    <2>1. PICK i \in DOMAIN rules' :
            /\ rules'[i].name = ig.name /\ rules'[i].global = ig.global
            /\ Unparsed(rules'[i])
        BY <1>3
    <2>2. rules' \in Seq(SourceRule)
        BY <1>1, <1>2
    <2>3. rules'[i].state # "valid"
        BY <2>1 DEF Unparsed
    <2>4. ~ig.global
        BY <1>3, <2>1
    <2>5. ASSUME ig.name \in Sound(rules') PROVE FALSE
        <3> DEFINE its == rules'
        <3>1. its \in Seq(SourceRule) /\ ig.name \in Sound(its)
            BY <2>2, <2>5
        <3> HIDE DEF its
        <3>2. PICK j \in DOMAIN its : its[j].state = "valid" /\ \A k \in DOMAIN its : its[k].name = ig.name => k = j
            BY <3>1, SoundHolder
        <3> QED BY <2>1, <2>3, <3>2 DEF its
    <2> QED BY <2>4, <2>5
<1>5. IgnoredInv'
    <2>1. IgnoredNames' = IgnoredNames /\ RulesOn(disk') = RulesOn(disk)
        BY <1>1 DEF IgnoredNames
    <2> QED BY <1>1, <1>3, <1>4, <2>1 DEF IgnoredInv
<1>6. ~AGlobalIsIgnored'
    BY <1>1, <1>4 DEF AGlobalIsIgnored
<1>7. ASSUME NEW i \in DOMAIN rules' PROVE i \in kept' <=> rules'[i].name \notin IgnoredNames
    <2>1. CASE Unparsed(rules'[i])
        BY <1>1, <1>3, <2>1
    <2>2. CASE ~Unparsed(rules'[i]) /\ rules'[i].name \in IgnoredNames
        <3>1. PICK ig \in ignored : ig.name = rules'[i].name
            BY <2>2 DEF IgnoredNames
        <3>2. PICK j \in DOMAIN rules' : rules'[j].name = ig.name /\ Unparsed(rules'[j])
            BY <1>3
        <3>3. disk \in Disks /\ rules'[i] \in RulesOn(disk) /\ rules'[j] \in RulesOn(disk)
            BY <1>3 DEF TypeOK, FixedOK
        <3>4. FailuresAreApart
            BY <3>1 DEF FailuresMayBeApart, OpenInv
        <3> QED BY <2>2, <3>1, <3>2, <3>3, <3>4 DEF FailuresAreApart
    <2>3. CASE ~Unparsed(rules'[i]) /\ rules'[i].name \notin IgnoredNames
        BY <1>1, <2>3
    <2> QED BY <2>1, <2>2, <2>3
<1>8. kept' = {i \in DOMAIN rules' : rules'[i].name \notin IgnoredNames'}
    <2>1. IgnoredNames' = IgnoredNames /\ kept' \subseteq DOMAIN rules'
        BY <1>1 DEF IgnoredNames
    <2> QED BY <1>7, <2>1
<1> QED BY <1>1, <1>5, <1>6, <1>8 DEF KeptInv, Validating

\* What is ignored is unsound: a rule is ignored for an error of its own, or for a rule
\* that was ignored before.
LEMMA IgnoredStep ==
    ASSUME TypeOK, FailuresMayBeApart, OpenInv, IgnoredInv, KeptInv, PathInv, [Next]_vars
    PROVE  IgnoredInv'
<1> USE DEF Goto, Return
<1>1. CASE (\E file \in Files : CompileSource(file)) \/ (\E name \in Paths : CompileFile(name))
    <2>1. pc' = "source" \/ (pc' = "idle" /\ outcome' = "error")
        BY <1>1 DEF CompileSource, CompileFile
    <2> QED BY <2>1 DEF IgnoredInv, Loaded, Validating, Generating
<1>2. CASE ResetStats \/ ParseMain \/ OpenInclude \/ CloseInclude \/ Cancel
    <2>1. \/ pc' \in {"parse", "include"}
          \/ pc' = "idle" /\ outcome' \in {"error", "cancelled"}
        BY <1>2 DEF ResetStats, ParseMain, OpenInclude, CloseInclude, Cancel
    <2> QED BY <2>1 DEF IgnoredInv, Loaded, Validating, Generating
<1>3. CASE Assembled
    BY <1>3, AssembledStep
<1>4. CASE ProcessImports \/ Semantics \/ CollectSymbols \/ Visit \/ Follow \/ Leave
           \/ ValidateRules \/ NextPass \/ Filter \/ CodeGen \/ Finish
    <2>1. UNCHANGED <<disk, rules, ignored>> /\ Loaded
        BY <1>4 DEF ProcessImports, Semantics, CollectSymbols, Visit, Follow, Leave,
                    ValidateRules, NextPass, Filter, CodeGen, Finish, fixed, program,
                    Loaded, Validating, Generating
    <2> QED BY <2>1, SameIgnored
<1>5. CASE Judge
    <2>1. Loaded /\ UNCHANGED <<disk, rules>>
        BY <1>5 DEF Judge, fixed, program, Loaded, Validating
    <2>2. CASE ignored' = ignored
        BY <2>1, <2>2, SameIgnored
    <2>3. CASE ignored' # ignored
        <3> DEFINE places == {i \in kept : rules[i].name \in errors}
        <3>1. pc = "judge" /\ ignored' = Recorded(ignored, rules, places)
            BY <1>5, <2>3 DEF Judge
        <3>2. \A i \in places : rules[i].name \notin Sound(rules)
            BY <3>1 DEF PathInv
        <3> QED BY <2>1, <3>1, <3>2, MoreIgnored
    <2> QED BY <2>2, <2>3
<1>6. CASE Propagate
    <2> DEFINE doomed == /\ at \in kept
                         /\ rules[at].name \notin IgnoredNames
                         /\ omitAll \/ Refs(rules[at]) \cap IgnoredNames # {}
    <2>1. /\ Loaded /\ UNCHANGED <<disk, rules>> /\ pc = "propagate"
          /\ doomed => ignored' = Recorded(ignored, rules, {at})
          /\ ~doomed => ignored' = ignored
        BY <1>6 DEF Propagate, fixed, program, Loaded
    <2>2. CASE ~doomed
        BY <2>1, <2>2, SameIgnored
    <2>3. CASE doomed
        <3>1. rules[at].name \notin Sound(rules)
            BY <2>1, <2>3, UnsoundRules DEF KeptInv
        <3> QED BY <2>1, <2>3, <3>1, MoreIgnored
    <2> QED BY <2>2, <2>3
<1>7. CASE Generate
    <2>1. Loaded /\ UNCHANGED <<disk, rules>>
        BY <1>7 DEF Generate, fixed, program, Loaded, Generating
    <2>2. CASE ignored' = ignored
        BY <2>1, <2>2, SameIgnored
    <2>3. CASE ignored' # ignored
        <3>1. ignored' = Recorded(ignored, rules, First(Unable)) /\ First(Unable) \in SUBSET kept
            BY <1>7, <2>3 DEF Generate, First, Unable
        <3>2. \A i \in First(Unable) : i \in kept /\ rules[i].state = "unable"
            BY DEF First, Unable
        <3>3. \A i \in First(Unable) : rules[i].name \notin Sound(rules)
            BY <2>1, <3>2, UnsoundRules
        <3> QED BY <2>1, <3>1, <3>3, MoreIgnored
    <2> QED BY <2>2, <2>3
<1>8. CASE UNCHANGED vars
    <2>1. UNCHANGED <<disk, rules, ignored>> /\ pc' = pc /\ outcome' = outcome
        BY <1>8 DEF vars, fixed, program
    <2> QED BY <2>1, SameIgnored DEF Loaded, Validating, Generating
<1> QED BY <1>1, <1>2, <1>3, <1>4, <1>5, <1>6, <1>7, <1>8 DEF Next, Step

\* Omissions begin to spread.
LEMMA OmissionBegins ==
    ASSUME TypeOK, IgnoredNames \subseteq IgnoredNames', UNCHANGED program,
           kept = {i \in DOMAIN rules : rules[i].name \notin IgnoredNames},
           StartPass(ignored'), pc' = "propagate"
    PROVE  KeptInv'
<1>1. at' = 1 /\ omitAll' = AGlobalIsIgnored'
    BY DEF StartPass, AGlobalIsIgnored
<1>2. \A i \in kept' : ~(i < 1)
    BY KeptIsTyped DEF TypeOK, ProgramOK, program
<1>3. {i \in DOMAIN rules' : rules'[i].name \notin IgnoredNames'} \subseteq kept'
    BY DEF program
<1> QED BY <1>1, <1>2, <1>3, Zenon DEF KeptInv, Validating, Generating

\* The program is what is not ignored.
LEMMA KeptStep ==
    ASSUME TypeOK, FailuresMayBeApart, OpenInv, IgnoredInv, KeptInv, PathInv, [Next]_vars
    PROVE  KeptInv'
<1> USE DEF Goto, Return
<1>1. CASE (\E file \in Files : CompileSource(file)) \/ (\E name \in Paths : CompileFile(name))
    <2>1. pc' = "source" \/ (pc' = "idle" /\ outcome' = "error")
        BY <1>1 DEF CompileSource, CompileFile
    <2> QED BY <2>1 DEF KeptInv, Validating, Generating
<1>2. CASE ResetStats \/ ParseMain \/ OpenInclude \/ CloseInclude \/ Cancel
    <2>1. \/ pc' \in {"parse", "include"}
          \/ pc' = "idle" /\ outcome' \in {"error", "cancelled"}
        BY <1>2 DEF ResetStats, ParseMain, OpenInclude, CloseInclude, Cancel
    <2> QED BY <2>1 DEF KeptInv, Validating, Generating
<1>3. CASE Assembled
    BY <1>3, AssembledStep
<1>4. CASE ProcessImports \/ Semantics \/ CollectSymbols \/ Visit \/ Follow \/ Leave
           \/ ValidateRules \/ CodeGen \/ Finish
    <2>1. /\ UNCHANGED <<rules, kept, ignored>> /\ pc' # "propagate"
          /\ Validating \/ Generating
        BY <1>4 DEF ProcessImports, Semantics, CollectSymbols, Visit, Follow, Leave,
                    ValidateRules, CodeGen, Finish, fixed, program, Validating, Generating
    <2>2. IgnoredNames' = IgnoredNames /\ AGlobalIsIgnored' = AGlobalIsIgnored
        BY <2>1 DEF IgnoredNames, AGlobalIsIgnored
    <2> QED BY <2>1, <2>2 DEF KeptInv
<1>5. CASE Judge \/ Generate
    <2>1. /\ Validating \/ Generating
          /\ UNCHANGED program
        BY <1>5 DEF Judge, Generate, Validating, Generating
    <2>2. CASE pc' = "propagate"
        <3>1. StartPass(ignored') /\ ignored \subseteq ignored'
            BY <1>5, <2>2, RecordedGrows DEF Judge, Generate
        <3>2. IgnoredNames \subseteq IgnoredNames'
            BY <3>1 DEF IgnoredNames
        <3> QED BY <2>1, <2>2, <3>1, <3>2, OmissionBegins DEF KeptInv
    <2>3. CASE pc' # "propagate"
        <3>1. ignored' = ignored
            BY <1>5, <2>3 DEF Judge, Generate
        <3>2. IgnoredNames' = IgnoredNames /\ AGlobalIsIgnored' = AGlobalIsIgnored
            BY <3>1 DEF IgnoredNames, AGlobalIsIgnored
        <3> QED BY <2>1, <2>3, <3>2 DEF KeptInv, program
    <2> QED BY <2>2, <2>3
<1>6. CASE Propagate
    <2> DEFINE doomed == /\ at \in kept
                         /\ rules[at].name \notin IgnoredNames
                         /\ omitAll \/ Refs(rules[at]) \cap IgnoredNames # {}
    <2>1. /\ pc = "propagate" /\ pc' = "propagate" /\ UNCHANGED <<rules, kept, omitAll>>
          /\ ignored' = ignored \/ ignored' = Recorded(ignored, rules, {at})
          /\ at' = at + 1 /\ changed' = (changed \/ doomed)
          /\ ~doomed => ignored' = ignored
        BY <1>6 DEF Propagate, program
    <2>2. ignored \subseteq ignored'
        BY <2>1, RecordedGrows
    <2>3. /\ IgnoredNames \subseteq IgnoredNames'
          /\ AGlobalIsIgnored => AGlobalIsIgnored'
          /\ ignored' = ignored => IgnoredNames' = IgnoredNames /\ AGlobalIsIgnored' = AGlobalIsIgnored
        BY <2>2 DEF IgnoredNames, AGlobalIsIgnored
    <2>4. {i \in DOMAIN rules' : rules'[i].name \notin IgnoredNames'} \subseteq kept'
        BY <2>1, <2>3 DEF KeptInv
    <2>5. omitAll' => AGlobalIsIgnored'
        BY <2>1, <2>3 DEF KeptInv
    <2>6. ASSUME ~changed'
          PROVE  /\ AGlobalIsIgnored' => omitAll'
                 /\ omitAll' => \A i \in kept' : i < at' => rules'[i].name \in IgnoredNames'
        <3>1. ~changed /\ ~doomed /\ ignored' = ignored
            BY <2>1, <2>6, Zenon
        <3>2. AGlobalIsIgnored' => omitAll'
            BY <2>1, <2>3, <3>1 DEF KeptInv
        <3>3. ASSUME omitAll', NEW i \in kept', i < at' PROVE rules'[i].name \in IgnoredNames'
            <4>1. i \in kept /\ i \in Nat /\ at \in Nat /\ (i < at \/ i = at)
                BY <2>1, <3>3, KeptIsTyped DEF TypeOK, SpreadingOK
            <4>2. CASE i < at
                BY <2>1, <2>3, <3>1, <3>3, <4>1, <4>2 DEF KeptInv
            <4>3. CASE i = at
                BY <2>1, <2>3, <3>1, <3>3, <4>1, <4>3
            <4> QED BY <4>1, <4>2, <4>3
        <3> QED BY <3>2, <3>3
    <2> QED BY <2>1, <2>4, <2>5, <2>6, Zenon DEF KeptInv, Validating, Generating
<1>7. CASE NextPass
    <2>1. /\ pc = "propagate" /\ pc' = "propagate" /\ UNCHANGED <<rules, kept, ignored>>
          /\ StartPass(ignored)
        BY <1>7 DEF NextPass, program
    <2>2. IgnoredNames' = IgnoredNames /\ AGlobalIsIgnored' = AGlobalIsIgnored
        BY <2>1 DEF IgnoredNames, AGlobalIsIgnored
    <2>3. at' = 1 /\ omitAll' = AGlobalIsIgnored
        BY <2>1 DEF StartPass, AGlobalIsIgnored
    <2>4. \A i \in kept' : ~(i < 1)
        BY <2>1, KeptIsTyped DEF TypeOK, ProgramOK
    <2>5. {i \in DOMAIN rules' : rules'[i].name \notin IgnoredNames'} \subseteq kept'
        BY <2>1, <2>2 DEF KeptInv
    <2> QED BY <2>1, <2>2, <2>3, <2>4, <2>5, Zenon DEF KeptInv, Validating, Generating
<1>8. CASE Filter
    <2>1. /\ pc = "propagate" /\ at > Len(rules) /\ ~changed /\ pc' # "propagate"
          /\ kept' = {i \in kept : rules[i].name \notin IgnoredNames}
          /\ UNCHANGED <<rules, ignored>>
        BY <1>8 DEF Filter, TypeOK, SpreadingOK
    <2>2. IgnoredNames' = IgnoredNames /\ AGlobalIsIgnored' = AGlobalIsIgnored
        BY <2>1 DEF IgnoredNames, AGlobalIsIgnored
    <2>3. kept \subseteq DOMAIN rules /\ \A i \in kept : i < at
        <3>1. at \in Nat /\ Len(rules) \in Nat
            BY LenProperties DEF TypeOK, SpreadingOK, ProgramOK
        <3>2. \A i \in kept : i \in Nat /\ i <= Len(rules)
            BY KeptIsTyped DEF TypeOK
        <3> QED BY <2>1, <3>1, <3>2 DEF TypeOK, ProgramOK
    <2>4. kept' = {i \in DOMAIN rules' : rules'[i].name \notin IgnoredNames'}
        BY <2>1, <2>2, <2>3 DEF KeptInv
    <2>5. AGlobalIsIgnored' => kept' = {}
        BY <2>1, <2>2, <2>3 DEF KeptInv
    <2> QED BY <2>1, <2>4, <2>5 DEF KeptInv
<1>9. CASE UNCHANGED vars
    <2>1. UNCHANGED <<rules, kept, ignored, pc, outcome, omitAll, changed, at>>
        BY <1>9 DEF vars, fixed, program, spreading
    <2>2. IgnoredNames' = IgnoredNames /\ AGlobalIsIgnored' = AGlobalIsIgnored
        BY <2>1 DEF IgnoredNames, AGlobalIsIgnored
    <2> QED BY <2>1, <2>2 DEF KeptInv, Validating, Generating
<1> QED BY <1>1, <1>2, <1>3, <1>4, <1>5, <1>6, <1>7, <1>8, <1>9 DEF Next, Step

\* A reference back to a rule of the path closes a circle of rules, none of them sound.
LEMMA CircleIsUnsound ==
    ASSUME TypeOK, PathInv, pc = "cycles", path # <<>>,
           NEW dep \in path[Len(path)].left, colour[dep] = 1
    PROVE  path[Len(path)].name \notin Sound(rules)
<1> DEFINE last == Len(path)
<1>1. last \in Nat /\ last \in DOMAIN path /\ DOMAIN path = 1 .. last /\ dep \in Names
    BY LastOfPath, LenProperties
<1>2. PICK m \in DOMAIN path : path[m].name = dep
    BY <1>1 DEF PathInv, PathNames
<1> DEFINE Circle == {path[k].name : k \in m .. last}
<1>3. ASSUME NEW k \in m .. last
      PROVE  \E d \in Circle : d \in Dependencies(path[k].name)
    <2>1. k \in DOMAIN path
        BY <1>1
    <2>2. CASE k = last
        <3>1. dep \in Dependencies(path[k].name)
            BY <1>1, <2>1, <2>2 DEF PathInv
        <3>2. m \in m .. last
            BY <1>1
        <3> QED BY <1>2, <3>1, <3>2
    <2>3. CASE k # last
        <3>1. k + 1 \in m .. last /\ k + 1 \in DOMAIN path
            BY <1>1, <2>3
        <3>2. path[k + 1].name \in Dependencies(path[k].name)
            BY <2>1, <3>1 DEF PathInv
        <3> QED BY <3>1, <3>2
    <2> QED BY <2>2, <2>3
<1>4. ASSUME NEW n \in Circle, n \in RestsOn(rules, Names \ Circle) PROVE FALSE
    <2>1. PICK d \in Circle : d \in Dependencies(n)
        BY <1>3
    <2>2. PICK i \in kept : rules[i].name = n /\ d \in Refs(rules[i])
        BY <2>1, DependencyIsRef
    <2>3. i \in Holders(rules, n)
        BY <2>2 DEF Holders, TypeOK, ProgramOK
    <2> HIDE DEF Circle
    <2>4. Refs(rules[i]) \subseteq Names \ Circle
        BY <1>4, <2>3 DEF RestsOn
    <2> QED BY <2>1, <2>2, <2>4
<1>5. Circle \cap Grounded(rules) = {}
    <2> HIDE DEF Circle
    <2> QED BY <1>4, NoneGrounded
<1>6. path[last].name \in Circle
    BY <1>1
<1> QED BY <1>5, <1>6, SoundRestsOnItself

\* What the search reads of the program does not change during it.
LEMMA SameDependencies ==
    ASSUME UNCHANGED program
    PROVE  KeptNames' = KeptNames /\ \A n : Dependencies(n)' = Dependencies(n)
BY DEF program, KeptNames, Dependencies

\* The path with one name more.
LEMMA LongerPath ==
    ASSUME NEW below \in Seq([name : Names, left : SUBSET Names]), NEW name \in Names, TypeOK,
           Enter(name, below)
    PROVE  /\ DOMAIN below = 1 .. Len(below) /\ Len(below) \in Nat
           /\ DOMAIN path' = DOMAIN below \cup {Len(below) + 1}
           /\ \A k \in DOMAIN below : path'[k] = below[k]
           /\ path'[Len(below) + 1].name = name
           /\ path'[Len(below) + 1].left = Dependencies(name)
           /\ \A n \in Names : colour'[n] = IF n = name THEN 1 ELSE colour[n]
<1> DEFINE step == [name |-> name, left |-> Dependencies(name)]
<1>1. step \in [name : Names, left : SUBSET Names]
    BY KeptIsTyped DEF TypeOK
<1>2. path' = Append(below, step)
    BY DEF Enter
<1>3. step.name = name /\ step.left = Dependencies(name)
    OBVIOUS
<1>4. \A n \in Names : colour'[n] = IF n = name THEN 1 ELSE colour[n]
    BY DEF Enter, TypeOK, CheckingOK
<1> HIDE DEF step
<1>5. /\ path' \in Seq([name : Names, left : SUBSET Names])
      /\ Len(path') = Len(below) + 1
      /\ \A k \in 1 .. Len(below) : path'[k] = below[k]
      /\ path'[Len(below) + 1] = step
    BY <1>1, <1>2, AppendProperties
<1>6. /\ DOMAIN below = 1 .. Len(below) /\ Len(below) \in Nat
      /\ DOMAIN path' = 1 .. (Len(below) + 1)
    BY <1>5, LenProperties
<1>7. DOMAIN path' = DOMAIN below \cup {Len(below) + 1}
    BY <1>6
<1> QED BY <1>3, <1>4, <1>5, <1>6, <1>7

\* The path with one reference less to follow.
LEMMA FollowedPath ==
    ASSUME TypeOK, path # <<>>, NEW dep \in path[Len(path)].left, NEW rest,
           rest = [path EXCEPT ![Len(path)].left = @ \ {dep}]
    PROVE  /\ rest \in Seq([name : Names, left : SUBSET Names])
           /\ Len(rest) = Len(path) /\ DOMAIN rest = DOMAIN path
           /\ DOMAIN path = 1 .. Len(path) /\ Len(path) \in DOMAIN path
           /\ \A k \in DOMAIN path : rest[k].name = path[k].name
           /\ \A k \in DOMAIN path \ {Len(path)} : rest[k].left = path[k].left
           /\ rest[Len(path)].left = path[Len(path)].left \ {dep}
<1> DEFINE PathRecord == [name : Names, left : SUBSET Names]
           last == path[Len(path)]
           less == [last EXCEPT !.left = @ \ {dep}]
<1>1. path \in Seq(PathRecord) /\ Len(path) \in 1 .. Len(path) /\ last \in PathRecord
    BY LastOfPath
<1>2. less \in PathRecord /\ less.name = last.name /\ less.left = last.left \ {dep}
    BY <1>1
<1> DEFINE other == [path EXCEPT ![Len(path)] = less]
<1>3. rest = other
    OBVIOUS
<1>4. /\ other \in Seq(PathRecord) /\ Len(other) = Len(path)
      /\ \A k \in 1 .. Len(path) : other[k] = IF k = Len(path) THEN less ELSE path[k]
    <2> HIDE DEF PathRecord, less, last
    <2> QED BY <1>1, <1>2, ExceptSeq
<1>5. DOMAIN rest = DOMAIN path /\ DOMAIN path = 1 .. Len(path)
    <2> HIDE DEF PathRecord, other
    <2> QED BY <1>1, <1>3, <1>4, LenProperties
<1> HIDE DEF less, other
<1> QED BY <1>1, <1>2, <1>3, <1>4, <1>5

\* The path without its last name.
LEMMA ShorterPath ==
    ASSUME TypeOK, path # <<>>, NEW front, front = SubSeq(path, 1, Len(path) - 1)
    PROVE  /\ DOMAIN path = 1 .. Len(path) /\ Len(path) \in DOMAIN path
           /\ DOMAIN front = 1 .. (Len(path) - 1)
           /\ \A k \in DOMAIN front : k \in DOMAIN path /\ front[k] = path[k]
<1> DEFINE PathRecord == [name : Names, left : SUBSET Names]
<1>1. path \in Seq(PathRecord) /\ Len(path) \in 1 .. Len(path)
    BY LastOfPath
<1>2. Len(path) \in Nat /\ DOMAIN path = 1 .. Len(path)
    <2> HIDE DEF PathRecord
    <2> QED BY <1>1, LenProperties
<1>3. ASSUME NEW i \in 1 .. (Len(path) - 1) PROVE path[i] \in PathRecord
    <2>1. i \in 1 .. Len(path)
        BY <1>2
    <2> HIDE DEF PathRecord
    <2> QED BY <1>1, <2>1, ElementOfSeq
<1>4. /\ front \in Seq(PathRecord) /\ Len(front) = Len(path) - 1
      /\ \A k \in 1 .. (Len(path) - 1) : front[k] = path[k]
    <2> HIDE DEF PathRecord
    <2> QED BY <1>1, <1>2, <1>3, SubSeqProperties
<1>5. DOMAIN front = 1 .. (Len(path) - 1)
    <2> HIDE DEF PathRecord
    <2> QED BY <1>4, LenProperties
<1> QED BY <1>1, <1>2, <1>4, <1>5

\* The search begins.
LEMMA SearchBegins ==
    ASSUME TypeOK, IgnoredInv, CollectSymbols
    PROVE  PathInv' /\ OrderInv'
<1>1. /\ pc = "validate" /\ pc' = "cycles" /\ UNCHANGED program /\ path' = <<>>
      /\ colour' = NotVisited /\ errors' = DuplicateNames /\ rules' = rules /\ kept' = kept
    BY DEF CollectSymbols, Goto, DuplicateNames, program
<1>2. DOMAIN path' = {} /\ PathNames' = {} /\ \A n \in Names : colour'[n] = 0
    BY <1>1 DEF PathNames, NotVisited
<1>3. ASSUME NEW n \in errors', n \in Sound(rules) PROVE FALSE
    <2>1. PICK i \in kept : rules[i].name = n /\ \E k \in kept : i < k /\ rules[k].name = n
        BY <1>1, <1>3 DEF DuplicateNames
    <2>2. PICK k \in kept : i < k /\ rules[k].name = n
        BY <2>1
    <2>3. k = i
        BY <1>1, <1>3, <2>1, <2>2, UnsoundRules DEF Loaded, Validating
    <2>4. i \in Nat
        BY KeptIsTyped DEF TypeOK
    <2> QED BY <2>2, <2>3, <2>4
<1>4. PathInv'
    BY <1>1, <1>2, <1>3 DEF PathInv
<1>5. Black' = {}
    BY <1>2 DEF Black
<1> QED BY <1>1, <1>2, <1>4, <1>5 DEF OrderInv, Acyclic

\* A rule nobody has come to is the first of a new path.
LEMMA VisitStep ==
    ASSUME TypeOK, PathInv, OrderInv, Visit
    PROVE  PathInv' /\ OrderInv'
<1>1. /\ pc = "cycles" /\ pc' = "cycles" /\ path = <<>> /\ UNCHANGED program
      /\ errors' = errors /\ rules' = rules
      /\ \E i \in First(Unvisited) : Enter(rules[i].name, path)
    BY DEF Visit, program
<1>2. PICK i \in First(Unvisited) : Enter(rules[i].name, path)
    BY <1>1
<1> DEFINE name == rules[i].name
<1>3. name \in Names /\ colour[name] = 0
    BY <1>2, KeptIsTyped DEF First, Unvisited, TypeOK
<1>4. path \in Seq([name : Names, left : SUBSET Names]) /\ Len(path) = 0
    BY <1>1, EmptySeq DEF TypeOK, CheckingOK
<1>5. /\ DOMAIN path' = {1} /\ path'[1].name = name /\ path'[1].left = Dependencies(name)
      /\ \A n \in Names : colour'[n] = IF n = name THEN 1 ELSE colour[n]
    <2> HIDE DEF name
    <2>1. Enter(name, path)
        BY <1>2 DEF name
    <2>2. /\ DOMAIN path' = DOMAIN path \cup {Len(path) + 1} /\ DOMAIN path = 1 .. Len(path)
          /\ path'[Len(path) + 1].name = name
          /\ path'[Len(path) + 1].left = Dependencies(name)
          /\ \A n \in Names : colour'[n] = IF n = name THEN 1 ELSE colour[n]
        BY <1>3, <1>4, <2>1, LongerPath
    <2>3. Len(path) + 1 = 1 /\ 1 .. Len(path) = {}
        BY <1>4
    <2> QED BY <2>2, <2>3, Zenon
<1>6. PathNames = {} /\ PathNames' = {name}
    BY <1>1, <1>5 DEF PathNames
<1>7. \A n : Dependencies(n)' = Dependencies(n)
    BY <1>1, SameDependencies
<1> HIDE DEF name
<1>8. PathInv'
    <2>1. \A n \in Names : colour[n] # 1
        BY <1>1, <1>6 DEF PathInv
    <2>2. \A n \in Names : colour'[n] = 1 <=> n \in PathNames'
        BY <1>5, <1>6, <2>1
    <2> QED BY <1>1, <1>5, <1>7, <2>2 DEF PathInv
<1>9. Black' = Black
    BY <1>3, <1>5 DEF Black
<1>10. OrderInv'
    BY <1>1, <1>5, <1>7, <1>9 DEF OrderInv, Acyclic
<1> QED BY <1>8, <1>10

\* A reference of the last rule of the path is followed.
LEMMA FollowStep ==
    ASSUME TypeOK, PathInv, OrderInv, Follow
    PROVE  PathInv' /\ OrderInv'
<1> DEFINE last == Len(path)
           rest(dep) == [path EXCEPT ![Len(path)].left = @ \ {dep}]
<1>1. /\ pc = "cycles" /\ pc' = "cycles" /\ path # <<>> /\ UNCHANGED program /\ rules' = rules
    BY DEF Follow, program
<1>2. PICK dep \in path[last].left :
        /\ IF colour[dep] = 0 THEN Enter(dep, rest(dep))
           ELSE path' = rest(dep) /\ UNCHANGED colour
        /\ errors' = IF colour[dep] = 1 THEN errors \cup {path[last].name} ELSE errors
    BY DEF Follow
<1> DEFINE shorter == rest(dep)
<1>3. /\ shorter \in Seq([name : Names, left : SUBSET Names])
      /\ Len(shorter) = last /\ DOMAIN shorter = DOMAIN path
      /\ DOMAIN path = 1 .. last /\ last \in DOMAIN path /\ last \in Nat
      /\ \A k \in DOMAIN path : shorter[k].name = path[k].name
      /\ \A k \in DOMAIN path \ {last} : shorter[k].left = path[k].left
      /\ shorter[last].left = path[last].left \ {dep}
    <2>1. last \in Nat
        BY LenProperties DEF TypeOK, CheckingOK
    <2>2. shorter = [path EXCEPT ![Len(path)].left = @ \ {dep}]
        OBVIOUS
    <2> HIDE DEF rest, shorter
    <2> QED BY <1>1, <2>1, <2>2, FollowedPath
<1>4. dep \in Names /\ dep \in Dependencies(path[last].name) /\ path[last].name \in Names
    BY <1>1, <1>3, LastOfPath DEF PathInv
<1>5. \A n : Dependencies(n)' = Dependencies(n)
    BY <1>1, SameDependencies
<1>6. errors' \cap Sound(rules') = {} /\ (errors' = {} => errors = {} /\ colour[dep] # 1)
    <2>1. colour[dep] = 1 => path[last].name \notin Sound(rules)
        BY <1>1, CircleIsUnsound
    <2> QED BY <1>1, <1>2, <2>1 DEF PathInv
<1>7. /\ \A n \in Names : colour[n] = 1 <=> n \in PathNames
      /\ \A k, l \in DOMAIN path : path[k].name = path[l].name => k = l
      /\ \A k \in DOMAIN path : path[k].left \subseteq Dependencies(path[k].name)
      /\ \A k, l \in DOMAIN path : l = k + 1 => path[l].name \in Dependencies(path[k].name)
    BY <1>1 DEF PathInv
<1>8. ASSUME errors = {}
      PROVE  /\ \A k \in DOMAIN path : \A d \in Dependencies(path[k].name) \ path[k].left :
                    d \in Black \/ \E l \in DOMAIN path : l = k + 1 /\ path[l].name = d
             /\ \A n \in Black : Dependencies(n) \subseteq Black
             /\ Acyclic(Black)
    BY <1>1, <1>8 DEF OrderInv
<1>9. CASE colour[dep] # 0
    <2> HIDE DEF last, rest, shorter
    <2>1. path' = shorter /\ colour' = colour
        BY <1>2, <1>9 DEF shorter
    <2>2. DOMAIN path' = DOMAIN path /\ \A k \in DOMAIN path : path'[k].name = path[k].name
        BY <1>3, <2>1
    <2>3. PathNames' = PathNames /\ Black' = Black
        BY <2>1, <2>2 DEF PathNames, Black
    <2>4. \A k \in DOMAIN path : path'[k].left \subseteq path[k].left
        BY <1>3, <2>1
    <2>5. PathInv'
        BY <1>1, <1>5, <1>6, <1>7, <2>1, <2>2, <2>3, <2>4 DEF PathInv
    <2>6. ASSUME errors' = {}, NEW k \in DOMAIN path,
                 NEW d \in Dependencies(path[k].name) \ path'[k].left
          PROVE  d \in Black \/ \E l \in DOMAIN path : l = k + 1 /\ path[l].name = d
        <3>1. CASE d \in path[k].left
            <4>1. k = last /\ d = dep
                BY <1>3, <2>1, <2>6, <3>1
            <4>2. colour[dep] = 2
                BY <1>4, <1>6, <1>9, <2>6 DEF TypeOK, CheckingOK
            <4> QED BY <1>4, <4>1, <4>2 DEF Black
        <3>2. CASE d \notin path[k].left
            BY <1>6, <1>8, <2>6, <3>2
        <3> QED BY <3>1, <3>2
    <2>7. OrderInv'
        <3>1. (errors = {} => Acyclic(Black))'
            BY <1>5, <1>6, <1>8, <2>3 DEF Acyclic
        <3> QED BY <1>1, <1>5, <1>6, <1>8, <2>2, <2>3, <2>6, <3>1 DEF OrderInv
    <2> QED BY <2>5, <2>7
<1>10. CASE colour[dep] = 0
    <2> HIDE DEF last, rest, shorter
    <2>1. Enter(dep, shorter)
        BY <1>2, <1>10 DEF shorter
    <2>2. /\ DOMAIN path' = DOMAIN path \cup {last + 1}
          /\ \A k \in DOMAIN path : path'[k] = shorter[k] /\ k # last + 1
          /\ path'[last + 1].name = dep /\ path'[last + 1].left = Dependencies(dep)
          /\ \A n \in Names : colour'[n] = IF n = dep THEN 1 ELSE colour[n]
        <3>1. \A k \in DOMAIN path : k # last + 1
            BY <1>3
        <3>2. /\ DOMAIN path' = DOMAIN shorter \cup {Len(shorter) + 1}
              /\ \A k \in DOMAIN shorter : path'[k] = shorter[k]
              /\ path'[Len(shorter) + 1].name = dep
              /\ path'[Len(shorter) + 1].left = Dependencies(dep)
              /\ \A n \in Names : colour'[n] = IF n = dep THEN 1 ELSE colour[n]
            <4>1. shorter \in Seq([name : Names, left : SUBSET Names]) /\ dep \in Names
                BY <1>3, <1>4
            <4> QED BY <2>1, <4>1, LongerPath
        <3> QED BY <1>3, <3>1, <3>2
    <2>3. \A k \in DOMAIN path : path'[k].name = path[k].name /\ path'[k].left \subseteq path[k].left
        BY <1>3, <2>2
    <2>4. PathNames' = PathNames \cup {dep} /\ dep \notin PathNames
        <3>1. dep \notin PathNames
            BY <1>4, <1>7, <1>10
        <3> QED BY <2>2, <2>3, <3>1 DEF PathNames
    <2>5. Black' = Black
        BY <1>4, <1>10, <2>2 DEF Black
    <2>6. ASSUME NEW k \in DOMAIN path', NEW l \in DOMAIN path', path'[k].name = path'[l].name
          PROVE  k = l
        <3>1. \A j \in DOMAIN path : path'[j].name # dep
            BY <2>3, <2>4 DEF PathNames
        <3> QED BY <1>7, <2>2, <2>3, <2>6, <3>1
    <2>7. ASSUME NEW k \in DOMAIN path', NEW l \in DOMAIN path', l = k + 1
          PROVE  path'[l].name \in Dependencies(path'[k].name)
        <3>1. CASE l = last + 1
            <4>1. k = last
                BY <1>3, <2>2, <2>7, <3>1
            <4> QED BY <1>3, <1>4, <2>2, <2>3, <3>1, <4>1
        <3>2. CASE l # last + 1
            <4>1. l \in DOMAIN path /\ k \in DOMAIN path
                BY <1>3, <2>2, <2>7, <3>2
            <4> QED BY <1>7, <2>3, <2>7, <4>1
        <3> QED BY <3>1, <3>2
    <2>8. PathInv'
        <3>1. \A n \in Names : colour'[n] = 1 <=> n \in PathNames'
            BY <1>7, <2>2, <2>4
        <3>2. \A k \in DOMAIN path' : path'[k].left \subseteq Dependencies(path'[k].name)
            BY <1>7, <2>2, <2>3
        <3> QED BY <1>1, <1>5, <1>6, <2>6, <2>7, <3>1, <3>2 DEF PathInv
    <2>9. ASSUME errors' = {}, NEW k \in DOMAIN path',
                 NEW d \in Dependencies(path'[k].name) \ path'[k].left
          PROVE  d \in Black \/ \E l \in DOMAIN path' : l = k + 1 /\ path'[l].name = d
        <3>1. k # last + 1 /\ k \in DOMAIN path
            BY <2>2, <2>9
        <3>2. CASE d \in path[k].left
            <4>1. k = last /\ d = dep
                BY <1>3, <2>2, <2>9, <3>1, <3>2
            <4> QED BY <2>2, <4>1
        <3>3. CASE d \notin path[k].left
            <4>1. d \in Black \/ \E l \in DOMAIN path : l = k + 1 /\ path[l].name = d
                BY <1>6, <1>8, <2>3, <2>9, <3>1, <3>3
            <4> QED BY <2>2, <2>3, <4>1
        <3> QED BY <3>2, <3>3
    <2>10. OrderInv'
        <3>1. (errors = {} => Acyclic(Black))'
            BY <1>5, <1>6, <1>8, <2>5 DEF Acyclic
        <3> QED BY <1>1, <1>5, <1>6, <1>8, <2>5, <2>9, <3>1 DEF OrderInv
    <2> QED BY <2>8, <2>10
<1> QED BY <1>9, <1>10

\* The last rule of the path is finished: all it refers to was finished before.
LEMMA LeaveStep ==
    ASSUME TypeOK, PathInv, OrderInv, Leave
    PROVE  PathInv' /\ OrderInv'
<1> DEFINE last == Len(path)
           name == path[last].name
<1>1. /\ pc = "cycles" /\ pc' = "cycles" /\ path # <<>> /\ path[last].left = {}
      /\ UNCHANGED program /\ rules' = rules /\ errors' = errors
      /\ colour' = [colour EXCEPT ![name] = 2] /\ path' = SubSeq(path, 1, Len(path) - 1)
    BY DEF Leave, program
<1>2. /\ DOMAIN path = 1 .. last /\ last \in DOMAIN path /\ last \in Nat
      /\ DOMAIN path' = 1 .. (last - 1)
      /\ \A k \in DOMAIN path' : k \in DOMAIN path /\ path'[k] = path[k]
    <2>1. last \in Nat
        BY LenProperties DEF TypeOK, CheckingOK
    <2> QED BY <1>1, <2>1, ShorterPath
<1>3. name \in Names /\ \A n \in Names : colour'[n] = IF n = name THEN 2 ELSE colour[n]
    <2>1. name \in Names
        BY <1>1, LastOfPath
    <2> HIDE DEF name
    <2> QED BY <1>1, <2>1 DEF TypeOK, CheckingOK
<1>4. \A n : Dependencies(n)' = Dependencies(n)
    BY <1>1, SameDependencies
<1> HIDE DEF last
<1>5. /\ \A n \in Names : colour[n] = 1 <=> n \in PathNames
      /\ \A k, l \in DOMAIN path : path[k].name = path[l].name => k = l
    BY <1>1 DEF PathInv
<1>6. \A k \in DOMAIN path : k = last \/ k \in DOMAIN path'
    BY <1>2
<1>7. PathNames' = PathNames \ {name}
    <2>1. last \notin DOMAIN path'
        BY <1>2
    <2>2. \A k \in DOMAIN path' : path[k].name # name
        BY <1>2, <1>5, <2>1
    <2> QED BY <1>2, <1>6, <2>2 DEF PathNames
<1>8. PathInv'
    <2>1. \A n \in Names : colour'[n] = 1 <=> n \in PathNames'
        BY <1>3, <1>5, <1>7
    <2>2. /\ \A k, l \in DOMAIN path' : path'[k].name = path'[l].name => k = l
          /\ \A k \in DOMAIN path' : path'[k].left \subseteq Dependencies(path'[k].name)
          /\ \A k, l \in DOMAIN path' : l = k + 1 => path'[l].name \in Dependencies(path'[k].name)
        <3> HIDE DEF name
        <3> QED BY <1>1, <1>2 DEF PathInv
    <2> QED BY <1>1, <1>4, <2>1, <2>2 DEF PathInv
<1>9. Black' = Black \cup {name} /\ name \notin Black
    <2>1. name \in PathNames
        BY <1>2 DEF PathNames
    <2> HIDE DEF name
    <2> QED BY <1>3, <1>5, <2>1 DEF Black
<1>10. ASSUME errors = {}
       PROVE  /\ \A k \in DOMAIN path' : \A d \in Dependencies(path'[k].name) \ path'[k].left :
                     d \in Black' \/ \E l \in DOMAIN path' : l = k + 1 /\ path'[l].name = d
              /\ \A n \in Black' : Dependencies(n) \subseteq Black'
              /\ Acyclic(Black)'
    <2>1. /\ \A k \in DOMAIN path : \A d \in Dependencies(path[k].name) \ path[k].left :
                d \in Black \/ \E l \in DOMAIN path : l = k + 1 /\ path[l].name = d
          /\ \A n \in Black : Dependencies(n) \subseteq Black
          /\ Acyclic(Black)
        BY <1>1, <1>10 DEF OrderInv
    <2>2. Dependencies(name) \subseteq Black
        <3>1. last + 1 \notin DOMAIN path
            BY <1>2
        <3> QED BY <1>1, <1>2, <2>1, <3>1
    <2>3. ASSUME NEW k \in DOMAIN path', NEW d \in Dependencies(path'[k].name) \ path'[k].left
          PROVE  d \in Black' \/ \E l \in DOMAIN path' : l = k + 1 /\ path'[l].name = d
        <3>1. d \in Black \/ \E l \in DOMAIN path : l = k + 1 /\ path[l].name = d
            BY <1>2, <2>1, <2>3
        <3>2. CASE d \in Black
            BY <1>9, <3>2
        <3>3. CASE \E l \in DOMAIN path : l = k + 1 /\ path[l].name = d
            <4>1. PICK l \in DOMAIN path : l = k + 1 /\ path[l].name = d
                BY <3>3
            <4>2. CASE l = last
                BY <1>9, <4>1, <4>2
            <4>3. CASE l # last
                BY <1>2, <1>6, <4>1, <4>3
            <4> QED BY <4>2, <4>3
        <3> QED BY <3>1, <3>2, <3>3
    <2>4. \A n \in Black' : Dependencies(n) \subseteq Black'
        BY <1>9, <2>1, <2>2
    <2> HIDE DEF name
    <2>5. ASSUME NEW T \in SUBSET Black', T # {} PROVE \E n \in T : Dependencies(n) \cap T = {}
        <3>1. CASE T \cap Black # {}
            <4>1. PICK n \in T \cap Black : Dependencies(n) \cap (T \cap Black) = {}
                BY <2>1, <3>1 DEF Acyclic
            <4>2. Dependencies(n) \subseteq Black
                BY <2>1
            <4> QED BY <4>1, <4>2
        <3>2. CASE T \cap Black = {}
            <4>1. T = {name}
                BY <1>9, <2>5, <3>2
            <4> QED BY <1>9, <2>2, <4>1
        <3> QED BY <3>1, <3>2
    <2>6. Acyclic(Black)'
        BY <1>4, <2>5 DEF Acyclic
    <2> QED BY <2>3, <2>4, <2>6
<1>11. OrderInv'
    BY <1>1, <1>4, <1>10 DEF OrderInv
<1> QED BY <1>8, <1>11

\* The rest of validation, over a graph that was searched to its end.
LEMMA ValidateStep ==
    ASSUME TypeOK, IgnoredInv, KeptInv, PathInv, OrderInv, ValidateRules
    PROVE  PathInv' /\ OrderInv'
<1> DEFINE found == {rules[i].name : i \in {j \in kept : \/ rules[j].state = "wrong"
                                                         \/ ~(Refs(rules[j]) \subseteq KeptNames)}}
<1>1. /\ pc = "cycles" /\ pc' = "judge" /\ path = <<>> /\ Unvisited = {}
      /\ errors' = errors \cup found /\ UNCHANGED program /\ rules' = rules /\ kept' = kept
    BY DEF ValidateRules, Goto, program
<1>2. ASSUME NEW n \in found, n \in Sound(rules) PROVE FALSE
    <2>1. PICK i \in kept : /\ rules[i].name = n
                            /\ rules[i].state = "wrong" \/ ~(Refs(rules[i]) \subseteq KeptNames)
        OBVIOUS
    <2>2. Loaded /\ Validating
        BY <1>1 DEF Loaded, Validating
    <2>3. \A j \in DOMAIN rules : rules[j].name \notin IgnoredNames => j \in kept
        BY <2>2 DEF KeptInv
    <2> HIDE DEF found
    <2> QED BY <1>2, <2>1, <2>2, <2>3, UnsoundRules
<1>3. PathInv'
    <2> HIDE DEF found
    <2> QED BY <1>1, <1>2 DEF PathInv
<1>4. KeptNames \subseteq Black
    <2> SUFFICES ASSUME NEW i \in kept PROVE rules[i].name \in Black
        BY DEF KeptNames
    <2>1. rules[i].name \in Names /\ colour[rules[i].name] # 0
        BY <1>1, KeptIsTyped DEF Unvisited, TypeOK
    <2>2. colour[rules[i].name] # 1
        BY <1>1, <2>1 DEF PathInv, PathNames
    <2> QED BY <2>1, <2>2 DEF Black, TypeOK, CheckingOK
<1>5. ASSUME errors' = {} PROVE Acyclic(KeptNames)' /\ \A i \in kept : rules[i].state # "wrong"
    <2>1. errors = {} /\ found = {}
        BY <1>1, <1>5
    <2>2. Acyclic(Black)
        BY <1>1, <2>1 DEF OrderInv
    <2>3. Acyclic(KeptNames)
        BY <1>4, <2>2 DEF Acyclic
    <2>4. KeptNames' = KeptNames /\ \A n : Dependencies(n)' = Dependencies(n)
        BY <1>1, SameDependencies
    <2>5. Acyclic(KeptNames)'
        BY <2>3, <2>4 DEF Acyclic
    <2> QED BY <2>1, <2>5
<1>6. OrderInv'
    BY <1>1, <1>5 DEF OrderInv
<1> QED BY <1>3, <1>6

LEMMA SearchStep ==
    ASSUME TypeOK, IgnoredInv, KeptInv, PathInv, OrderInv, [Next]_vars
    PROVE  PathInv' /\ OrderInv'
<1> USE DEF Goto, Return
<1>1. CASE CollectSymbols
    BY <1>1, SearchBegins
<1>2. CASE Visit
    BY <1>2, VisitStep
<1>3. CASE Follow
    BY <1>3, FollowStep
<1>4. CASE Leave
    BY <1>4, LeaveStep
<1>5. CASE ValidateRules
    BY <1>5, ValidateStep
<1>6. CASE \/ \E file \in Files : CompileSource(file)
           \/ \E name \in Paths : CompileFile(name)
           \/ ResetStats \/ ParseMain \/ OpenInclude \/ CloseInclude \/ Assembled \/ ProcessImports
           \/ Semantics \/ Judge \/ Propagate \/ NextPass \/ Filter \/ CodeGen \/ Generate \/ Finish
           \/ Cancel
    <2>1. pc' \notin {"cycles", "judge"}
        BY <1>6 DEF CompileSource, CompileFile, ResetStats, ParseMain, OpenInclude, CloseInclude,
                    Assembled, ProcessImports, Semantics, Judge, Propagate, NextPass, Filter,
                    CodeGen, Generate, Finish, Cancel, TypeOK, SpreadingOK
    <2> QED BY <2>1 DEF PathInv, OrderInv
<1>7. CASE UNCHANGED vars
    <2>1. UNCHANGED <<pc, rules, kept, errors, colour, path>> /\ UNCHANGED program
        BY <1>7 DEF vars, program, checking
    <2>2. PathNames' = PathNames /\ Black' = Black
        BY <2>1 DEF PathNames, Black
    <2>3. KeptNames' = KeptNames /\ \A n : Dependencies(n)' = Dependencies(n)
        BY <2>1, SameDependencies
    <2>4. PathInv'
        BY <2>1, <2>2, <2>3 DEF PathInv
    <2>5. (Acyclic(Black) => Acyclic(Black)') /\ (Acyclic(KeptNames) => Acyclic(KeptNames)')
        BY <2>2, <2>3 DEF Acyclic
    <2>6. OrderInv'
        BY <2>1, <2>2, <2>3, <2>5 DEF OrderInv
    <2> QED BY <2>4, <2>6
<1> QED BY <1>1, <1>2, <1>3, <1>4, <1>5, <1>6, <1>7 DEF Next, Step

\* A validated program without an error has no circle of references.
LEMMA NoErrorsMeanOrder ==
    ASSUME TypeOK, DuplicateNames = {}, Acyclic(KeptNames)
    PROVE  WellFounded
<1> SUFFICES ASSUME NEW T \in SUBSET kept, T # {}
             PROVE  \E i \in T : \A j \in T : rules[j].name \notin Refs(rules[i])
    BY DEF WellFounded
<1> DEFINE its == {rules[i].name : i \in T}
<1>1. its \in SUBSET KeptNames /\ its # {}
    BY DEF KeptNames
<1>2. PICK n \in its : Dependencies(n) \cap its = {}
    <2> HIDE DEF its
    <2> QED BY <1>1 DEF Acyclic
<1>3. PICK i \in T : rules[i].name = n
    OBVIOUS
<1>4. Dependencies(n) = Refs(rules[i]) \cap KeptNames
    BY <1>3, UniqueDependencies
<1>5. ASSUME NEW j \in T PROVE rules[j].name \notin Refs(rules[i])
    <2>1. rules[j].name \in its /\ rules[j].name \in KeptNames
        BY <1>1
    <2> HIDE DEF its
    <2> QED BY <1>2, <1>4, <2>1
<1> QED BY <1>5

\* Removing rules makes no circle.
LEMMA FewerRules ==
    ASSUME OrderedInv, FromCodeGen, rules' = rules, kept' \subseteq kept
    PROVE  WellFounded' /\ \A i \in kept' : rules'[i].state # "wrong"
BY DEF OrderedInv, WellFounded

LEMMA OrderedStep ==
    ASSUME TypeOK, ClosureInv, OrderInv, OrderedInv, [Next]_vars
    PROVE  OrderedInv'
<1> USE DEF Goto, Return
<1>1. CASE \/ \E file \in Files : CompileSource(file)
           \/ \E name \in Paths : CompileFile(name)
           \/ ResetStats \/ ParseMain \/ OpenInclude \/ CloseInclude \/ Assembled \/ ProcessImports
           \/ Semantics \/ CollectSymbols \/ Visit \/ Follow \/ Leave \/ ValidateRules \/ Cancel
    <2>1. \/ pc' \in {"source", "parse", "include", "imports", "semantics", "validate", "cycles",
                      "judge"}
          \/ pc' = "idle" /\ outcome' # "ok"
        BY <1>1 DEF CompileSource, CompileFile, ResetStats, ParseMain, OpenInclude, CloseInclude,
                    Assembled, ProcessImports, Semantics, CollectSymbols, Visit, Follow, Leave,
                    ValidateRules, Cancel
    <2> QED BY <2>1 DEF OrderedInv, FromCodeGen
<1>2. CASE Judge
    <2>1. CASE errors = {} /\ ~BadVariable
        <3>1. pc = "judge" /\ pc' = "codegen" /\ UNCHANGED <<rules, kept>>
            BY <1>2, <2>1 DEF Judge, program
        <3>2. DuplicateNames = {}
            BY <2>1, <3>1 DEF ClosureInv, ErrorsAreComplete
        <3>3. WellFounded /\ \A i \in kept : rules[i].state # "wrong"
            BY <2>1, <3>1, <3>2, NoErrorsMeanOrder DEF OrderInv
        <3>4. WellFounded'
            BY <3>1, <3>3 DEF WellFounded
        <3> QED BY <3>1, <3>3, <3>4 DEF OrderedInv
    <2>2. CASE ~(errors = {} /\ ~BadVariable)
        <3>1. \/ pc' = "propagate" /\ back' = "validate"
              \/ pc' = "idle" /\ outcome' = "error"
            BY <1>2, <2>2 DEF Judge
        <3> QED BY <3>1 DEF OrderedInv, FromCodeGen
    <2> QED BY <2>1, <2>2
<1>3. CASE Propagate \/ NextPass \/ Filter
    <2>1. /\ pc = "propagate" /\ back' = back /\ rules' = rules /\ kept' \subseteq kept
          /\ pc' = "propagate" \/ pc' = back
        BY <1>3 DEF Propagate, NextPass, Filter, program, spreading
    <2>2. CASE back = "generate"
        <3>1. FromCodeGen /\ pc' \in {"propagate", "generate"}
            BY <2>1, <2>2 DEF FromCodeGen
        <3> QED BY <2>1, <3>1, FewerRules DEF OrderedInv
    <2>3. CASE back = "validate"
        BY <2>1, <2>3 DEF OrderedInv, FromCodeGen
    <2> QED BY <2>2, <2>3 DEF TypeOK, SpreadingOK
<1>4. CASE CodeGen \/ Generate \/ Finish
    <2>1. FromCodeGen /\ rules' = rules /\ kept' = kept
        BY <1>4 DEF CodeGen, Generate, Finish, FromCodeGen, program
    <2>2. WellFounded' /\ \A i \in kept' : rules'[i].state # "wrong"
        BY <2>1, FewerRules
    <2>3. ASSUME pc' = "finish" \/ (pc' = "idle" /\ outcome' = "ok"), NEW i \in kept'
          PROVE  rules'[i].state # "unable"
        <3>1. CASE Generate
            <4>1. Unable = {}
                BY <2>3, <3>1 DEF Generate
            <4> QED BY <2>1, <2>3, <4>1 DEF Unable
        <3>2. CASE Finish
            BY <2>1, <2>3, <3>2 DEF Finish, OrderedInv
        <3>3. CASE CodeGen
            BY <2>3, <3>3 DEF CodeGen
        <3> QED BY <1>4, <3>1, <3>2, <3>3
    <2> QED BY <2>2, <2>3 DEF OrderedInv
<1>5. CASE UNCHANGED vars
    <2>1. UNCHANGED <<pc, outcome, back, rules, kept>>
        BY <1>5 DEF vars, program, spreading
    <2>2. WellFounded' = WellFounded
        BY <2>1 DEF WellFounded
    <2> QED BY <2>1, <2>2 DEF OrderedInv, FromCodeGen
<1> QED BY <1>1, <1>2, <1>3, <1>4, <1>5 DEF Next, Step

\* A rule that is kept to the end is grounded: of the kept rules that are not, one refers
\* to none of the others.
LEMMA KeptIsGrounded ==
    ASSUME TypeOK, ClosureInv, IgnoredInv, KeptInv, OrderedInv, pc = "idle", outcome = "ok"
    PROVE  KeptNames \subseteq Grounded(rules)
<1> DEFINE G == Grounded(rules)
           T == {i \in kept : rules[i].name \notin G}
<1>1. Closed /\ WellFounded /\ rules \in Seq(SourceRule)
    BY DEF ClosureInv, FromCodeGen, OrderedInv, TypeOK, ProgramOK
<1>2. kept = {i \in DOMAIN rules : rules[i].name \notin IgnoredNames}
    BY DEF KeptInv, Generating
<1>3. ASSUME T # {} PROVE FALSE
    <2>1. PICK i \in T : \A j \in T : rules[j].name \notin Refs(rules[i])
        BY <1>1, <1>3 DEF WellFounded
    <2> HIDE DEF G
    <2>2. i \in kept /\ rules[i].name \notin G /\ rules[i] \in SourceRule
        BY KeptIsTyped DEF TypeOK
    <2>3. Refs(rules[i]) \subseteq G
        <3> SUFFICES ASSUME NEW d \in Refs(rules[i]) PROVE d \in G
            OBVIOUS
        <3>1. PICK k \in kept : rules[k].name = d
            BY <1>1, <2>2 DEF Closed, KeptNames
        <3> QED BY <2>1, <3>1
    <2>4. rules[i].state = "valid"
        <3>1. ~Unparsed(rules[i])
            BY <1>2, <2>2 DEF IgnoredInv, Loaded, Generating
        <3>2. rules[i].state # "wrong" /\ rules[i].state # "unable"
            BY <2>2 DEF OrderedInv, FromCodeGen
        <3> QED BY <2>2, <3>1, <3>2 DEF SourceRule, RuleStates, Unparsed
    <2>5. Holders(rules, rules[i].name) = {i}
        <3>1. ASSUME NEW j \in DOMAIN rules, rules[j].name = rules[i].name PROVE j = i
            <4>1. j \in kept
                BY <1>2, <2>2, <3>1
            <4> QED BY <1>1, <2>2, <3>1, <4>1 DEF Closed
        <3> QED BY <1>2, <2>2, <3>1 DEF Holders
    <2>6. Cardinality({i}) = 1
        BY FS_Singleton
    <2>7. rules[i].name \in RestsOn(rules, G)
        <3>1. rules[i].name \in Names
            BY <2>2 DEF SourceRule
        <3> QED BY <2>3, <2>4, <2>5, <2>6, <3>1 DEF RestsOn
    <2> QED BY <2>2, <2>7, GroundedRestsOnItself DEF G
<1> QED BY <1>3 DEF KeptNames

LEMMA SoundInvMeans ==
    ASSUME TypeOK, FailuresMayBeApart, ClosureInv, SoundInv
    PROVE  KeepsExactlySound
<1> SUFFICES ASSUME pc = "idle", outcome = "ok" PROVE KeepsExactlySound
    BY DEF KeepsExactlySound
<1> DEFINE sound == Sound(rules)
           names == {rules[i].name : i \in DOMAIN rules}
<1>1. rules \in Seq(SourceRule) /\ disk \in Disks
    BY DEF TypeOK, ProgramOK, FixedOK
<1>2. /\ kept = {i \in DOMAIN rules : rules[i].name \notin IgnoredNames}
      /\ AGlobalIsIgnored => kept = {}
    BY DEF SoundInv, KeptInv, Generating
<1>3. /\ \A i \in DOMAIN rules : rules[i] \in RulesOn(disk)
      /\ \A ig \in ignored :
            /\ ig.name \notin sound
            /\ \E i \in DOMAIN rules : rules[i].name = ig.name /\ rules[i].global = ig.global
    BY DEF SoundInv, IgnoredInv, Loaded, Generating
<1>4. KeptNames \subseteq Grounded(rules)
    BY KeptIsGrounded DEF SoundInv
<1>5. ASSUME NEW i \in kept PROVE rules[i].name \in sound
    <2>1. rules[i].name \in Grounded(rules)
        BY <1>4 DEF KeptNames
    <2>2. ASSUME NEW j \in DOMAIN rules, rules[j].global, rules[j].name \notin Grounded(rules)
          PROVE  FALSE
        <3>1. rules[j].name \in IgnoredNames
            BY <1>2, <1>4, <2>2 DEF KeptNames
        <3>2. PICK ig \in ignored : ig.name = rules[j].name
            BY <3>1 DEF IgnoredNames
        <3>3. PICK k \in DOMAIN rules : rules[k].name = ig.name /\ rules[k].global = ig.global
            BY <1>3
        <3>4. rules[k].global = rules[j].global
            <4>1. FailuresAreApart
                BY <3>2 DEF FailuresMayBeApart, SoundInv, OpenInv
            <4> QED BY <1>1, <1>3, <3>2, <3>3, <4>1 DEF FailuresAreApart
        <3> QED BY <1>2, <1>5, <2>2, <3>3, <3>4 DEF AGlobalIsIgnored
    <2> QED BY <2>1, <2>2 DEF Sound
<1>6. \A n \in sound : n \notin IgnoredNames
    BY <1>3 DEF IgnoredNames
<1>7. sound \subseteq names
    <2> SUFFICES ASSUME NEW n \in sound PROVE n \in names
        OBVIOUS
    <2>1. PICK i \in DOMAIN rules : rules[i].name = n
        BY <1>1, SoundHolder
    <2> QED BY <2>1
<1>8. IgnoredNames = names \ sound
    <2>1. ASSUME NEW n \in IgnoredNames PROVE n \in names \ sound
        <3>1. PICK ig \in ignored : ig.name = n
            BY DEF IgnoredNames
        <3> QED BY <1>3, <3>1
    <2>2. ASSUME NEW i \in DOMAIN rules, rules[i].name \notin sound
          PROVE  rules[i].name \in IgnoredNames
        BY <1>2, <1>5, <2>2
    <2> HIDE DEF sound
    <2> QED BY <2>1, <2>2
<1> HIDE DEF sound
<1>9. kept = {i \in DOMAIN rules : rules[i].name \in sound}
    BY <1>2, <1>5, <1>6
<1>10. resilient \/ names = sound
    <2>1. CASE ~resilient
        <3>1. IgnoredNames = {}
            BY <2>1 DEF SoundInv, OpenInv, IgnoredNames
        <3> HIDE DEF names
        <3> QED BY <1>7, <1>8, <3>1
    <2>2. CASE resilient
        BY <2>2
    <2> QED BY <2>1, <2>2
<1> HIDE DEF names
<1> QED BY <1>8, <1>9, <1>10 DEF KeepsExactlySound, sound, names

LEMMA SoundInvHolds == Spec => [](FailuresMayBeApart => SoundInv)
<1>1. Init => SoundInv
    BY DEF Init, SoundInv, OpenInv, IgnoredInv, KeptInv, PathInv, OrderInv, OrderedInv,
           Loaded, Validating, Generating, FromCodeGen
<1>2. TypeOK /\ ClosureInv /\ FailuresMayBeApart /\ SoundInv /\ [Next]_vars => SoundInv'
    BY OpenStep, IgnoredStep, KeptStep, SearchStep, OrderedStep DEF SoundInv
<1>3. [Next]_vars => resilient' = resilient
    BY FixedStays DEF fixed
<1>4. [Next]_vars /\ FailuresMayBeApart' => FailuresMayBeApart
    BY <1>3 DEF FailuresMayBeApart
<1> QED BY <1>1, <1>2, <1>4, AssemblyTypesHold, ClosureInvHolds, PTL DEF Spec

\* KeepsExactlySound: whichever rules are wrong, and in whatever phase that shows, the
\* program keeps the sound rules, all of them, and the statistics name the others.  Only of
\* a resilient compiler it is to be assumed that a rule that does not parse fails alone.
THEOREM SoundRulesAreKept ==
    Spec => []((resilient => FailuresAreApart) => KeepsExactlySound)
<1>1. TypeOK /\ ClosureInv /\ (FailuresMayBeApart => SoundInv)
        => ((resilient => FailuresAreApart) => KeepsExactlySound)
    BY SoundInvMeans DEF FailuresMayBeApart
<1> QED BY <1>1, AssemblyTypesHold, ClosureInvHolds, SoundInvHolds, PTL

---------------------------------------------------------------------------
(* The tree of a file. *)

\* A recursion from one number to another, each value from the one before, has a solution.
Steps(S) == [Nat -> [S -> S]]
Recursion(S, base, step, lo, k) ==
    {f \in [lo .. k -> S] :
        \A n \in lo .. k : f[n] = IF n = lo THEN base ELSE step[n][f[n - 1]]}

LEMMA RecursionHasSolution ==
    ASSUME NEW S, NEW base \in S, NEW step \in Steps(S), NEW lo \in Nat, NEW k \in Nat
    PROVE  Recursion(S, base, step, lo, k) # {}
<1> DEFINE Solution(f, n) ==
               /\ f \in [lo .. n -> S]
               /\ \A m \in lo .. n : f[m] = IF m = lo THEN base ELSE step[m][f[m - 1]]
           Open == {n \in Nat : ~\E f : Solution(f, n)}
<1>1. ASSUME Open # {} PROVE FALSE
    <2>1. PICK n \in Open : \A m \in Open : n <= m
        <3>1. Open \subseteq Nat
            OBVIOUS
        <3> HIDE DEF Open
        <3> QED BY <1>1, <3>1, LeastNumber
    <2>2. CASE n <= lo
        <3> DEFINE f == [m \in lo .. n |-> base]
        <3>1. \A m \in lo .. n : m = lo
            BY <2>2
        <3>2. \A m \in lo .. n : f[m] = IF m = lo THEN base ELSE step[m][f[m - 1]]
            BY <3>1
        <3>3. f \in [lo .. n -> S]
            OBVIOUS
        <3> QED BY <2>1, <3>2, <3>3
    <2>3. CASE ~(n <= lo)
        <3>1. n - 1 \in Nat /\ ~(n <= n - 1) /\ n \in lo .. n /\ n # lo /\ n - 1 \in lo .. (n - 1)
            BY <2>3
        <3>2. PICK f : Solution(f, n - 1)
            BY <2>1, <3>1
        <3> DEFINE g == [m \in lo .. n |-> IF m = n THEN step[n][f[n - 1]] ELSE f[m]]
        <3>3. ASSUME NEW m \in lo .. n, m # n PROVE m \in lo .. (n - 1) /\ g[m] = f[m]
            BY <3>1, <3>3
        <3>4. g[n] = step[n][f[n - 1]] /\ g[n] \in S
            BY <3>1, <3>2 DEF Steps
        <3>5. ASSUME NEW m \in lo .. n PROVE g[m] = IF m = lo THEN base ELSE step[m][g[m - 1]]
            <4>1. CASE m = n
                <5>1. g[n - 1] = f[n - 1]
                    BY <3>1, <3>3
                <5> HIDE DEF g
                <5> QED BY <3>1, <3>4, <4>1, <5>1
            <4>2. CASE m # n
                <5>1. g[m] = f[m] /\ m \in lo .. (n - 1)
                    BY <3>3, <4>2
                <5>2. f[m] = IF m = lo THEN base ELSE step[m][f[m - 1]]
                    BY <3>2, <5>1
                <5>3. m # lo => m - 1 \in lo .. n /\ m - 1 # n
                    BY <4>2
                <5>4. m # lo => g[m - 1] = f[m - 1]
                    BY <3>3, <5>3
                <5> HIDE DEF g
                <5> QED BY <5>1, <5>2, <5>4
            <4> QED BY <4>1, <4>2
        <3>6. ASSUME NEW m \in lo .. n PROVE g[m] \in S
            <4>1. CASE m = n
                BY <3>4, <4>1
            <4>2. CASE m # n
                <5>1. g[m] = f[m] /\ m \in lo .. (n - 1)
                    BY <3>3, <4>2
                <5> HIDE DEF g
                <5> QED BY <3>2, <5>1
            <4> QED BY <4>1, <4>2
        <3>7. g = [m \in lo .. n |-> g[m]]
            OBVIOUS
        <3> HIDE DEF g
        <3>8. g \in [lo .. n -> S]
            BY <3>6, <3>7
        <3> QED BY <2>1, <3>5, <3>8
    <2> QED BY <2>2, <2>3
<1>2. PICK f : Solution(f, k)
    BY <1>1
<1> QED BY <1>2 DEF Recursion

LEMMA RecursionSteps ==
    ASSUME NEW S, NEW base, NEW step, NEW lo, NEW k, NEW f \in Recursion(S, base, step, lo, k)
    PROVE  /\ f \in [lo .. k -> S]
           /\ \A n \in lo .. k : f[n] = IF n = lo THEN base ELSE step[n][f[n - 1]]
BY DEF Recursion

NumFiles == Cardinality(Files)
Nodes == Dirs \X Files

LEMMA NumFilesIsNat == IsFiniteSet(Files) /\ NumFiles \in Nat /\ 2 * NumFiles \in Nat
BY AssemblyAssumption, FS_CardinalityType DEF NumFiles

\* A node of a tree and what it includes.
LEMMA NodesIncludeNodes ==
    ASSUME NEW d \in Disks, NEW node \in Nodes
    PROVE  /\ node[1] \in Dirs /\ node[2] \in Files /\ d[node[2]] \in Content
           /\ DOMAIN d[node[2]].includes = 1 .. Len(d[node[2]].includes)
           /\ Len(d[node[2]].includes) \in Nat
           /\ \A i \in DOMAIN d[node[2]].includes : Target(d, node, i) \in Files \cup {NoFile}
           /\ Included(d, node) \subseteq Nodes
           /\ Included(d, node) \subseteq {Node(file) : file \in Files}
<1>1. node[1] \in Dirs /\ node[2] \in Files /\ d[node[2]] \in Content
    BY AssemblyAssumption DEF Nodes
<1>2. d[node[2]].includes \in Seq(Paths)
    BY <1>1 DEF Content
<1>3. \A i \in DOMAIN d[node[2]].includes : Target(d, node, i) \in Files \cup {NoFile}
    <2> SUFFICES ASSUME NEW i \in DOMAIN d[node[2]].includes
                 PROVE  Target(d, node, i) \in Files \cup {NoFile}
        OBVIOUS
    <2>1. d[node[2]].includes[i] \in Paths
        BY <1>2, ElementOfSeq
    <2> QED BY <1>1, <2>1, AssemblyAssumption DEF Target
<1>4. \A file \in Files : Node(file) \in Nodes
    BY AssemblyAssumption DEF Node, Nodes
<1>5. Included(d, node) \subseteq {Node(file) : file \in Files}
    BY <1>3 DEF Included
<1> QED BY <1>1, <1>2, <1>3, <1>4, <1>5, LenProperties

\* Level by level, from the start.
LEMMA TreeUnfolds ==
    ASSUME NEW d \in Disks, NEW start \in SUBSET Nodes
    PROVE  /\ TreeLevels(d, start)[0] = start
           /\ \A n \in 1 .. (2 * NumFiles) :
                 TreeLevels(d, start)[n] =
                    TreeLevels(d, start)[n - 1] \cup
                        UNION {Included(d, node) : node \in TreeLevels(d, start)[n - 1]}
           /\ \A n \in 0 .. (2 * NumFiles) : TreeLevels(d, start)[n] \in SUBSET Nodes
           /\ Tree(d, start) = TreeLevels(d, start)[2 * NumFiles]
<1> DEFINE more(X) == X \cup UNION {Included(d, node) : node \in X}
           k == 2 * NumFiles
           Unfolds(f) == f = [n \in 0 .. k |-> IF n = 0 THEN start ELSE more(f[n - 1])]
           L == CHOOSE f : Unfolds(f)
<1>1. k \in Nat /\ 0 \in Nat
    BY NumFilesIsNat
<1>2. \A X \in SUBSET Nodes : more(X) \in SUBSET Nodes
    BY NodesIncludeNodes
<1>3. \E f : Unfolds(f)
    <2> DEFINE S == SUBSET Nodes
               step == [n \in Nat |-> [X \in S |-> more(X)]]
    <2>1. start \in S /\ step \in Steps(S)
        BY <1>2 DEF Steps
    <2>2. PICK f \in [0 .. k -> S] :
            \A n \in 0 .. k : f[n] = IF n = 0 THEN start ELSE step[n][f[n - 1]]
        <3> HIDE DEF step, S, k
        <3>1. Recursion(S, start, step, 0, k) # {}
            BY <1>1, <2>1, RecursionHasSolution
        <3> QED BY <3>1, RecursionSteps
    <2>3. ASSUME NEW n \in 0 .. k, n # 0 PROVE step[n][f[n - 1]] = more(f[n - 1])
        <3>1. n \in Nat /\ n - 1 \in 0 .. k
            BY <1>1, <2>3
        <3>2. f[n - 1] \in S
            BY <2>2, <3>1
        <3> HIDE DEF S
        <3> QED BY <3>1, <3>2
    <2> HIDE DEF step, more, k
    <2>4. f = [n \in 0 .. k |-> f[n]]
        BY <2>2
    <2>5. \A n \in 0 .. k : f[n] = IF n = 0 THEN start ELSE more(f[n - 1])
        BY <2>2, <2>3
    <2>6. Unfolds(f)
        BY <2>4, <2>5
    <2> QED BY <2>6
<1>4. TreeLevels(d, start) = L
    BY DEF TreeLevels, NumFiles
<1>5. Unfolds(L)
    BY <1>3
<1> HIDE DEF L
<1>6. L = [n \in 0 .. k |-> IF n = 0 THEN start ELSE more(L[n - 1])]
    BY <1>5
<1>7. 0 \in 0 .. k /\ \A n \in 1 .. k : n \in 0 .. k /\ n # 0 /\ n - 1 \in 0 .. k
    BY <1>1
<1>8. L[0] = start /\ \A n \in 1 .. k : L[n] = more(L[n - 1])
    <2> HIDE DEF more, k
    <2> QED BY <1>6, <1>7
<1>9. \A n \in 0 .. k : L[n] \in SUBSET Nodes
    <2> DEFINE Open == {n \in Nat : n <= k /\ L[n] \notin SUBSET Nodes}
    <2>1. ASSUME Open # {} PROVE FALSE
        <3>1. PICK n \in Open : \A m \in Open : n <= m
            <4>1. Open \subseteq Nat
                OBVIOUS
            <4> HIDE DEF Open
            <4> QED BY <2>1, <4>1, LeastNumber
        <3>2. n # 0
            BY <1>8, <3>1
        <3>3. n \in 1 .. k /\ n - 1 \in Nat /\ n - 1 <= k /\ ~(n <= n - 1)
            BY <1>1, <3>1, <3>2
        <3>4. L[n - 1] \in SUBSET Nodes
            BY <3>1, <3>3
        <3> HIDE DEF more
        <3> QED BY <1>2, <1>8, <3>1, <3>3, <3>4
    <2> QED BY <1>1, <2>1
<1> QED BY <1>4, <1>8, <1>9 DEF Tree, NumFiles

\* There are not more nodes in a tree than files, and the root.
LEMMA FewPlaces ==
    ASSUME NEW node
    PROVE  LET places == {Node(file) : file \in Files} \cup {node}
           IN IsFiniteSet(places) /\ Cardinality(places) \in Nat /\ Cardinality(places) <= NumFiles + 1
<1> DEFINE its == {Node(file) : file \in Files}
           f == [file \in Files |-> Node(file)]
<1>1. f \in Surjection(Files, its)
    BY DEF Surjection
<1>2. IsFiniteSet(its) /\ Cardinality(its) <= NumFiles
    <2> HIDE DEF f, its
    <2> QED BY <1>1, NumFilesIsNat, FS_Surjection DEF NumFiles
<1> HIDE DEF its
<1>3. /\ IsFiniteSet(its \cup {node})
      /\ Cardinality(its \cup {node}) = IF node \in its THEN Cardinality(its) ELSE Cardinality(its) + 1
    BY <1>2, FS_AddElement
<1>4. Cardinality(its) \in Nat /\ Cardinality(its \cup {node}) \in Nat
    BY <1>2, <1>3, FS_CardinalityType
<1> QED BY <1>2, <1>3, <1>4, NumFilesIsNat DEF its

\* Each level has a node more, until one includes nothing else: the last one does not.
LEMMA TreeIsClosed ==
    ASSUME NEW d \in Disks, NEW node \in Nodes
    PROVE  /\ Tree(d, {node}) \in SUBSET Nodes
           /\ node \in Tree(d, {node})
           /\ \A n \in Tree(d, {node}) : Included(d, n) \subseteq Tree(d, {node})
<1> DEFINE L == TreeLevels(d, {node})
           k == 2 * NumFiles
           places == {Node(file) : file \in Files} \cup {node}
           Closes(n) == \A m \in L[n] : Included(d, m) \subseteq L[n]
           Open == {n \in Nat : n <= k /\ ~(/\ node \in L[n] /\ L[n] \subseteq places
                                            /\ Closes(n) \/ Cardinality(L[n]) >= n + 1)}
<1>1. k \in Nat /\ NumFiles \in Nat /\ {node} \in SUBSET Nodes
    BY NumFilesIsNat
<1>2. /\ L[0] = {node} /\ Tree(d, {node}) = L[k]
      /\ \A n \in 1 .. k : L[n] = L[n - 1] \cup UNION {Included(d, m) : m \in L[n - 1]}
      /\ \A n \in 0 .. k : L[n] \in SUBSET Nodes
    BY <1>1, TreeUnfolds
<1> HIDE DEF L
<1>3. ASSUME Open # {} PROVE FALSE
    <2>1. PICK n \in Open : \A m \in Open : n <= m
        <3>1. Open \subseteq Nat
            OBVIOUS
        <3> HIDE DEF Open
        <3> QED BY <1>3, <3>1, LeastNumber
    <2>2. n # 0
        <3>1. Cardinality(L[0]) = 1
            BY <1>2, FS_Singleton
        <3>2. node \in L[0] /\ L[0] \subseteq places /\ Cardinality(L[0]) >= 0 + 1
            BY <1>2, <3>1
        <3> QED BY <2>1, <3>2
    <2>3. n \in 1 .. k /\ n - 1 \in 0 .. k /\ n - 1 \in Nat /\ n - 1 <= k /\ ~(n <= n - 1)
        BY <1>1, <2>1, <2>2
    <2> DEFINE more == UNION {Included(d, m) : m \in L[n - 1]}
    <2>4. L[n] = L[n - 1] \cup more /\ L[n - 1] \subseteq Nodes /\ L[n] \subseteq Nodes
        BY <1>2, <2>3
    <2>5. /\ node \in L[n - 1] /\ L[n - 1] \subseteq places
          /\ Closes(n - 1) \/ Cardinality(L[n - 1]) >= (n - 1) + 1
        BY <2>1, <2>3
    <2>6. more \subseteq places
        BY <2>4, NodesIncludeNodes
    <2>7. node \in L[n] /\ L[n] \subseteq places
        BY <2>4, <2>5, <2>6
    <2>8. CASE more \subseteq L[n - 1]
        <3>1. L[n] = L[n - 1]
            BY <2>4, <2>8
        <3>2. Closes(n)
            BY <2>8, <3>1
        <3> QED BY <2>1, <2>7, <3>2
    <2>9. CASE ~(more \subseteq L[n - 1])
        <3>1. ~Closes(n - 1)
            BY <2>9
        <3>2. L[n - 1] \in SUBSET L[n] /\ L[n - 1] # L[n]
            BY <2>4, <2>9
        <3>3. IsFiniteSet(L[n]) /\ Cardinality(L[n]) \in Nat /\ Cardinality(L[n - 1]) \in Nat
            BY <2>5, <2>7, FewPlaces, FS_Subset, FS_CardinalityType
        <3>4. Cardinality(L[n - 1]) <= Cardinality(L[n]) /\ Cardinality(L[n - 1]) # Cardinality(L[n])
            BY <3>2, <3>3, FS_Subset
        <3>5. Cardinality(L[n - 1]) >= (n - 1) + 1
            BY <2>5, <3>1
        <3>6. Cardinality(L[n]) >= n + 1
            BY <2>3, <3>3, <3>4, <3>5
        <3> QED BY <2>1, <2>7, <3>6
    <2> QED BY <2>8, <2>9
<1>4. k \notin Open /\ k <= k
    BY <1>1, <1>3
<1>5. node \in L[k] /\ L[k] \subseteq places /\ (Closes(k) \/ Cardinality(L[k]) >= k + 1)
    BY <1>1, <1>4
<1>6. NumFiles # 0
    <2>1. node[2] \in Files
        BY NodesIncludeNodes
    <2> QED BY <2>1, NumFilesIsNat, FS_EmptySet DEF NumFiles
<1>7. Closes(k)
    <2>1. Cardinality(L[k]) \in Nat /\ Cardinality(L[k]) <= NumFiles + 1
        <3>1. IsFiniteSet(places) /\ Cardinality(places) \in Nat /\ Cardinality(places) <= NumFiles + 1
            BY FewPlaces
        <3> HIDE DEF places
        <3>2. IsFiniteSet(L[k]) /\ Cardinality(L[k]) <= Cardinality(places)
            BY <1>5, <3>1, FS_Subset
        <3>3. Cardinality(L[k]) \in Nat
            BY <3>2, FS_CardinalityType
        <3> QED BY <1>1, <3>1, <3>2, <3>3
    <2>2. ~(Cardinality(L[k]) >= k + 1)
        BY <1>1, <1>6, <2>1
    <2> QED BY <1>5, <2>2
<1> QED BY <1>1, <1>2, <1>5, <1>7

\* It has nothing but what is reached.
LEMMA TreeIsLeast ==
    ASSUME NEW d \in Disks, NEW node \in Nodes, NEW S, node \in S,
           \A n \in S : n \in Nodes => Included(d, n) \subseteq S
    PROVE  Tree(d, {node}) \subseteq S
<1> DEFINE L == TreeLevels(d, {node})
           k == 2 * NumFiles
           Open == {n \in Nat : n <= k /\ ~(L[n] \subseteq S)}
<1>1. k \in Nat /\ {node} \in SUBSET Nodes
    BY NumFilesIsNat
<1>2. /\ L[0] = {node} /\ Tree(d, {node}) = L[k]
      /\ \A n \in 1 .. k : L[n] = L[n - 1] \cup UNION {Included(d, m) : m \in L[n - 1]}
      /\ \A n \in 0 .. k : L[n] \in SUBSET Nodes
    BY <1>1, TreeUnfolds
<1> HIDE DEF L
<1>3. ASSUME Open # {} PROVE FALSE
    <2>1. PICK n \in Open : \A m \in Open : n <= m
        <3>1. Open \subseteq Nat
            OBVIOUS
        <3> HIDE DEF Open
        <3> QED BY <1>3, <3>1, LeastNumber
    <2>2. n # 0
        BY <1>2, <2>1
    <2>3. n \in 1 .. k /\ n - 1 \in 0 .. k /\ n - 1 \in Nat /\ n - 1 <= k /\ ~(n <= n - 1)
        BY <1>1, <2>1, <2>2
    <2>4. L[n - 1] \subseteq S
        BY <2>1, <2>3
    <2> QED BY <1>2, <2>1, <2>3, <2>4
<1>4. k \notin Open /\ k <= k
    BY <1>1, <1>3
<1> QED BY <1>1, <1>2, <1>4

\* What a node of a tree reaches is in the tree.
LEMMA TreeOfATree ==
    ASSUME NEW d \in Disks, NEW node \in Nodes, NEW n \in Tree(d, {node})
    PROVE  n \in Nodes /\ Tree(d, {n}) \subseteq Tree(d, {node})
BY TreeIsClosed, TreeIsLeast

---------------------------------------------------------------------------
(* The list of the rules of a tree. *)

\* FlattenSeq is the last of the sequences that grow by one element each.
LEMMA FlattenGrows ==
    ASSUME NEW S, NEW seqs \in Seq(Seq(S)), NEW g \in [0 .. Len(seqs) -> Seq(S)], g[0] = <<>>,
           \A i \in 1 .. Len(seqs) : g[i] = g[i - 1] \o seqs[i]
    PROVE  FlattenSeq(seqs) = g[Len(seqs)]
<1> DEFINE k == Len(seqs)
           Unfolds(f) == f = [i \in 1 .. k |-> IF i = 1 THEN seqs[i] ELSE f[i - 1] \o seqs[i]]
           F == CHOOSE f : Unfolds(f)
<1>1. k \in Nat /\ \A i \in 1 .. k : seqs[i] \in Seq(S) /\ g[i] \in Seq(S)
    BY LenProperties, ElementOfSeq
<1>10. k # 0 => g[1] = seqs[1]
    <2> SUFFICES ASSUME k # 0 PROVE g[1] = seqs[1]
        OBVIOUS
    <2>1. 1 \in 1 .. k /\ 1 - 1 = 0
        BY <1>1
    <2>2. g[1] = g[1 - 1] \o seqs[1] /\ seqs[1] \in Seq(S)
        BY <1>1, <2>1
    <2> QED BY <2>1, <2>2, ConcatEmptySeq
<1>2. CASE k = 0
    <2>1. seqs = <<>>
        BY <1>2, EmptySeq
    <2> QED BY <1>2, <2>1 DEF FlattenSeq
<1>3. CASE k # 0
    <2>1. \E f : Unfolds(f)
        <3> DEFINE h == [i \in 1 .. k |-> g[i]]
        <3>1. ASSUME NEW i \in 1 .. k
              PROVE  h[i] = IF i = 1 THEN seqs[i] ELSE h[i - 1] \o seqs[i]
            <4>1. CASE i = 1
                BY <1>3, <1>10, <4>1
            <4>2. CASE i # 1
                <5>1. i - 1 \in 1 .. k
                    BY <1>1, <4>2
                <5>2. h[i] = g[i] /\ h[i - 1] = g[i - 1]
                    BY <5>1
                <5> HIDE DEF h
                <5> QED BY <4>2, <5>2
            <4> QED BY <4>1, <4>2
        <3>2. h = [i \in 1 .. k |-> h[i]]
            OBVIOUS
        <3> HIDE DEF h, k
        <3>3. Unfolds(h)
            BY <3>1, <3>2
        <3> QED BY <3>3
    <2>2. Unfolds(F)
        BY <2>1
    <2>3. FlattenSeq(seqs) = F[k]
        BY <1>3 DEF FlattenSeq
    <2> HIDE DEF F
    <2>4. F = [i \in 1 .. k |-> IF i = 1 THEN seqs[i] ELSE F[i - 1] \o seqs[i]]
        BY <2>2
    <2> DEFINE Open == {i \in Nat : i \in 1 .. k /\ F[i] # g[i]}
    <2>5. ASSUME Open # {} PROVE FALSE
        <3>1. PICK n \in Open : \A m \in Open : n <= m
            <4>1. Open \subseteq Nat
                OBVIOUS
            <4> HIDE DEF Open
            <4> QED BY <2>5, <4>1, LeastNumber
        <3>2. CASE n = 1
            <4>1. F[1] = seqs[1]
                BY <1>1, <2>4, <3>1, <3>2
            <4> QED BY <1>3, <1>10, <3>1, <3>2, <4>1
        <3>3. CASE n # 1
            <4>1. n - 1 \in Nat /\ n - 1 \in 1 .. k /\ ~(n <= n - 1)
                BY <1>1, <3>1, <3>3
            <4>2. F[n - 1] = g[n - 1]
                BY <3>1, <4>1
            <4>3. F[n] = F[n - 1] \o seqs[n]
                BY <2>4, <3>1, <3>3
            <4> QED BY <3>1, <4>2, <4>3
        <3> QED BY <3>2, <3>3
    <2>6. k \in 1 .. k
        BY <1>1, <1>3
    <2> QED BY <1>1, <2>3, <2>5, <2>6
<1> QED BY <1>2, <1>3

\* Such sequences exist.
LEMMA FlattenIsTyped ==
    ASSUME NEW S, NEW seqs \in Seq(Seq(S))
    PROVE  /\ FlattenSeq(seqs) \in Seq(S)
           /\ \E g \in [0 .. Len(seqs) -> Seq(S)] :
                 /\ g[0] = <<>>
                 /\ \A i \in 1 .. Len(seqs) : g[i] = g[i - 1] \o seqs[i]
                 /\ FlattenSeq(seqs) = g[Len(seqs)]
<1> DEFINE k == Len(seqs)
           Values == Seq(S)
           grow(i, x) == IF i \in 1 .. k THEN x \o seqs[i] ELSE x
           step == [i \in Nat |-> [x \in Values |-> grow(i, x)]]
           none == <<>>
<1>1. k \in Nat /\ 0 \in Nat /\ \A i \in 1 .. k : seqs[i] \in Seq(S)
    BY LenProperties, ElementOfSeq
<1>2. none \in Values /\ \A i \in Nat, x \in Values : grow(i, x) \in Values
    BY <1>1, EmptySeq, ConcatProperties
<1>3. step \in Steps(Values)
    <2> HIDE DEF Values, grow
    <2> QED BY <1>2 DEF Steps
<1>4. PICK g : g \in Recursion(Values, none, step, 0, k)
    <2>1. k \in Nat /\ 0 \in Nat /\ none \in Values
        BY <1>1, <1>2
    <2> HIDE DEF Values, step, k, none, grow
    <2> QED BY <1>3, <2>1, RecursionHasSolution
<1>5. g \in [0 .. k -> Values] /\ \A n \in 0 .. k : g[n] = IF n = 0 THEN none ELSE step[n][g[n - 1]]
    <2> HIDE DEF step, Values, none, k, grow
    <2> QED BY <1>4, RecursionSteps
<1>6. g[0] = <<>>
    <2>1. 0 \in 0 .. k
        BY <1>1
    <2> HIDE DEF step, Values, k, grow
    <2> QED BY <1>5, <2>1
<1>7. ASSUME NEW i \in 1 .. k PROVE g[i] = g[i - 1] \o seqs[i]
    <2>1. i \in Nat /\ i \in 0 .. k /\ i # 0 /\ i - 1 \in 0 .. k
        BY <1>1
    <2>2. g[i - 1] \in Values /\ g[i] = step[i][g[i - 1]]
        <3> HIDE DEF step, Values
        <3> QED BY <1>5, <2>1
    <2>3. step[i][g[i - 1]] = grow(i, g[i - 1])
        <3> HIDE DEF grow, Values
        <3> QED BY <2>1, <2>2
    <2> QED BY <2>2, <2>3
<1> HIDE DEF step
<1>8. FlattenSeq(seqs) = g[k]
    BY <1>5, <1>6, <1>7, FlattenGrows
<1>9. g[k] \in Seq(S)
    BY <1>1, <1>5
<1> QED BY <1>5, <1>6, <1>7, <1>8, <1>9

\* The lists of what a node includes, each from "lists".
Lists(d, lists, node) ==
    [i \in DOMAIN d[node[2]].includes |->
        IF Target(d, node, i) = NoFile THEN <<>> ELSE lists[Node(Target(d, node, i))]]

LEMMA ListsAreTyped ==
    ASSUME NEW d \in Disks, NEW node \in Nodes, NEW lists \in [Nodes -> Seq(SourceRule)]
    PROVE  /\ Lists(d, lists, node) \in Seq(Seq(SourceRule))
           /\ Len(Lists(d, lists, node)) = Len(d[node[2]].includes)
           /\ DOMAIN Lists(d, lists, node) = 1 .. Len(d[node[2]].includes)
           /\ FlattenSeq(Lists(d, lists, node)) \in Seq(SourceRule)
           /\ d[node[2]].rules \in Seq(SourceRule)
           /\ d[node[2]].rules \o <<>> = d[node[2]].rules
           /\ d[node[2]].rules \o FlattenSeq(Lists(d, lists, node)) \in Seq(SourceRule)
<1> DEFINE k == Len(d[node[2]].includes)
           its == Lists(d, lists, node)
           T == Seq(SourceRule)
<1>1. k \in Nat /\ DOMAIN d[node[2]].includes = 1 .. k /\ d[node[2]] \in Content
    BY NodesIncludeNodes
<1>2. ASSUME NEW i \in 1 .. k
      PROVE  (IF Target(d, node, i) = NoFile THEN <<>> ELSE lists[Node(Target(d, node, i))]) \in T
    <2>1. CASE Target(d, node, i) = NoFile
        BY <2>1, EmptySeq
    <2>2. CASE Target(d, node, i) # NoFile
        <3>1. Target(d, node, i) \in Files
            BY <1>1, <2>2, NodesIncludeNodes
        <3>2. Node(Target(d, node, i)) \in Nodes
            BY <3>1, AssemblyAssumption DEF Node, Nodes
        <3> QED BY <2>2, <3>2
    <2> QED BY <2>1, <2>2
<1>3. its \in [1 .. k -> T]
    <2> HIDE DEF T, k
    <2>1. its = [i \in 1 .. k |-> IF Target(d, node, i) = NoFile THEN <<>>
                                  ELSE lists[Node(Target(d, node, i))]]
        BY <1>1 DEF Lists
    <2> QED BY <1>2, <2>1
<1> HIDE DEF its, T
<1>4. its \in Seq(T) /\ Len(its) = k /\ DOMAIN its = 1 .. k
    <2>1. its \in Seq(T)
        <3> HIDE DEF k
        <3> QED BY <1>1, <1>3, SeqDef
    <2>2. DOMAIN its = 1 .. k
        BY <1>3
    <2>3. Len(its) \in Nat /\ DOMAIN its = 1 .. Len(its)
        BY <2>1, LenProperties
    <2>4. Len(its) = k
        BY <1>1, <2>2, <2>3
    <2> QED BY <2>1, <2>2, <2>4
<1>5. FlattenSeq(its) \in T
    BY <1>4, FlattenIsTyped DEF T
<1>6. d[node[2]].rules \in T
    BY <1>1 DEF Content, T
<1>7. d[node[2]].rules \o FlattenSeq(its) \in T /\ d[node[2]].rules \o <<>> = d[node[2]].rules
    BY <1>5, <1>6, ConcatProperties, ConcatEmptySeq DEF T
<1> QED BY <1>4, <1>5, <1>6, <1>7 DEF its, T

\* The listing of each depth, from that of the depth before.
LEMMA ListingsUnfold ==
    ASSUME NEW d \in Disks
    PROVE  /\ \A n \in 0 .. NumFiles : Listings(d)[n] \in [Nodes -> Seq(SourceRule)]
           /\ \A node \in Nodes : Listings(d)[0][node] = d[node[2]].rules
           /\ \A n \in 1 .. NumFiles, node \in Nodes :
                 Listings(d)[n][node] = d[node[2]].rules \o FlattenSeq(Lists(d, Listings(d)[n - 1], node))
<1> DEFINE k == NumFiles
           S == [Nodes -> Seq(SourceRule)]
           first == [node \in Nodes |-> d[node[2]].rules]
           next(lists) == [node \in Nodes |-> d[node[2]].rules \o FlattenSeq(Lists(d, lists, node))]
           of(f, n) == [node \in Nodes |->
                          d[node[2]].rules \o
                            IF n = 0 THEN <<>> ELSE FlattenSeq(Lists(d, f[n - 1], node))]
           Unfolds(f) == f = [n \in 0 .. k |-> of(f, n)]
           L == CHOOSE f : Unfolds(f)
<1>1. k \in Nat /\ 0 \in Nat
    BY NumFilesIsNat
<1>2. first \in S
    <2>1. \A node \in Nodes : d[node[2]].rules \in Seq(SourceRule)
        BY NodesIncludeNodes DEF Content
    <2> QED BY <2>1
<1>3. ASSUME NEW lists \in S PROVE next(lists) \in S
    <2>1. \A node \in Nodes : d[node[2]].rules \o FlattenSeq(Lists(d, lists, node)) \in Seq(SourceRule)
        BY ListsAreTyped
    <2> QED BY <2>1
<1>4. ASSUME NEW f, NEW n, n = 0 PROVE of(f, n) = first
    <2>1. \A node \in Nodes : d[node[2]].rules \o <<>> = d[node[2]].rules
        <3> SUFFICES ASSUME NEW node \in Nodes PROVE d[node[2]].rules \o <<>> = d[node[2]].rules
            OBVIOUS
        <3>1. d[node[2]].rules \in Seq(SourceRule)
            BY NodesIncludeNodes DEF Content
        <3> QED BY <3>1, ConcatEmptySeq
    <2>2. \A node \in Nodes : d[node[2]].rules \o (IF n = 0 THEN <<>> ELSE FlattenSeq(Lists(d, f[n - 1], node)))
                                = d[node[2]].rules
        BY <1>4, <2>1
    <2> QED BY <2>2
<1>5. ASSUME NEW f, NEW n, n # 0 PROVE of(f, n) = next(f[n - 1])
    BY <1>5
<1>6. \E f : Unfolds(f)
    <2> DEFINE step == [n \in Nat |-> [lists \in S |-> next(lists)]]
    <2>1. step \in Steps(S)
        <3> HIDE DEF S, next
        <3> QED BY <1>3 DEF Steps
    <2>2. PICK f \in [0 .. k -> S] : \A n \in 0 .. k : f[n] = IF n = 0 THEN first ELSE step[n][f[n - 1]]
        <3> HIDE DEF step, S, k, first
        <3>1. Recursion(S, first, step, 0, k) # {}
            BY <1>1, <1>2, <2>1, RecursionHasSolution
        <3> QED BY <3>1, RecursionSteps
    <2>3. ASSUME NEW n \in 0 .. k, n # 0 PROVE step[n][f[n - 1]] = next(f[n - 1])
        <3>1. n \in Nat /\ n - 1 \in 0 .. k
            BY <1>1, <2>3
        <3>2. f[n - 1] \in S
            BY <2>2, <3>1
        <3> HIDE DEF S, next
        <3> QED BY <3>1, <3>2
    <2> HIDE DEF step, first, next, of, S, k
    <2>4. f = [n \in 0 .. k |-> f[n]]
        BY <2>2
    <2>5. \A n \in 0 .. k : f[n] = of(f, n)
        BY <1>4, <1>5, <2>2, <2>3
    <2>6. Unfolds(f)
        BY <2>4, <2>5
    <2> QED BY <2>6
<1>7. Listings(d) = L
    BY DEF Listings, NumFiles, Nodes, Lists
<1>8. Unfolds(L)
    BY <1>6
<1> HIDE DEF L
<1>9. L = [n \in 0 .. k |-> of(L, n)]
    BY <1>8
<1>10. 0 \in 0 .. k /\ \A n \in 1 .. k : n \in 0 .. k /\ n # 0 /\ n - 1 \in 0 .. k
    BY <1>1
<1>11. L[0] = first /\ \A n \in 1 .. k : L[n] = next(L[n - 1])
    <2> HIDE DEF of, next, first, k
    <2> QED BY <1>4, <1>5, <1>9, <1>10
<1>12. \A n \in 0 .. k : L[n] \in S
    <2> DEFINE Open == {n \in Nat : n <= k /\ L[n] \notin S}
    <2>1. ASSUME Open # {} PROVE FALSE
        <3>1. PICK n \in Open : \A m \in Open : n <= m
            <4>1. Open \subseteq Nat
                OBVIOUS
            <4> HIDE DEF Open
            <4> QED BY <2>1, <4>1, LeastNumber
        <3> HIDE DEF S, next, first
        <3>2. n # 0
            BY <1>2, <1>11, <3>1
        <3>3. n \in 1 .. k /\ n - 1 \in Nat /\ n - 1 <= k /\ ~(n <= n - 1)
            BY <1>1, <3>1, <3>2
        <3>4. L[n - 1] \in S
            BY <3>1, <3>3
        <3> QED BY <1>3, <1>11, <3>1, <3>3, <3>4
    <2> HIDE DEF S
    <2> QED BY <1>1, <2>1
<1>13. \A node \in Nodes : L[0][node] = d[node[2]].rules
    BY <1>11
<1>14. ASSUME NEW n \in 1 .. k, NEW node \in Nodes
       PROVE  L[n][node] = d[node[2]].rules \o FlattenSeq(Lists(d, L[n - 1], node))
    <2>1. L[n] = next(L[n - 1])
        BY <1>11
    <2> QED BY <2>1
<1> QED BY <1>7, <1>12, <1>13, <1>14

\* The list of the rules of what a node includes, include by include, to a depth.
Parts(d, depth, node) ==
    CHOOSE part \in [0 .. Len(d[node[2]].includes) -> Seq(SourceRule)] :
        /\ part[0] = <<>>
        /\ depth # 0 => \A i \in DOMAIN d[node[2]].includes :
                part[i] = part[i - 1] \o Lists(d, Listings(d)[depth - 1], node)[i]
        /\ Listings(d)[depth][node] = d[node[2]].rules \o part[Len(d[node[2]].includes)]

LEMMA PartsGrow ==
    ASSUME NEW d \in Disks, NEW depth \in 0 .. NumFiles, NEW node \in Nodes
    PROVE  /\ Parts(d, depth, node) \in [0 .. Len(d[node[2]].includes) -> Seq(SourceRule)]
           /\ Parts(d, depth, node)[0] = <<>>
           /\ depth # 0 => \A i \in DOMAIN d[node[2]].includes :
                 Target(d, node, i) # NoFile =>
                    Parts(d, depth, node)[i] =
                        Parts(d, depth, node)[i - 1] \o Listings(d)[depth - 1][Node(Target(d, node, i))]
           /\ depth # 0 => \A i \in DOMAIN d[node[2]].includes :
                 Lists(d, Listings(d)[depth - 1], node)[i] \in Seq(SourceRule) /\
                 Parts(d, depth, node)[i] =
                    Parts(d, depth, node)[i - 1] \o Lists(d, Listings(d)[depth - 1], node)[i]
           /\ Listings(d)[depth][node] =
                 d[node[2]].rules \o Parts(d, depth, node)[Len(d[node[2]].includes)]
<1> DEFINE k == Len(d[node[2]].includes)
           lists == Listings(d)[depth - 1]
           P(part) == /\ part[0] = <<>>
                      /\ depth # 0 => \A i \in DOMAIN d[node[2]].includes :
                            part[i] = part[i - 1] \o Lists(d, lists, node)[i]
                      /\ Listings(d)[depth][node] = d[node[2]].rules \o part[k]
           R == [0 .. k -> Seq(SourceRule)]
<1>1. /\ k \in Nat /\ DOMAIN d[node[2]].includes = 1 .. k
      /\ d[node[2]].rules \in Seq(SourceRule)
    BY NodesIncludeNodes DEF Content
<1>2. depth \in Nat /\ NumFiles \in Nat /\ depth <= NumFiles
    BY NumFilesIsNat
<1>3. ASSUME depth # 0
      PROVE  /\ lists \in [Nodes -> Seq(SourceRule)]
             /\ Listings(d)[depth][node] = d[node[2]].rules \o FlattenSeq(Lists(d, lists, node))
             /\ Lists(d, lists, node) \in Seq(Seq(SourceRule)) /\ Len(Lists(d, lists, node)) = k
    <2>1. depth \in 1 .. NumFiles /\ depth - 1 \in 0 .. NumFiles
        BY <1>2, <1>3
    <2>2. lists \in [Nodes -> Seq(SourceRule)]
        BY <2>1, ListingsUnfold
    <2>3. Listings(d)[depth][node] = d[node[2]].rules \o FlattenSeq(Lists(d, lists, node))
        BY <2>1, ListingsUnfold
    <2> QED BY <2>2, <2>3, ListsAreTyped
<1>4. \E part \in R : P(part)
    <2>1. CASE depth = 0
        <3> DEFINE none == [i \in 0 .. k |-> <<>>]
        <3>1. none \in R /\ none[0] = <<>> /\ none[k] = <<>>
            BY <1>1, EmptySeq
        <3>2. Listings(d)[depth][node] = d[node[2]].rules
            BY <2>1, ListingsUnfold
        <3>3. d[node[2]].rules \o <<>> = d[node[2]].rules
            BY <1>1, ConcatEmptySeq
        <3> QED BY <2>1, <3>1, <3>2, <3>3
    <2>2. CASE depth # 0
        <3>1. PICK g \in [0 .. Len(Lists(d, lists, node)) -> Seq(SourceRule)] :
                 /\ g[0] = <<>>
                 /\ \A i \in 1 .. Len(Lists(d, lists, node)) : g[i] = g[i - 1] \o Lists(d, lists, node)[i]
                 /\ FlattenSeq(Lists(d, lists, node)) = g[Len(Lists(d, lists, node))]
            BY <1>3, <2>2, FlattenIsTyped
        <3>2. g \in R /\ P(g)
            <4> HIDE DEF lists
            <4> QED BY <1>1, <1>3, <2>2, <3>1
        <3> QED BY <3>2
    <2> QED BY <2>1, <2>2
<1>5. Parts(d, depth, node) \in R /\ P(Parts(d, depth, node))
    <2>1. Parts(d, depth, node) = CHOOSE part \in R : P(part)
        BY DEF Parts
    <2> HIDE DEF R, P
    <2> QED BY <1>4, <2>1
<1>6. ASSUME depth # 0, NEW i \in DOMAIN d[node[2]].includes
      PROVE  /\ Lists(d, lists, node)[i] \in Seq(SourceRule)
             /\ Target(d, node, i) # NoFile => Lists(d, lists, node)[i] = lists[Node(Target(d, node, i))]
    <2>1. Lists(d, lists, node)[i] \in Seq(SourceRule)
        BY <1>1, <1>3, <1>6, ElementOfSeq
    <2> HIDE DEF lists
    <2> QED BY <2>1 DEF Lists
<1> QED BY <1>5, <1>6

\* The list of a node holds its own rules, and the rules of what it includes.
LEMMA ListsHoldTheirParts ==
    ASSUME NEW d \in Disks, NEW depth \in 0 .. NumFiles, NEW node \in Nodes
    PROVE  /\ Range(d[node[2]].rules) \subseteq Range(Listings(d)[depth][node])
           /\ depth # 0 => \A i \in DOMAIN d[node[2]].includes :
                 Target(d, node, i) # NoFile =>
                    Range(Listings(d)[depth - 1][Node(Target(d, node, i))])
                        \subseteq Range(Listings(d)[depth][node])
<1> DEFINE k == Len(d[node[2]].includes)
           part == Parts(d, depth, node)
           its == d[node[2]].rules
           all == Listings(d)[depth][node]
           list(i) == Lists(d, Listings(d)[depth - 1], node)[i]
<1>1. /\ k \in Nat /\ DOMAIN d[node[2]].includes = 1 .. k
      /\ its \in Seq(SourceRule)
    BY NodesIncludeNodes DEF Content
<1>2. /\ part \in [0 .. k -> Seq(SourceRule)] /\ all = its \o part[k]
      /\ depth # 0 => \A i \in 1 .. k : list(i) \in Seq(SourceRule) /\ part[i] = part[i - 1] \o list(i)
    BY <1>1, PartsGrow
<1>3. part[k] \in Seq(SourceRule)
    <2>1. k \in 0 .. k
        BY <1>1
    <2> HIDE DEF k, part
    <2> QED BY <1>2, <2>1
<1>4. Range(all) = Range(its) \cup Range(part[k])
    <2> HIDE DEF part, its, all, k
    <2> QED BY <1>1, <1>2, <1>3, RangeConcatenation
<1>5. ASSUME depth # 0, NEW i \in DOMAIN d[node[2]].includes, Target(d, node, i) # NoFile
      PROVE  Range(Listings(d)[depth - 1][Node(Target(d, node, i))]) \subseteq Range(all)
    <2>1. /\ part[i] = part[i - 1] \o Listings(d)[depth - 1][Node(Target(d, node, i))]
          /\ part[i] = part[i - 1] \o list(i) /\ list(i) \in Seq(SourceRule)
        BY <1>5, PartsGrow
    <2>2. list(i) = Listings(d)[depth - 1][Node(Target(d, node, i))]
        BY <1>5 DEF Lists
    <2>3. i \in 1 .. k /\ i - 1 \in 0 .. k
        BY <1>1
    <2> HIDE DEF part, k, list, all
    <2>4. part[i - 1] \in Seq(SourceRule)
        BY <1>2, <2>3
    <2>5. Range(part[i]) = Range(part[i - 1]) \cup Range(list(i))
        BY <2>1, <2>4, RangeConcatenation
    <2> DEFINE Open == {n \in Nat : n \in i .. k /\ ~(Range(list(i)) \subseteq Range(part[n]))}
    <2>6. ASSUME Open # {} PROVE FALSE
        <3>1. PICK n \in Open : \A m \in Open : n <= m
            <4>1. Open \subseteq Nat
                OBVIOUS
            <4> HIDE DEF Open
            <4> QED BY <2>6, <4>1, LeastNumber
        <3>2. n # i
            BY <2>5, <3>1
        <3>3. n \in 1 .. k /\ n - 1 \in Nat /\ n - 1 \in i .. k /\ n - 1 \in 0 .. k /\ ~(n <= n - 1)
            BY <1>1, <2>3, <3>1, <3>2
        <3>4. Range(list(i)) \subseteq Range(part[n - 1])
            BY <3>1, <3>3
        <3>5. part[n] = part[n - 1] \o list(n) /\ list(n) \in Seq(SourceRule) /\ part[n - 1] \in Seq(SourceRule)
            BY <1>2, <1>5, <3>3
        <3>6. Range(part[n]) = Range(part[n - 1]) \cup Range(list(n))
            BY <3>5, RangeConcatenation
        <3> QED BY <3>1, <3>4, <3>6
    <2>7. k \in i .. k /\ k \in Nat
        BY <1>1, <2>3
    <2> QED BY <1>4, <2>2, <2>6, <2>7
<1> QED BY <1>4, <1>5

---------------------------------------------------------------------------
(* A call answers as its files deserve. *)

\* What no compiler can leave out, but for a global variable: of one file (an import is at
\* fault only if "bad" says so), of one include statement, and of a whole tree.
Fine(content, bad) ==
    content.fault # "large" /\ ~ProgramError(content) /\ (content.fault = "import" => bad)
LeadsDown(d, node, i) ==
    Target(d, node, i) \in Files /\ <<node[1], DirOf[Target(d, node, i)]>> \in Below
Clean(d, bad, node) ==
    \A n \in Tree(d, {node}) :
        /\ Fine(d[n[2]], bad)
        /\ \A i \in DOMAIN d[n[2]].includes :
              LeadsDown(d, n, i) /\ n \notin Tree(d, {Node(Target(d, n, i))})

\* An open file: how many of its include statements were begun, which are left, and what
\* the finished ones have given.
NodeOf(frame) == <<frame.dir, frame.file>>
Begun(d, frame) == Len(d[frame.file].includes) - Len(frame.todo)
IsRest(d, frame) ==
    /\ Begun(d, frame) \in Nat
    /\ \A j \in 1 .. Len(frame.todo) : frame.todo[j] = d[frame.file].includes[Begun(d, frame) + j]
HasRead(d, bad, frame, depth, done) ==
    /\ done \in 0 .. Len(d[frame.file].includes)
    /\ Fine(d[frame.file], bad)
    /\ frame.rules = d[frame.file].rules \o Parts(d, depth, NodeOf(frame))[done]
    /\ \A i \in 1 .. done : /\ LeadsDown(d, NodeOf(frame), i)
                            /\ Clean(d, bad, Node(Target(d, NodeOf(frame), i)))

\* The file that is open next is the one of the statement that was begun last.
LeadsTo(d, frame, next) ==
    /\ Begun(d, frame) \in DOMAIN d[frame.file].includes
    /\ LeadsDown(d, NodeOf(frame), Begun(d, frame))
    /\ NodeOf(next) = Node(Target(d, NodeOf(frame), Begun(d, frame)))

\* The stack of open files: of each but the last, one statement that was begun is not
\* finished, and each has as many levels below it as there are files that are not open.
Depth(k) == NumFiles + 1 - k
FrameInv(d, bad, fs, k) ==
    /\ IsRest(d, fs[k])
    /\ HasRead(d, bad, fs[k], Depth(k), Begun(d, fs[k]) - IF k < Len(fs) THEN 1 ELSE 0)
    /\ k < Len(fs) => LeadsTo(d, fs[k], fs[k + 1])
    /\ Range(Listings(d)[Depth(k)][NodeOf(fs[k])]) \subseteq Range(Listings(d)[NumFiles][NodeOf(fs[1])])
StackInv(d, bad, fs) ==
    /\ Len(fs) <= NumFiles + 1
    /\ \A k \in DOMAIN fs : FrameInv(d, bad, fs, k)
    /\ \A k, l \in DOMAIN fs : k <= l => NodeOf(fs[l]) \in Tree(d, {NodeOf(fs[k])})

\* What deserves an error.
UnsoundSource == {SourceRules[i].name : i \in DOMAIN SourceRules} # Sound(SourceRules)
AtFault == ProgramFault \/ (~resilient /\ UnsoundSource)

LoadInv ==
    /\ pc = "parse" => disk[main.file].fault # "large"
    /\ pc = "include" => NodeOf(frames[1]) = MainNode /\ StackInv(disk, badImport, frames)
    /\ Loaded => rules = SourceRules /\ Clean(disk, badImport, MainNode)
    /\ Loaded /\ pc # "imports" => ~badImport
    /\ pc = "propagate" \/ Generating => ~BadVariable
    /\ pc \in {"include", "imports"} /\ badImport =>
          \E node \in SourceTree : disk[node[2]].fault = "import"

\* An error of the validation is of a rule that is there.
NamedInv ==
    /\ pc \in {"cycles", "judge"} => errors \subseteq KeptNames
    /\ pc = "cycles" => \A k \in DOMAIN path :
          path[k].name \in KeptNames /\ path[k].left \subseteq KeptNames

FaultInv == pc = "idle" /\ main.file # NoFile /\ outcome = "error" => AtFault
AnswerInv == LoadInv /\ NamedInv /\ FaultInv

LEMMA CleanStays ==
    ASSUME NEW d, NEW bad, NEW node, Clean(d, bad, node), NEW more, bad => more
    PROVE  Clean(d, more, node)
BY DEF Clean, Fine

\* The tree of a node is clean when those of its include statements are: a circle through
\* the node would be one of theirs.
LEMMA NodeIsClean ==
    ASSUME NEW d \in Disks, NEW bad, NEW node \in Nodes, Fine(d[node[2]], bad),
           \A i \in DOMAIN d[node[2]].includes :
              LeadsDown(d, node, i) /\ Clean(d, bad, Node(Target(d, node, i)))
    PROVE  Clean(d, bad, node)
<1> DEFINE I == DOMAIN d[node[2]].includes
           next(i) == Node(Target(d, node, i))
           S == {node} \cup UNION {Tree(d, {next(i)}) : i \in I}
<1>1. ASSUME NEW i \in I
      PROVE  next(i) \in Nodes /\ Target(d, node, i) \in Files /\ Clean(d, bad, next(i))
    BY AssemblyAssumption DEF LeadsDown, Node, Nodes
<1>2. Included(d, node) \subseteq {next(i) : i \in I}
    BY DEF Included
<1> HIDE DEF next
<1>3. \A i \in I : next(i) \in Tree(d, {next(i)})
    BY <1>1, TreeIsClosed
<1>4. ASSUME NEW n \in S, n \in Nodes PROVE Included(d, n) \subseteq S
    <2>1. CASE n = node
        BY <1>2, <1>3, <2>1
    <2>2. CASE n # node
        <3>1. PICK i \in I : n \in Tree(d, {next(i)})
            BY <2>2
        <3>2. Included(d, n) \subseteq Tree(d, {next(i)})
            BY <1>1, <3>1, TreeIsClosed
        <3> QED BY <3>1, <3>2
    <2> QED BY <2>1, <2>2
<1>5. Tree(d, {node}) \subseteq S
    <2> HIDE DEF S
    <2>1. node \in S
        BY DEF S
    <2> QED BY <1>4, <2>1, TreeIsLeast
<1>6. ASSUME NEW i \in I PROVE node \notin Tree(d, {next(i)})
    <2> SUFFICES ASSUME node \in Tree(d, {next(i)}) PROVE FALSE
        OBVIOUS
    <2> QED BY <1>1 DEF Clean, next
<1>7. ASSUME NEW n \in Tree(d, {node}), n # node PROVE \E i \in I : n \in Tree(d, {next(i)})
    BY <1>5, <1>7
<1>8. ASSUME NEW n \in Tree(d, {node})
      PROVE  /\ Fine(d[n[2]], bad)
             /\ \A i \in DOMAIN d[n[2]].includes :
                   LeadsDown(d, n, i) /\ n \notin Tree(d, {Node(Target(d, n, i))})
    <2>1. CASE n = node
        BY <1>6, <2>1 DEF next
    <2>2. CASE n # node
        <3>1. PICK i \in I : n \in Tree(d, {next(i)})
            BY <1>7, <2>2
        <3> QED BY <1>1, <3>1 DEF Clean
    <2> QED BY <2>1, <2>2
<1> QED BY <1>8 DEF Clean

\* What is clean is not at fault, but for a variable of the main file.
LEMMA CleanIsFaultless ==
    ASSUME disk \in Disks, MainNode \in Nodes, Clean(disk, FALSE, MainNode), ~BadVariable
    PROVE  ~ProgramFault
<1> USE DEF SourceTree
<1>1. ~MissingInclude
    <2> SUFFICES ASSUME NEW n \in SourceTree, NEW i \in DOMAIN disk[n[2]].includes
                 PROVE  /\ Target(disk, n, i) # NoFile
                        /\ <<n[1], DirOf[Target(disk, n, i)]>> \in Below
        BY DEF MissingInclude
    <2> QED BY AssemblyAssumption DEF Clean, LeadsDown
<1>2. ~CircularInclude
    <2> SUFFICES ASSUME NEW n \in SourceTree, NEW next \in Included(disk, n), n \in Tree(disk, {next})
                 PROVE  FALSE
        BY DEF CircularInclude
    <2>1. PICK i \in DOMAIN disk[n[2]].includes : next = Node(Target(disk, n, i))
        BY DEF Included
    <2> QED BY <2>1 DEF Clean
<1>3. \A n \in SourceTree : disk[n[2]].fault \notin {"import", "large"} /\ ~ProgramError(disk[n[2]])
    BY DEF Clean, Fine
<1> QED BY <1>1, <1>2, <1>3 DEF ProgramFault, BadVariable

\* Only the main file can be open twice: there are at most as many open files as files,
\* and one.
LEMMA FewFrames ==
    ASSUME NEW fs \in Seq(FrameRecord),
           \A i, j \in 2 .. Len(fs) : fs[i].file = fs[j].file => i = j
    PROVE  Len(fs) <= NumFiles + 1
<1> DEFINE n == Len(fs)
           f == [k \in 2 .. n |-> fs[k].file]
<1>1. n \in Nat /\ NumFiles \in Nat
    BY LenProperties, NumFilesIsNat
<1>2. CASE n <= 1
    BY <1>1, <1>2
<1>3. CASE ~(n <= 1)
    <2>1. \A k \in 2 .. n : fs[k].file \in Files
        <3> SUFFICES ASSUME NEW k \in 2 .. n PROVE fs[k].file \in Files
            OBVIOUS
        <3>1. k \in 1 .. n
            BY <1>1
        <3>2. fs[k] \in FrameRecord
            BY <3>1, ElementOfSeq
        <3> QED BY <3>2 DEF FrameRecord
    <2>2. f \in Injection(2 .. n, Files)
        BY <2>1 DEF Injection, IsInjective
    <2>3. Cardinality(2 .. n) <= NumFiles
        <3> HIDE DEF f, n
        <3> QED BY <2>2, NumFilesIsNat, FS_Injection DEF NumFiles
    <2>4. Cardinality(2 .. n) = n - 1
        <3>1. Cardinality(2 .. n) = IF 2 > n THEN 0 ELSE n - 2 + 1
            BY <1>1, FS_Interval
        <3> QED BY <1>1, <1>3, <3>1
    <2> QED BY <1>1, <2>3, <2>4
<1> QED BY <1>2, <1>3

\* A rule of the source that did not parse, or any other that is not sound.
LEMMA UnsoundIsUnsound ==
    ASSUME TypeOK, MainNode \in Nodes, NEW rule \in Range(SourceRules),
           Unparsed(rule) \/ rule.name \notin Sound(SourceRules)
    PROVE  UnsoundSource
<1> DEFINE its == SourceRules
<1>1. its \in Seq(SourceRule)
    <2>1. disk \in Disks /\ NumFiles \in 0 .. NumFiles
        BY NumFilesIsNat DEF TypeOK, FixedOK
    <2> QED BY <2>1, ListingsUnfold DEF SourceRules, NumFiles
<1> HIDE DEF its
<1>2. PICK i \in DOMAIN its : its[i] = rule
    BY DEF Range, its
<1>3. rule.name \notin Sound(its)
    <2> SUFFICES ASSUME Unparsed(rule), rule.name \in Sound(its) PROVE FALSE
        BY DEF its
    <2>1. PICK j \in DOMAIN its : its[j].state = "valid" /\ \A k \in DOMAIN its : its[k].name = rule.name => k = j
        BY <1>1, SoundHolder
    <2> QED BY <1>2, <2>1 DEF Unparsed
<1>4. rule.name \in {its[k].name : k \in DOMAIN its}
    BY <1>2
<1> QED BY <1>3, <1>4 DEF UnsoundSource, its

LEMMA FrameFacts ==
    ASSUME NEW d \in Disks, NEW frame \in FrameRecord
    PROVE  /\ frame.file \in Files /\ frame.dir \in Dirs /\ d[frame.file] \in Content
           /\ NodeOf(frame) \in Nodes
           /\ NodeOf(frame)[1] = frame.dir /\ NodeOf(frame)[2] = frame.file
           /\ d[frame.file].rules \in Seq(SourceRule)
           /\ Len(d[frame.file].includes) \in Nat
           /\ DOMAIN d[frame.file].includes = 1 .. Len(d[frame.file].includes)
           /\ Len(frame.todo) \in Nat
<1>1. frame.file \in Files /\ frame.dir \in Dirs /\ frame.todo \in Seq(Paths)
    BY DEF FrameRecord
<1>2. NodeOf(frame) \in Nodes /\ NodeOf(frame)[1] = frame.dir /\ NodeOf(frame)[2] = frame.file
    BY <1>1 DEF NodeOf, Nodes
<1>3. d[frame.file] \in Content
    BY <1>1, AssemblyAssumption
<1> QED BY <1>1, <1>2, <1>3, NodesIncludeNodes, LenProperties DEF Content

\* A file whose include statements are finished has the list of its node, and its tree is
\* clean.
LEMMA TopIsDone ==
    ASSUME NEW d \in Disks, NEW bad, NEW fs \in Seq(FrameRecord), Len(fs) \in Nat \ {0},
           StackInv(d, bad, fs), fs[Len(fs)].todo = <<>>
    PROVE  /\ Clean(d, bad, NodeOf(fs[Len(fs)]))
           /\ Depth(Len(fs)) \in 0 .. NumFiles
           /\ fs[Len(fs)].rules = Listings(d)[Depth(Len(fs))][NodeOf(fs[Len(fs)])]
<1> DEFINE n == Len(fs)
           top == fs[n]
           node == NodeOf(top)
           k == Len(d[top.file].includes)
<1>1. n \in Nat \ {0} /\ n \in DOMAIN fs /\ top \in FrameRecord /\ ~(n < n)
    BY LenProperties, ElementOfSeq
<1>2. Depth(n) \in 0 .. NumFiles
    BY <1>1, NumFilesIsNat DEF StackInv, Depth
<1>3. FrameInv(d, bad, fs, n)
    BY <1>1 DEF StackInv
<1>4. node \in Nodes /\ node[2] = top.file /\ DOMAIN d[top.file].includes = 1 .. k /\ k \in Nat
    BY <1>1, FrameFacts
<1>5. Begun(d, top) = k /\ k - 0 = k
    <2>1. Len(top.todo) = 0
        BY EmptySeq
    <2> QED BY <1>4, <2>1 DEF Begun
<1>6. HasRead(d, bad, top, Depth(n), k)
    <2>1. HasRead(d, bad, top, Depth(n), Begun(d, top) - IF n < n THEN 1 ELSE 0)
        BY <1>3 DEF FrameInv
    <2>2. (Begun(d, top) - IF n < n THEN 1 ELSE 0) = k
        BY <1>1, <1>4, <1>5
    <2> HIDE DEF k, top, n
    <2> QED BY <2>1, <2>2
<1>7. Clean(d, bad, node)
    <2>1. Fine(d[node[2]], bad)
        BY <1>4, <1>6 DEF HasRead
    <2>2. \A i \in DOMAIN d[node[2]].includes :
             LeadsDown(d, node, i) /\ Clean(d, bad, Node(Target(d, node, i)))
        BY <1>4, <1>6 DEF HasRead
    <2> HIDE DEF node
    <2> QED BY <1>4, <2>1, <2>2, NodeIsClean
<1>8. top.rules = Listings(d)[Depth(n)][node]
    <2>1. Listings(d)[Depth(n)][node] = d[node[2]].rules \o Parts(d, Depth(n), node)[Len(d[node[2]].includes)]
        BY <1>2, <1>4, PartsGrow
    <2> QED BY <1>4, <1>6, <2>1 DEF HasRead
<1> QED BY <1>2, <1>7, <1>8

LEMMA ReadStays ==
    ASSUME NEW d, NEW bad, NEW more, bad => more, NEW frame, NEW depth, NEW done,
           HasRead(d, bad, frame, depth, done),
           NEW other, other.file = frame.file, other.dir = frame.dir, other.rules = frame.rules
    PROVE  HasRead(d, more, other, depth, done)
<1>1. NodeOf(other) = NodeOf(frame)
    BY DEF NodeOf
<1>2. Fine(d[frame.file], more)
    BY DEF HasRead, Fine
<1>3. \A node : Clean(d, bad, node) => Clean(d, more, node)
    BY CleanStays
<1> QED BY <1>1, <1>2, <1>3 DEF HasRead

\* A file below the innermost one of the stack is on another one as it was.
LEMMA FrameStays ==
    ASSUME NEW d, NEW bad, NEW more, bad => more, NEW fs, NEW gs, NEW k, FrameInv(d, bad, fs, k),
           k < Len(fs), k < Len(gs), gs[k] = fs[k],
           NodeOf(gs[k + 1]) = NodeOf(fs[k + 1]), NodeOf(gs[1]) = NodeOf(fs[1])
    PROVE  FrameInv(d, more, gs, k)
<1>1. HasRead(d, more, gs[k], Depth(k), Begun(d, gs[k]) - IF k < Len(gs) THEN 1 ELSE 0)
    <2>1. HasRead(d, bad, fs[k], Depth(k), Begun(d, fs[k]) - 1)
        BY DEF FrameInv
    <2>2. HasRead(d, more, fs[k], Depth(k), Begun(d, fs[k]) - 1)
        BY <2>1, ReadStays
    <2> QED BY <2>2
<1>2. LeadsTo(d, gs[k], gs[k + 1])
    BY DEF FrameInv, LeadsTo
<1> QED BY <1>1, <1>2 DEF FrameInv

\* The stack when an included file is opened: the statement is begun, and the file has
\* begun none.
Begins(fs, gs, n) ==
    /\ \A k \in 1 .. (n - 1) : gs[k] = fs[k]
    /\ gs[n].file = fs[n].file /\ gs[n].dir = fs[n].dir /\ gs[n].rules = fs[n].rules
    /\ fs[n].todo # <<>> /\ gs[n].todo = Tail(fs[n].todo)
Opens(d, fs, gs, n, file) ==
    /\ file = Resolve[fs[n].dir][Head(fs[n].todo)]
    /\ <<fs[n].dir, DirOf[file]>> \in Below
    /\ gs[n + 1].file = file /\ gs[n + 1].dir = DirOf[file]
    /\ gs[n + 1].todo = d[file].includes /\ gs[n + 1].rules = d[file].rules

LEMMA StackOpens ==
    ASSUME NEW d \in Disks, NEW bad, NEW more, bad => more,
           NEW fs \in Seq(FrameRecord), NEW n \in Nat \ {0}, Len(fs) = n, StackInv(d, bad, fs),
           NEW gs \in Seq(FrameRecord), Len(gs) = n + 1, n + 1 <= NumFiles + 1,
           Begins(fs, gs, n), NEW file \in Files, Opens(d, fs, gs, n, file), Fine(d[file], more)
    PROVE  StackInv(d, more, gs)
<1> DEFINE top == fs[n]
           b == Begun(d, top)
           node == NodeOf(top)
           new == gs[n + 1]
<1>1. /\ DOMAIN fs = 1 .. n /\ DOMAIN gs = 1 .. (n + 1) /\ n \in 1 .. n /\ n + 1 \in 1 .. (n + 1)
      /\ \A k \in 1 .. n : fs[k] \in FrameRecord
      /\ \A k \in 1 .. (n + 1) : gs[k] \in FrameRecord
    BY LenProperties, ElementOfSeq
<1>2. top \in FrameRecord /\ gs[n] \in FrameRecord /\ new \in FrameRecord
    BY <1>1
<1>3. /\ gs[n].file = top.file /\ gs[n].dir = top.dir /\ gs[n].rules = top.rules
      /\ gs[n].todo = Tail(top.todo) /\ NodeOf(gs[n]) = node
      /\ \A k \in 1 .. (n - 1) : gs[k] = fs[k]
    BY DEF Begins, NodeOf
<1>4. /\ new.file = file /\ new.dir = DirOf[file] /\ new.todo = d[file].includes
      /\ new.rules = d[file].rules /\ NodeOf(new) = Node(file)
    BY DEF Opens, NodeOf, Node
<1>5. FrameInv(d, bad, fs, n) /\ IsRest(d, top) /\ HasRead(d, bad, top, Depth(n), b)
    <2>1. FrameInv(d, bad, fs, n)
        BY <1>1 DEF StackInv
    <2>2. IsRest(d, top) /\ HasRead(d, bad, top, Depth(n), b - IF n < n THEN 1 ELSE 0)
        BY <2>1 DEF FrameInv
    <2>3. b \in Nat /\ ~(n < n)
        BY <2>2 DEF IsRest
    <2>4. (b - IF n < n THEN 1 ELSE 0) = b
        BY <2>3
    <2> HIDE DEF b, top
    <2> QED BY <2>1, <2>2, <2>4
<1>6. /\ Head(top.todo) = top.todo[1] /\ Len(top.todo) \in Nat \ {0}
      /\ Len(Tail(top.todo)) = Len(top.todo) - 1
      /\ \A j \in 1 .. (Len(top.todo) - 1) : Tail(top.todo)[j] = top.todo[j + 1]
    <2>1. top.todo \in Seq(Paths) /\ top.todo # <<>>
        BY <1>2 DEF FrameRecord, Begins
    <2> HIDE DEF top
    <2> QED BY <2>1, HeadTailProperties, EmptySeq, LenProperties
<1>7. /\ b \in Nat /\ b + 1 \in DOMAIN d[top.file].includes
      /\ d[top.file].includes[b + 1] = Head(top.todo)
      /\ Begun(d, gs[n]) = b + 1
    <2>1. b \in Nat /\ \A j \in 1 .. Len(top.todo) : top.todo[j] = d[top.file].includes[b + j]
        BY <1>5 DEF IsRest
    <2>2. b = Len(d[top.file].includes) - Len(top.todo)
        BY DEF Begun
    <2>3. /\ Len(d[top.file].includes) \in Nat
          /\ DOMAIN d[top.file].includes = 1 .. Len(d[top.file].includes)
        BY <1>2, FrameFacts
    <2>4. Begun(d, gs[n]) = Len(d[top.file].includes) - (Len(top.todo) - 1)
        BY <1>3, <1>6 DEF Begun
    <2> DEFINE all == Len(d[top.file].includes)
               left == Len(top.todo)
    <2>5. all \in Nat /\ left \in Nat /\ left # 0 /\ b \in Nat /\ b = all - left
        BY <1>6, <2>1, <2>2, <2>3
    <2> HIDE DEF b, top, all, left
    <2>6. b + 1 \in 1 .. all /\ 1 \in 1 .. left /\ all - (left - 1) = b + 1
        BY <2>5
    <2> USE DEF all, left
    <2>7. top.todo[1] = d[top.file].includes[b + 1]
        BY <2>1, <2>6
    <2>8. b + 1 \in DOMAIN d[top.file].includes
        BY <2>3, <2>6
    <2>9. Begun(d, gs[n]) = b + 1
        BY <2>4, <2>6
    <2> QED BY <1>6, <2>5, <2>7, <2>8, <2>9
<1>8. Target(d, node, b + 1) = file /\ LeadsDown(d, node, b + 1)
    <2>1. node[1] = top.dir /\ node[2] = top.file
        BY <1>2, FrameFacts
    <2> HIDE DEF b, node
    <2>2. Target(d, node, b + 1) = file
        BY <1>7, <2>1 DEF Target, Opens
    <2>3. <<node[1], DirOf[file]>> \in Below
        BY <2>1 DEF Opens
    <2> QED BY <2>2, <2>3 DEF LeadsDown
<1>9. /\ NodeOf(gs[1]) = NodeOf(fs[1])
      /\ \A k \in 1 .. n : NodeOf(gs[k]) = NodeOf(fs[k])
    BY <1>3
<1>10. /\ Depth(n) \in 0 .. NumFiles /\ Depth(n + 1) \in 0 .. NumFiles
       /\ Depth(n) # 0 /\ Depth(n) - 1 = Depth(n + 1)
    BY NumFilesIsNat DEF Depth
<1>11. node \in Nodes /\ node[2] = top.file /\ NodeOf(new) \in Nodes /\ file # NoFile
    BY <1>2, FrameFacts, AssemblyAssumption
<1>12. ASSUME NEW k \in 1 .. (n - 1) PROVE FrameInv(d, more, gs, k)
    <2>1. FrameInv(d, bad, fs, k)
        BY <1>1, <1>12 DEF StackInv
    <2>2. k < Len(fs) /\ k < Len(gs) /\ k + 1 \in 1 .. n /\ gs[k] = fs[k]
        BY <1>3, <1>12
    <2>3. NodeOf(gs[k + 1]) = NodeOf(fs[k + 1])
        BY <1>9, <2>2
    <2> QED BY <1>9, <2>1, <2>2, <2>3, FrameStays
<1>13. FrameInv(d, more, gs, n)
    <2>1. IsRest(d, gs[n])
        <3>1. \A j \in 1 .. Len(top.todo) : top.todo[j] = d[top.file].includes[b + j]
            BY <1>5 DEF IsRest
        <3> HIDE DEF b, top
        <3>2. Len(gs[n].todo) = Len(top.todo) - 1
            BY <1>3, <1>6
        <3>3. ASSUME NEW j \in 1 .. (Len(top.todo) - 1)
              PROVE  gs[n].todo[j] = d[top.file].includes[b + 1 + j]
            <4>1. j + 1 \in 1 .. Len(top.todo) /\ b + (j + 1) = b + 1 + j
                BY <1>6, <1>7
            <4>2. gs[n].todo[j] = top.todo[j + 1]
                BY <1>3, <1>6
            <4>3. top.todo[j + 1] = d[top.file].includes[b + (j + 1)]
                BY <3>1, <4>1
            <4> QED BY <4>1, <4>2, <4>3
        <3> QED BY <1>3, <1>7, <3>2, <3>3 DEF IsRest
    <2>2. HasRead(d, more, gs[n], Depth(n), b)
        BY <1>3, <1>5, ReadStays
    <2>3. (Begun(d, gs[n]) - IF n < Len(gs) THEN 1 ELSE 0) = b
        BY <1>7
    <2>4. LeadsTo(d, gs[n], gs[n + 1])
        <3> HIDE DEF b, node, top, new
        <3> QED BY <1>3, <1>4, <1>7, <1>8 DEF LeadsTo, new
    <2>5. Range(Listings(d)[Depth(n)][NodeOf(gs[n])]) \subseteq Range(Listings(d)[NumFiles][NodeOf(gs[1])])
        BY <1>3, <1>5, <1>9 DEF FrameInv
    <2> HIDE DEF b
    <2> QED BY <2>1, <2>2, <2>3, <2>4, <2>5 DEF FrameInv
<1>14. FrameInv(d, more, gs, n + 1)
    <2>1. /\ d[file].rules \in Seq(SourceRule) /\ Len(d[file].includes) \in Nat
        BY <1>2, <1>4, FrameFacts
    <2>2. Begun(d, new) = 0
        BY <1>4, <2>1 DEF Begun
    <2>3. IsRest(d, new)
        <3>1. \A j \in 1 .. Len(d[file].includes) : 0 + j = j
            OBVIOUS
        <3> HIDE DEF new
        <3> QED BY <1>4, <2>1, <2>2, <3>1 DEF IsRest
    <2>4. HasRead(d, more, new, Depth(n + 1), 0)
        <3>1. Parts(d, Depth(n + 1), NodeOf(new))[0] = <<>>
            BY <1>10, <1>11, PartsGrow
        <3>2. new.rules = d[file].rules \o <<>>
            BY <1>4, <2>1, ConcatEmptySeq
        <3> HIDE DEF new
        <3>3. 0 \in 0 .. Len(d[file].includes) /\ 1 .. 0 = {}
            BY <2>1
        <3> QED BY <1>4, <3>1, <3>2, <3>3 DEF HasRead
    <2>5. ~(n + 1 < Len(gs)) /\ (Begun(d, new) - IF n + 1 < Len(gs) THEN 1 ELSE 0) = 0
        <3> HIDE DEF new
        <3> DEFINE unfinished == IF n + 1 < Len(gs) THEN 1 ELSE 0
        <3>1. ~(n + 1 < Len(gs))
            OBVIOUS
        <3>2. unfinished = 0
            BY <3>1
        <3> HIDE DEF unfinished
        <3>3. Begun(d, new) - unfinished = 0
            BY <2>2, <3>2
        <3> QED BY <3>1, <3>3 DEF unfinished
    <2>6. Range(Listings(d)[Depth(n + 1)][NodeOf(new)]) \subseteq Range(Listings(d)[NumFiles][NodeOf(gs[1])])
        <3>1. Range(Listings(d)[Depth(n)][node]) \subseteq Range(Listings(d)[NumFiles][NodeOf(gs[1])])
            BY <1>5, <1>9 DEF FrameInv
        <3>2. Range(Listings(d)[Depth(n) - 1][Node(Target(d, node, b + 1))]) \subseteq Range(Listings(d)[Depth(n)][node])
            <4> HIDE DEF node, b, top
            <4>1. b + 1 \in DOMAIN d[node[2]].includes
                BY <1>7, <1>11
            <4> QED BY <1>8, <1>10, <1>11, <4>1, ListsHoldTheirParts
        <3> HIDE DEF node, b, new
        <3> QED BY <1>4, <1>8, <1>10, <3>1, <3>2
    <2> QED BY <2>3, <2>4, <2>5, <2>6 DEF FrameInv
<1>15. ASSUME NEW k \in 1 .. (n + 1), NEW l \in 1 .. (n + 1), k <= l
       PROVE  NodeOf(gs[l]) \in Tree(d, {NodeOf(gs[k])})
    <2>1. CASE l # n + 1
        <3>1. k \in 1 .. n /\ l \in 1 .. n
            BY <1>15, <2>1
        <3> QED BY <1>1, <1>9, <1>15, <3>1 DEF StackInv
    <2>2. CASE k = n + 1
        <3>1. l = n + 1
            BY <1>15, <2>2
        <3> QED BY <1>11, <2>2, <3>1, TreeIsClosed
    <2>3. CASE l = n + 1 /\ k # n + 1
        <3>1. k \in 1 .. n /\ k <= n
            BY <1>15, <2>3
        <3>2. node \in Tree(d, {NodeOf(gs[k])})
            BY <1>1, <1>9, <3>1 DEF StackInv
        <3>3. Node(file) \in Included(d, node)
            BY <1>7, <1>8, <1>11 DEF Included
        <3>4. NodeOf(gs[k]) \in Nodes
            BY <1>1, <1>15, FrameFacts
        <3> HIDE DEF node
        <3> QED BY <1>4, <2>3, <3>2, <3>3, <3>4, TreeIsClosed
    <2> QED BY <2>1, <2>2, <2>3
<1>16. \A k \in DOMAIN gs : FrameInv(d, more, gs, k)
    <2>1. \A k \in 1 .. (n + 1) : k \in 1 .. (n - 1) \/ k = n \/ k = n + 1
        OBVIOUS
    <2> QED BY <1>1, <1>12, <1>13, <1>14, <2>1
<1> QED BY <1>1, <1>15, <1>16 DEF StackInv

\* The stack when a file is closed: its list goes behind that of the file below.
Closes(fs, gs, m) ==
    /\ \A k \in 1 .. (m - 1) : gs[k] = fs[k]
    /\ gs[m].file = fs[m].file /\ gs[m].dir = fs[m].dir /\ gs[m].todo = fs[m].todo
    /\ gs[m].rules = fs[m].rules \o fs[m + 1].rules
    /\ fs[m + 1].todo = <<>>

LEMMA StackCloses ==
    ASSUME NEW d \in Disks, NEW bad,
           NEW fs \in Seq(FrameRecord), NEW m \in Nat \ {0}, Len(fs) = m + 1, StackInv(d, bad, fs),
           NEW gs \in Seq(FrameRecord), Len(gs) = m, Closes(fs, gs, m)
    PROVE  StackInv(d, bad, gs)
<1> DEFINE outer == fs[m]
           inner == fs[m + 1]
           b == Begun(d, outer)
           node == NodeOf(outer)
           next == NodeOf(inner)
           part == Parts(d, Depth(m), node)
           its == d[outer.file].rules
<1>1. /\ DOMAIN fs = 1 .. (m + 1) /\ DOMAIN gs = 1 .. m /\ m \in 1 .. (m + 1) /\ m + 1 \in 1 .. (m + 1)
      /\ \A k \in 1 .. m : k \in 1 .. (m + 1)
      /\ \A k \in 1 .. (m + 1) : fs[k] \in FrameRecord
      /\ \A k \in 1 .. m : gs[k] \in FrameRecord
    BY LenProperties, ElementOfSeq
<1>2. outer \in FrameRecord /\ inner \in FrameRecord /\ gs[m] \in FrameRecord
    BY <1>1
<1>3. /\ gs[m].file = outer.file /\ gs[m].dir = outer.dir /\ gs[m].todo = outer.todo
      /\ gs[m].rules = outer.rules \o inner.rules /\ NodeOf(gs[m]) = node
      /\ \A k \in 1 .. (m - 1) : gs[k] = fs[k]
      /\ inner.todo = <<>>
    BY DEF Closes, NodeOf
<1>4. \A k \in 1 .. m : NodeOf(gs[k]) = NodeOf(fs[k])
    BY <1>3
<1>5. /\ Depth(m) \in 0 .. NumFiles /\ Depth(m + 1) \in 0 .. NumFiles
      /\ Depth(m) # 0 /\ Depth(m) - 1 = Depth(m + 1)
    <2>1. m + 1 <= NumFiles + 1
        BY DEF StackInv
    <2> QED BY <2>1, NumFilesIsNat DEF Depth
<1>6. Clean(d, bad, next) /\ inner.rules = Listings(d)[Depth(m + 1)][next]
    <2>1. Len(fs) \in Nat \ {0} /\ fs[Len(fs)].todo = <<>>
        BY <1>3
    <2>2. /\ Clean(d, bad, NodeOf(fs[Len(fs)]))
          /\ fs[Len(fs)].rules = Listings(d)[Depth(Len(fs))][NodeOf(fs[Len(fs)])]
        BY <2>1, TopIsDone
    <2> QED BY <2>2
<1>7. FrameInv(d, bad, fs, m)
    BY <1>1 DEF StackInv
<1>8. IsRest(d, outer) /\ b \in Nat /\ HasRead(d, bad, outer, Depth(m), b - 1) /\ LeadsTo(d, outer, inner)
    <2>1. m < Len(fs)
        OBVIOUS
    <2>2. /\ IsRest(d, outer) /\ LeadsTo(d, outer, inner)
          /\ HasRead(d, bad, outer, Depth(m), b - IF m < Len(fs) THEN 1 ELSE 0)
        BY <1>7, <2>1 DEF FrameInv
    <2>3. HasRead(d, bad, outer, Depth(m), b - 1)
        <3> HIDE DEF b, outer
        <3> QED BY <2>1, <2>2
    <2> QED BY <2>2, <2>3 DEF IsRest
<1>9. /\ b \in DOMAIN d[outer.file].includes /\ b \in 1 .. Len(d[outer.file].includes)
      /\ LeadsDown(d, node, b) /\ next = Node(Target(d, node, b))
      /\ node \in Nodes /\ node[2] = outer.file /\ its \in Seq(SourceRule)
      /\ Target(d, node, b) # NoFile
    <2>1. /\ b \in DOMAIN d[outer.file].includes /\ LeadsDown(d, node, b)
          /\ next = Node(Target(d, node, b))
        BY <1>8 DEF LeadsTo
    <2>2. /\ node \in Nodes /\ node[2] = outer.file /\ its \in Seq(SourceRule)
          /\ DOMAIN d[outer.file].includes = 1 .. Len(d[outer.file].includes)
        BY <1>2, FrameFacts
    <2> HIDE DEF b, node, next, its
    <2>3. Target(d, node, b) # NoFile
        BY <2>1, AssemblyAssumption DEF LeadsDown
    <2> QED BY <2>1, <2>2, <2>3
<1>10. gs[m].rules = its \o part[b]
    <2>1. outer.rules = its \o part[b - 1]
        BY <1>8 DEF HasRead
    <2>2. /\ part \in [0 .. Len(d[outer.file].includes) -> Seq(SourceRule)]
          /\ part[b] = part[b - 1] \o Listings(d)[Depth(m) - 1][Node(Target(d, node, b))]
        <3>1. /\ part \in [0 .. Len(d[node[2]].includes) -> Seq(SourceRule)]
              /\ \A i \in DOMAIN d[node[2]].includes : Target(d, node, i) # NoFile =>
                    part[i] = part[i - 1] \o Listings(d)[Depth(m) - 1][Node(Target(d, node, i))]
            <4> HIDE DEF b, node
            <4> QED BY <1>5, <1>9, PartsGrow
        <3>2. node[2] = outer.file
            BY <1>9
        <3> HIDE DEF b, node, part, outer
        <3> QED BY <1>9, <3>1, <3>2
    <2>3. part[b] = part[b - 1] \o inner.rules
        <3> HIDE DEF part, b, node, next, inner
        <3> QED BY <1>5, <1>6, <1>9, <2>2
    <2>4. part[b - 1] \in Seq(SourceRule)
        <3>1. b - 1 \in 0 .. Len(d[outer.file].includes)
            <4> HIDE DEF b
            <4>1. Len(d[outer.file].includes) \in Nat
                BY <1>2, FrameFacts
            <4> QED BY <1>9, <4>1
        <3> HIDE DEF part, b
        <3> QED BY <2>2, <3>1
    <2>5. inner.rules \in Seq(SourceRule)
        BY <1>2 DEF FrameRecord
    <2> DEFINE before == part[b - 1]
               last == inner.rules
    <2>6. (its \o before) \o last = its \o (before \o last)
        <3>1. its \in Seq(SourceRule) /\ before \in Seq(SourceRule) /\ last \in Seq(SourceRule)
            BY <1>9, <2>4, <2>5
        <3> HIDE DEF its, before, last
        <3> QED BY <3>1, ConcatAssociative
    <2> HIDE DEF its, part, b, inner, outer
    <2> QED BY <1>3, <2>1, <2>3, <2>6
<1>11. HasRead(d, bad, gs[m], Depth(m), b)
    <2>1. /\ Fine(d[outer.file], bad)
          /\ \A i \in 1 .. (b - 1) : LeadsDown(d, node, i) /\ Clean(d, bad, Node(Target(d, node, i)))
        BY <1>8 DEF HasRead
    <2>2. \A i \in 1 .. b : LeadsDown(d, node, i) /\ Clean(d, bad, Node(Target(d, node, i)))
        <3> HIDE DEF b, node, next
        <3>1. \A i \in 1 .. b : i \in 1 .. (b - 1) \/ i = b
            BY <1>8
        <3> QED BY <1>6, <1>9, <2>1, <3>1
    <2>3. b \in 0 .. Len(d[outer.file].includes)
        <3> HIDE DEF b
        <3> QED BY <1>9
    <2> HIDE DEF b, node, outer
    <2> QED BY <1>3, <1>10, <2>1, <2>2, <2>3 DEF HasRead, outer, node, its, part
<1>12. FrameInv(d, bad, gs, m)
    <2>1. IsRest(d, gs[m]) /\ Begun(d, gs[m]) = b
        BY <1>3, <1>8 DEF IsRest, Begun
    <2>2. ~(m < Len(gs))
        OBVIOUS
    <2> DEFINE unfinished == IF m < Len(gs) THEN 1 ELSE 0
    <2>3. unfinished = 0
        BY <2>2
    <2>4. Begun(d, gs[m]) - unfinished = b
        <3> HIDE DEF unfinished, b
        <3> QED BY <1>8, <2>1, <2>3
    <2>5. Range(Listings(d)[Depth(m)][NodeOf(gs[m])]) \subseteq Range(Listings(d)[NumFiles][NodeOf(gs[1])])
        <3>1. NodeOf(gs[1]) = NodeOf(fs[1])
            BY <1>4
        <3> QED BY <1>3, <1>7, <3>1 DEF FrameInv
    <2> HIDE DEF unfinished, b
    <2> QED BY <1>11, <2>1, <2>2, <2>4, <2>5 DEF FrameInv, unfinished
<1>13. ASSUME NEW k \in 1 .. (m - 1) PROVE FrameInv(d, bad, gs, k)
    <2>1. k \in 1 .. (m + 1) /\ k < Len(fs) /\ k < Len(gs) /\ k + 1 \in 1 .. m /\ 1 \in 1 .. m
        BY <1>13
    <2>2. FrameInv(d, bad, fs, k)
        BY <1>1, <2>1 DEF StackInv
    <2>3. gs[k] = fs[k] /\ NodeOf(gs[k + 1]) = NodeOf(fs[k + 1]) /\ NodeOf(gs[1]) = NodeOf(fs[1])
        BY <1>3, <1>4, <1>13, <2>1
    <2> QED BY <2>1, <2>2, <2>3, FrameStays
<1>14. \A k, l \in DOMAIN gs : k <= l => NodeOf(gs[l]) \in Tree(d, {NodeOf(gs[k])})
    BY <1>1, <1>4 DEF StackInv
<1>15. \A k \in DOMAIN gs : FrameInv(d, bad, gs, k)
    <2>1. \A k \in 1 .. m : k \in 1 .. (m - 1) \/ k = m
        OBVIOUS
    <2> QED BY <1>1, <1>12, <1>13, <2>1
<1>16. Len(gs) <= NumFiles + 1
    BY NumFilesIsNat DEF StackInv
<1> QED BY <1>14, <1>15, <1>16 DEF StackInv

\* What the two actions do to the stack.
NextFile == Resolve[Top.dir][Head(Top.todo)]

LEMMA AnIncludeOpens ==
    ASSUME TypeOK, OpenInclude, pc' # "idle"
    PROVE  /\ pc = "include" /\ pc' = "include" /\ disk' = disk /\ main' = main
           /\ frames \in Seq(FrameRecord) /\ Len(frames) \in Nat \ {0}
           /\ Top = frames[Len(frames)]
           /\ NextFile \in Files
           /\ disk[NextFile].fault # "large" /\ ~ParseFails(disk[NextFile])
           /\ badImport' = (badImport \/ disk[NextFile].fault = "import")
           /\ frames' \in Seq(FrameRecord) /\ Len(frames') = Len(frames) + 1
           /\ Begins(frames, frames', Len(frames))
           /\ Opens(disk, frames, frames', Len(frames), NextFile)
<1> DEFINE file == NextFile
           refused == \/ file = NoFile
                      \/ /\ file # NoFile
                         /\ \/ <<Top.dir, DirOf[file]>> \notin Below
                            \/ file \in ActivePaths
                            \/ disk[file].fault = "large"
                            \/ ParseFails(disk[file])
           opened == [frames EXCEPT ![Len(frames)].todo = Tail(@)]
           longer == [Top EXCEPT !.todo = Tail(Top.todo)]
           last == Frame(DirOf[file], file)
           n == Len(frames)
<1>1. pc = "include" /\ Top.todo # <<>> /\ ~refused
    BY DEF OpenInclude, Return, NextFile
<1>2. /\ pc' = "include" /\ disk' = disk /\ main' = main
      /\ frames' = Append(opened, last)
      /\ badImport' = (badImport \/ disk[file].fault = "import")
    BY <1>1 DEF OpenInclude, fixed, call, NextFile
<1>3. /\ frames \in Seq(FrameRecord) /\ n \in Nat \ {0}
      /\ Top = frames[n] /\ Top \in FrameRecord
    BY <1>1, TopIsTyped
<1>4. /\ file \in Files /\ <<Top.dir, DirOf[file]>> \in Below
      /\ disk[file].fault # "large" /\ ~ParseFails(disk[file])
    <2>1. Top.dir \in Dirs /\ Head(Top.todo) \in Paths
        BY <1>1, <1>3, HeadTailProperties DEF FrameRecord
    <2> QED BY <1>1, <2>1, AssemblyAssumption DEF NextFile
<1>5. /\ longer \in FrameRecord /\ longer.rules = Top.rules /\ longer.file = Top.file
      /\ longer.dir = Top.dir /\ longer.todo = Tail(Top.todo)
    BY <1>1, <1>3, HeadTailProperties DEF FrameRecord
<1>6. opened = [frames EXCEPT ![n] = longer]
    BY <1>3
<1>7. /\ last \in FrameRecord /\ last.file = file /\ last.dir = DirOf[file]
      /\ last.todo = disk[file].includes /\ last.rules = disk[file].rules
    BY <1>4, AssemblyAssumption, FrameIsTyped DEF Frame
<1> HIDE DEF opened, longer, last, file, refused
<1>8. /\ opened \in Seq(FrameRecord) /\ Len(opened) = n
      /\ \A k \in 1 .. n : opened[k] = IF k = n THEN longer ELSE frames[k]
    <2> HIDE DEF n
    <2>1. n \in 1 .. Len(frames)
        BY <1>3 DEF n
    <2> QED BY <1>3, <1>5, <1>6, <2>1, ExceptSeq DEF n
<1>9. /\ frames' \in Seq(FrameRecord) /\ Len(frames') = n + 1
      /\ \A k \in 1 .. n : frames'[k] = opened[k]
      /\ frames'[n + 1] = last
    BY <1>2, <1>7, <1>8, AppendProperties
<1> HIDE DEF n
<1>10. /\ n \in 1 .. n /\ \A k \in 1 .. (n - 1) : k \in 1 .. n /\ k # n
    BY <1>3
<1>11. frames'[n] = longer /\ \A k \in 1 .. (n - 1) : frames'[k] = frames[k]
    BY <1>8, <1>9, <1>10
<1>12. Begins(frames, frames', n)
    BY <1>1, <1>3, <1>5, <1>11 DEF Begins
<1>13. Opens(disk, frames, frames', n, file)
    BY <1>3, <1>4, <1>7, <1>9 DEF Opens, NextFile, file
<1> QED BY <1>1, <1>2, <1>3, <1>4, <1>9, <1>12, <1>13 DEF file, n

LEMMA AnIncludeCloses ==
    ASSUME TypeOK, CloseInclude
    PROVE  /\ pc = "include" /\ pc' = "include" /\ disk' = disk /\ main' = main
           /\ badImport' = badImport
           /\ frames \in Seq(FrameRecord) /\ Len(frames) - 1 \in Nat \ {0}
           /\ frames' \in Seq(FrameRecord) /\ Len(frames') = Len(frames) - 1
           /\ Closes(frames, frames', Len(frames) - 1)
<1> DEFINE outer == SubSeq(frames, 1, Len(frames) - 1)
           m == Len(frames) - 1
           longer == [outer[m] EXCEPT !.rules = @ \o Top.rules]
<1>1. /\ pc = "include" /\ pc' = "include" /\ Len(frames) > 1 /\ Top.todo = <<>>
      /\ disk' = disk /\ main' = main /\ badImport' = badImport
      /\ frames' = [outer EXCEPT ![m] = longer]
    BY DEF CloseInclude, fixed, call
<1>2. /\ frames \in Seq(FrameRecord) /\ Len(frames) \in Nat \ {0}
      /\ Top = frames[Len(frames)] /\ Top \in FrameRecord
    BY <1>1, TopIsTyped
<1>3. /\ outer \in Seq(FrameRecord) /\ Len(outer) = m
      /\ \A i \in 1 .. m : outer[i] = frames[i]
    BY <1>1, <1>2
<1>4. m \in 1 .. Len(outer) /\ m \in Nat \ {0} /\ m + 1 = Len(frames)
    BY <1>1, <1>2, <1>3
<1>5. outer[m] = frames[m] /\ outer[m] \in FrameRecord
    BY <1>3, <1>4, ElementOfSeq
<1>6. /\ longer \in FrameRecord /\ longer.rules = frames[m].rules \o Top.rules
      /\ longer.file = frames[m].file /\ longer.dir = frames[m].dir /\ longer.todo = frames[m].todo
    BY <1>2, <1>5, ConcatProperties DEF FrameRecord
<1> HIDE DEF outer, m, longer
<1>7. /\ frames' \in Seq(FrameRecord) /\ Len(frames') = m
      /\ \A i \in 1 .. m : frames'[i] = IF i = m THEN longer ELSE outer[i]
    BY <1>1, <1>3, <1>4, <1>6, ExceptSeq
<1>8. m \in 1 .. m /\ \A k \in 1 .. (m - 1) : k \in 1 .. m /\ k # m
    BY <1>4
<1>9. frames'[m] = longer /\ \A k \in 1 .. (m - 1) : frames'[k] = frames[k]
    BY <1>3, <1>7, <1>8
<1>10. Closes(frames, frames', m)
    BY <1>1, <1>2, <1>4, <1>6, <1>9 DEF Closes
<1> QED BY <1>1, <1>2, <1>4, <1>7, <1>10 DEF m

\* The stack when the main file is opened.
Starts(d, fs) ==
    fs[1].todo = d[fs[1].file].includes /\ fs[1].rules = d[fs[1].file].rules

LEMMA StackStarts ==
    ASSUME NEW d \in Disks, NEW bad, NEW fs \in Seq(FrameRecord), Len(fs) = 1, Starts(d, fs),
           Fine(d[fs[1].file], bad)
    PROVE  StackInv(d, bad, fs)
<1> DEFINE first == fs[1]
           node == NodeOf(first)
<1>1. DOMAIN fs = {1} /\ first \in FrameRecord
    <2>1. DOMAIN fs = 1 .. 1 /\ 1 \in 1 .. 1 /\ 1 .. 1 = {1}
        BY LenProperties
    <2> QED BY <2>1, ElementOfSeq
<1>2. /\ node \in Nodes /\ d[first.file].rules \in Seq(SourceRule)
      /\ Len(d[first.file].includes) \in Nat
    BY <1>1, FrameFacts
<1>3. Depth(1) = NumFiles /\ Depth(1) \in 0 .. NumFiles /\ 1 <= NumFiles + 1
    BY NumFilesIsNat DEF Depth
<1>4. first.todo = d[first.file].includes /\ first.rules = d[first.file].rules
    BY DEF Starts
<1> HIDE DEF node
<1>5. Begun(d, first) = 0
    BY <1>2, <1>4 DEF Begun
<1>6. IsRest(d, first)
    <2>1. \A j \in 1 .. Len(d[first.file].includes) : 0 + j = j
        OBVIOUS
    <2> HIDE DEF first
    <2> QED BY <1>2, <1>4, <1>5, <2>1 DEF IsRest
<1>7. HasRead(d, bad, first, Depth(1), 0)
    <2>1. Parts(d, Depth(1), node)[0] = <<>>
        BY <1>2, <1>3, PartsGrow
    <2>2. first.rules = d[first.file].rules \o <<>>
        BY <1>2, <1>4, ConcatEmptySeq
    <2>3. 0 \in 0 .. Len(d[first.file].includes) /\ 1 .. 0 = {}
        BY <1>2
    <2>4. Fine(d[first.file], bad)
        OBVIOUS
    <2> HIDE DEF first
    <2> QED BY <2>1, <2>2, <2>3, <2>4 DEF HasRead, node
<1>8. ~(1 < Len(fs)) /\ (Begun(d, first) - IF 1 < Len(fs) THEN 1 ELSE 0) = 0
    <2> HIDE DEF first
    <2> DEFINE unfinished == IF 1 < Len(fs) THEN 1 ELSE 0
    <2>1. ~(1 < Len(fs))
        OBVIOUS
    <2>2. unfinished = 0
        BY <2>1
    <2> HIDE DEF unfinished
    <2>3. Begun(d, first) - unfinished = 0
        BY <1>5, <2>2
    <2> QED BY <2>1, <2>3 DEF unfinished
<1>9. FrameInv(d, bad, fs, 1)
    BY <1>3, <1>6, <1>7, <1>8 DEF FrameInv
<1>10. node \in Tree(d, {node})
    BY <1>2, TreeIsClosed
<1> QED BY <1>1, <1>3, <1>9, <1>10 DEF StackInv, node

LEMMA MainFacts ==
    ASSUME TypeOK, pc # "idle"
    PROVE  /\ disk \in Disks /\ main.file \in Files /\ MainNode \in Nodes
           /\ MainNode[2] = main.file /\ MainNode \in SourceTree
<1>1. /\ disk \in Disks /\ main.file \in Files /\ main.dir \in Dirs
    BY DEF TypeOK, FixedOK, CallOK
<1>2. MainNode \in Nodes /\ MainNode[2] = main.file
    BY <1>1 DEF MainNode, Nodes
<1> QED BY <1>1, <1>2, TreeIsClosed DEF SourceTree

\* The innermost open file is one of the tree, and so are the rules of those below it of
\* the source.
LEMMA TopIsOfTheTree ==
    ASSUME TypeOK, LoadInv, pc = "include"
    PROVE  /\ NodeOf(Top) \in SourceTree /\ NodeOf(Top) \in Nodes
           /\ \A k \in DOMAIN frames : NodeOf(frames[k]) \in Nodes
           /\ DOMAIN frames = 1 .. Len(frames)
<1>1. /\ frames \in Seq(FrameRecord) /\ Len(frames) \in Nat \ {0} /\ Top = frames[Len(frames)]
    BY TopIsTyped
<1>2. /\ DOMAIN frames = 1 .. Len(frames) /\ 1 \in 1 .. Len(frames) /\ Len(frames) \in 1 .. Len(frames)
      /\ 1 <= Len(frames)
    BY <1>1, LenProperties
<1>3. \A k \in DOMAIN frames : NodeOf(frames[k]) \in Nodes
    <2>1. disk \in Disks
        BY DEF TypeOK, FixedOK
    <2> QED BY <1>1, <1>2, <2>1, FrameFacts, ElementOfSeq
<1>4. NodeOf(frames[Len(frames)]) \in Tree(disk, {NodeOf(frames[1])})
    BY <1>2 DEF LoadInv, StackInv
<1> QED BY <1>1, <1>2, <1>3, <1>4 DEF LoadInv, SourceTree

\* Before the files are read, and after an error, there is nothing to say.
LEMMA NothingLoaded ==
    ASSUME pc' = "source" \/ (pc' = "idle" /\ outcome' # "ok")
    PROVE  LoadInv'
BY DEF LoadInv, Loaded, Validating, Generating

\* The rules that were read stay what they are.
LEMMA StillLoaded ==
    ASSUME LoadInv, Loaded, ~badImport, UNCHANGED <<disk, main, rules>>, badImport' = FALSE,
           pc' \notin {"parse", "include", "imports"}, (pc' = "propagate" \/ Generating') => ~BadVariable
    PROVE  LoadInv'
<1>1. MainNode' = MainNode
    BY DEF MainNode
<1>2. rules = SourceRules /\ Clean(disk, badImport, MainNode)
    BY DEF LoadInv
<1>3. Clean(disk', badImport', MainNode')
    <2>1. Clean(disk, badImport', MainNode)
        BY <1>2, CleanStays
    <2> QED BY <1>1, <2>1
<1>4. rules' = SourceRules'
    BY <1>1, <1>2 DEF SourceRules
<1>5. BadVariable' = BadVariable
    BY DEF BadVariable
<1> QED BY <1>3, <1>4, <1>5 DEF LoadInv

LEMMA OpenedIsLoaded ==
    ASSUME TypeOK, NoFileOpenTwice', LoadInv, OpenInclude
    PROVE  LoadInv'
<1>1. CASE pc' = "idle"
    <2>1. outcome' # "ok"
        BY <1>1 DEF OpenInclude, Return
    <2> QED BY <1>1, <2>1, NothingLoaded
<1>2. CASE pc' # "idle"
    <2> DEFINE n == Len(frames)
               file == NextFile
    <2>1. /\ pc = "include" /\ pc' = "include" /\ disk' = disk /\ main' = main
          /\ frames \in Seq(FrameRecord) /\ n \in Nat \ {0}
          /\ file \in Files
          /\ disk[file].fault # "large" /\ ~ParseFails(disk[file])
          /\ badImport' = (badImport \/ disk[file].fault = "import")
          /\ frames' \in Seq(FrameRecord) /\ Len(frames') = n + 1
          /\ Begins(frames, frames', n)
          /\ Opens(disk, frames, frames', n, file)
        BY <1>2, AnIncludeOpens
    <2>2. n + 1 <= NumFiles + 1
        <3>1. \A i, j \in 2 .. Len(frames') : frames'[i].file = frames'[j].file => i = j
            BY DEF NoFileOpenTwice
        <3> QED BY <2>1, <3>1, FewFrames
    <2>3. disk \in Disks /\ NodeOf(frames[1]) = MainNode /\ StackInv(disk, badImport, frames)
        BY <2>1 DEF TypeOK, FixedOK, LoadInv
    <2> HIDE DEF n, file
    <2>4. Fine(disk[file], badImport') /\ (badImport => badImport')
        BY <2>1 DEF Fine, ParseFails
    <2>5. StackInv(disk, badImport', frames')
        <3>1. Len(frames) = n
            BY DEF n
        <3> QED BY <2>1, <2>2, <2>3, <2>4, <3>1, StackOpens
    <2>6. MainNode' = MainNode /\ NodeOf(frames'[1]) = MainNode
        <3>1. n = 1 \/ 1 \in 1 .. (n - 1)
            BY <2>1
        <3> QED BY <2>1, <2>3, <3>1 DEF MainNode, Begins, NodeOf
    <2>7. badImport' => \E node \in SourceTree : disk[node[2]].fault = "import"
        <3>1. CASE badImport
            BY <2>1, <3>1 DEF LoadInv
        <3>2. CASE disk[file].fault = "import"
            <4>1. NodeOf(frames'[n + 1]) = Node(file) /\ Node(file)[2] = file
                BY <2>1 DEF Opens, NodeOf, Node
            <4>2. DOMAIN frames' = 1 .. (n + 1)
                BY <2>1, LenProperties
            <4>3. 1 \in 1 .. (n + 1) /\ n + 1 \in 1 .. (n + 1) /\ 1 <= n + 1
                BY <2>1
            <4>4. NodeOf(frames'[n + 1]) \in Tree(disk, {NodeOf(frames'[1])})
                BY <2>5, <4>2, <4>3 DEF StackInv
            <4>5. Node(file) \in SourceTree
                BY <2>6, <4>1, <4>4 DEF SourceTree
            <4> QED BY <3>2, <4>1, <4>5
        <3> QED BY <2>1, <3>1, <3>2
    <2>8. SourceTree' = SourceTree
        BY <2>1, <2>6 DEF SourceTree
    <2> QED BY <2>1, <2>5, <2>6, <2>7, <2>8 DEF LoadInv, Loaded, Validating, Generating
<1> QED BY <1>1, <1>2

LEMMA ClosedIsLoaded ==
    ASSUME TypeOK, LoadInv, CloseInclude
    PROVE  LoadInv'
<1> DEFINE m == Len(frames) - 1
<1>1. /\ pc = "include" /\ pc' = "include" /\ disk' = disk /\ main' = main
      /\ badImport' = badImport
      /\ frames \in Seq(FrameRecord) /\ m \in Nat \ {0} /\ Len(frames) \in Nat
      /\ frames' \in Seq(FrameRecord) /\ Len(frames') = m
      /\ Closes(frames, frames', m)
    BY AnIncludeCloses, LenProperties
<1>2. disk \in Disks /\ NodeOf(frames[1]) = MainNode /\ StackInv(disk, badImport, frames)
    BY <1>1 DEF TypeOK, FixedOK, LoadInv
<1>3. Len(frames) = m + 1
    BY <1>1
<1> HIDE DEF m
<1>4. StackInv(disk, badImport, frames')
    BY <1>1, <1>2, <1>3, StackCloses
<1>5. MainNode' = MainNode /\ NodeOf(frames'[1]) = MainNode
    <2>1. m = 1 \/ 1 \in 1 .. (m - 1)
        BY <1>1
    <2> QED BY <1>1, <1>2, <2>1 DEF MainNode, Closes, NodeOf
<1>6. SourceTree' = SourceTree
    BY <1>1, <1>5 DEF SourceTree
<1>7. badImport => \E node \in SourceTree : disk[node[2]].fault = "import"
    BY <1>1 DEF LoadInv
<1>8. StackInv(disk', badImport', frames')
    BY <1>1, <1>4
<1> QED BY <1>1, <1>5, <1>6, <1>7, <1>8 DEF LoadInv, Loaded, Validating, Generating

\* Every rule of the tree, in order, when the last include statement is finished.
LEMMA AssembledIsLoaded ==
    ASSUME TypeOK, LoadInv, Assembled
    PROVE  LoadInv'
<1>1. /\ pc = "include" /\ pc' = "imports" /\ disk' = disk /\ main' = main
      /\ Top.todo = <<>> /\ Len(frames) = 1 /\ rules' = Top.rules /\ badImport' = badImport
    BY DEF Assembled, Goto, fixed, call, loading
<1>2. frames \in Seq(FrameRecord) /\ Top = frames[Len(frames)] /\ Len(frames) \in Nat \ {0}
    BY <1>1, TopIsTyped
<1>3. disk \in Disks /\ NodeOf(frames[1]) = MainNode /\ StackInv(disk, badImport, frames)
    BY <1>1 DEF TypeOK, FixedOK, LoadInv
<1>4. frames[Len(frames)].todo = <<>>
    BY <1>1, <1>2
<1>5. /\ Clean(disk, badImport, NodeOf(frames[Len(frames)]))
      /\ frames[Len(frames)].rules = Listings(disk)[Depth(Len(frames))][NodeOf(frames[Len(frames)])]
    BY <1>2, <1>3, <1>4, TopIsDone
<1>6. Depth(1) = NumFiles
    BY NumFilesIsNat DEF Depth
<1>7. Clean(disk, badImport, MainNode) /\ Top.rules = Listings(disk)[NumFiles][MainNode]
    BY <1>1, <1>2, <1>3, <1>5, <1>6
<1>8. MainNode' = MainNode
    BY <1>1 DEF MainNode
<1>9. Clean(disk', badImport', MainNode') /\ rules' = SourceRules'
    BY <1>1, <1>7, <1>8 DEF SourceRules, NumFiles
<1>10. badImport' => \E node \in SourceTree' : disk'[node[2]].fault = "import"
    BY <1>1, <1>8 DEF LoadInv, SourceTree
<1> QED BY <1>1, <1>9, <1>10 DEF LoadInv, Loaded, Validating, Generating

\* What was read of the files is as they are.
LEMMA LoadStep ==
    ASSUME TypeOK, TypeOK', NoFileOpenTwice', LoadInv, [Next]_vars
    PROVE  LoadInv'
<1> USE DEF Goto, Return, Forget
<1>1. CASE \/ \E file \in Files : CompileSource(file)
           \/ \E name \in Paths : CompileFile(name)
           \/ Cancel
    <2>1. pc' = "source" \/ (pc' = "idle" /\ outcome' # "ok")
        BY <1>1 DEF CompileSource, CompileFile, Cancel
    <2> QED BY <2>1, NothingLoaded
<1>2. CASE ResetStats
    <2>1. CASE disk[main.file].fault = "large"
        BY <1>2, <2>1, NothingLoaded DEF ResetStats
    <2>2. CASE disk[main.file].fault # "large"
        <3>1. pc' = "parse" /\ disk' = disk /\ main' = main
            BY <1>2, <2>2 DEF ResetStats, fixed, call
        <3> QED BY <2>2, <3>1 DEF LoadInv, Loaded, Validating, Generating
    <2> QED BY <2>1, <2>2
<1>3. CASE ParseMain
    <2> DEFINE content == disk[main.file]
    <2>1. CASE ParseFails(content)
        BY <1>3, <2>1, NothingLoaded DEF ParseMain
    <2>2. CASE ~ParseFails(content)
        <3>1. /\ pc = "parse" /\ pc' = "include" /\ disk' = disk /\ main' = main
              /\ frames' = <<Frame(main.dir, main.file)>>
              /\ badImport' = (content.fault = "import")
            BY <1>3, <2>2 DEF ParseMain, fixed, call
        <3>2. disk \in Disks /\ main.file \in Files /\ MainNode \in SourceTree /\ MainNode[2] = main.file
            BY <3>1, MainFacts
        <3>3. Len(frames') = 1 /\ Starts(disk, frames') /\ frames'[1].file = main.file
              /\ NodeOf(frames'[1]) = MainNode
            BY <3>1 DEF Frame, Starts, NodeOf, MainNode
        <3>4. frames' \in Seq(FrameRecord)
            BY DEF TypeOK, LoadingOK, FrameRecord
        <3>5. Fine(disk[frames'[1].file], badImport')
            BY <2>2, <3>1, <3>3 DEF LoadInv, Fine, ParseFails
        <3>6. StackInv(disk, badImport', frames')
            BY <3>2, <3>3, <3>4, <3>5, StackStarts
        <3>7. MainNode' = MainNode /\ SourceTree' = SourceTree
            BY <3>1 DEF MainNode, SourceTree
        <3>8. StackInv(disk', badImport', frames')
            BY <3>1, <3>6
        <3> QED BY <3>1, <3>2, <3>3, <3>7, <3>8 DEF LoadInv, Loaded, Validating, Generating
    <2> QED BY <2>1, <2>2
<1>4. CASE OpenInclude
    BY <1>4, OpenedIsLoaded
<1>5. CASE CloseInclude
    BY <1>5, ClosedIsLoaded
<1>6. CASE Assembled
    BY <1>6, AssembledIsLoaded
<1>7. CASE ProcessImports
    <2>1. CASE badImport
        BY <1>7, <2>1, NothingLoaded DEF ProcessImports
    <2>2. CASE ~badImport
        <3>1. /\ pc = "imports" /\ pc' = "semantics" /\ UNCHANGED <<disk, main, rules>>
              /\ badImport' = badImport
            BY <1>7, <2>2 DEF ProcessImports, fixed, call, program, loading
        <3> QED BY <2>2, <3>1, StillLoaded DEF TypeOK, LoadingOK, Loaded, Validating, Generating
    <2> QED BY <2>1, <2>2
<1>8. CASE Semantics \/ CollectSymbols \/ Visit \/ Follow \/ Leave \/ ValidateRules
    <2>1. /\ pc \in {"semantics", "validate", "cycles"} /\ pc' \in {"validate", "cycles", "judge"}
          /\ UNCHANGED <<disk, main, rules>> /\ badImport' = badImport
        BY <1>8 DEF Semantics, CollectSymbols, Visit, Follow, Leave, ValidateRules, fixed, call,
                    program, loading
    <2>2. ~badImport /\ Loaded /\ badImport' = FALSE
        BY <2>1 DEF LoadInv, Loaded, Validating, TypeOK, LoadingOK
    <2> QED BY <2>1, <2>2, StillLoaded DEF Generating
<1>9. CASE Judge
    <2>1. pc = "judge" /\ ~badImport /\ Loaded
        BY <1>9 DEF Judge, LoadInv, Loaded, Validating
    <2>2. CASE pc' = "idle"
        BY <1>9, <2>2, NothingLoaded DEF Judge
    <2>3. CASE pc' # "idle"
        <3>1. /\ pc' \in {"codegen", "propagate"} /\ ~BadVariable
              /\ UNCHANGED <<disk, main, rules>> /\ badImport' = badImport
            BY <1>9, <2>3 DEF Judge, fixed, call, program, loading
        <3>2. badImport' = FALSE
            BY <2>1, <3>1 DEF TypeOK, LoadingOK
        <3> QED BY <2>1, <3>1, <3>2, StillLoaded
    <2> QED BY <2>2, <2>3
<1>10. CASE Propagate \/ NextPass \/ Filter \/ CodeGen \/ Generate \/ Finish
    <2>1. /\ pc \in {"propagate", "codegen", "generate", "finish"}
          /\ UNCHANGED <<disk, main, rules>>
        BY <1>10 DEF Propagate, NextPass, Filter, CodeGen, Generate, Finish, fixed, call, program
    <2>2. ~badImport /\ Loaded /\ ~BadVariable
        BY <2>1 DEF LoadInv, Loaded, Validating, Generating
    <2>3. badImport' = badImport \/ badImport' = FALSE
        BY <1>10 DEF Propagate, NextPass, Filter, CodeGen, Generate, Finish, loading
    <2>4. pc' \notin {"parse", "include", "imports"}
        BY <1>10 DEF Propagate, NextPass, Filter, CodeGen, Generate, Finish, TypeOK, SpreadingOK
    <2> QED BY <2>1, <2>2, <2>3, <2>4, StillLoaded DEF TypeOK, LoadingOK
<1>11. CASE UNCHANGED vars
    <2>1. UNCHANGED <<disk, main, rules, badImport, frames, pc, outcome>>
        BY <1>11 DEF vars, fixed, call, loading, program
    <2>2. MainNode' = MainNode /\ SourceTree' = SourceTree /\ SourceRules' = SourceRules
        BY <2>1 DEF MainNode, SourceTree, SourceRules
    <2> QED BY <2>1, <2>2 DEF LoadInv, Loaded, Validating, Generating, BadVariable
<1> QED BY <1>1, <1>2, <1>3, <1>4, <1>5, <1>6, <1>7, <1>8, <1>9, <1>10, <1>11 DEF Next, Step

\* A reference that is followed leads to a rule that is there.
LEMMA FollowedIsNamed ==
    ASSUME TypeOK, NamedInv, Follow
    PROVE  NamedInv'
<1> DEFINE last == Len(path)
           rest(dep) == [path EXCEPT ![Len(path)].left = @ \ {dep}]
<1>1. /\ pc = "cycles" /\ pc' = "cycles" /\ path # <<>> /\ UNCHANGED program
    BY DEF Follow, program
<1>2. PICK dep \in path[last].left :
        /\ IF colour[dep] = 0 THEN Enter(dep, rest(dep))
           ELSE path' = rest(dep) /\ UNCHANGED colour
        /\ errors' = IF colour[dep] = 1 THEN errors \cup {path[last].name} ELSE errors
    BY DEF Follow
<1> DEFINE shorter == rest(dep)
<1>3. /\ shorter \in Seq([name : Names, left : SUBSET Names])
      /\ DOMAIN shorter = DOMAIN path /\ last \in DOMAIN path
      /\ \A k \in DOMAIN path : shorter[k].name = path[k].name
      /\ \A k \in DOMAIN path : shorter[k].left \subseteq path[k].left
    <2>1. shorter = [path EXCEPT ![Len(path)].left = @ \ {dep}]
        OBVIOUS
    <2> HIDE DEF rest, shorter
    <2>2. /\ shorter \in Seq([name : Names, left : SUBSET Names])
          /\ DOMAIN shorter = DOMAIN path /\ last \in DOMAIN path
          /\ \A k \in DOMAIN path : shorter[k].name = path[k].name
          /\ \A k \in DOMAIN path \ {last} : shorter[k].left = path[k].left
          /\ shorter[last].left = path[last].left \ {dep}
        BY <1>1, <2>1, FollowedPath
    <2> HIDE DEF last
    <2>3. \A k \in DOMAIN path : shorter[k].left \subseteq path[k].left
        BY <2>2
    <2> QED BY <2>2, <2>3
<1>4. /\ errors \subseteq KeptNames
      /\ \A k \in DOMAIN path : path[k].name \in KeptNames /\ path[k].left \subseteq KeptNames
    BY <1>1 DEF NamedInv
<1>5. dep \in Names /\ dep \in KeptNames
    BY <1>1, <1>3, <1>4, LastOfPath
<1>6. Dependencies(dep) \subseteq KeptNames
    BY DEF Dependencies
<1>7. KeptNames' = KeptNames
    BY <1>1, SameDependencies
<1>8. errors' \subseteq KeptNames
    BY <1>2, <1>3, <1>4
<1>9. ASSUME NEW k \in DOMAIN path'
      PROVE  path'[k].name \in KeptNames /\ path'[k].left \subseteq KeptNames
    <2>1. CASE colour[dep] # 0
        <3>1. path' = shorter
            BY <1>2, <2>1
        <3> HIDE DEF rest, shorter, last
        <3> QED BY <1>3, <1>4, <1>9, <3>1
    <2>2. CASE colour[dep] = 0
        <3>1. Enter(dep, shorter)
            BY <1>2, <2>2
        <3> HIDE DEF rest, shorter, last
        <3>2. /\ DOMAIN path' = DOMAIN shorter \cup {Len(shorter) + 1}
              /\ \A l \in DOMAIN shorter : path'[l] = shorter[l]
              /\ path'[Len(shorter) + 1].name = dep
              /\ path'[Len(shorter) + 1].left = Dependencies(dep)
            BY <1>3, <1>5, <3>1, LongerPath
        <3> QED BY <1>3, <1>4, <1>5, <1>6, <1>9, <3>2
    <2> QED BY <2>1, <2>2
<1> QED BY <1>1, <1>7, <1>8, <1>9 DEF NamedInv

LEMMA NamedStep ==
    ASSUME TypeOK, NamedInv, [Next]_vars
    PROVE  NamedInv'
<1> USE DEF Goto, Return
<1>1. CASE \/ \E file \in Files : CompileSource(file)
           \/ \E name \in Paths : CompileFile(name)
           \/ ResetStats \/ ParseMain \/ OpenInclude \/ CloseInclude \/ Assembled
           \/ ProcessImports \/ Semantics \/ Judge \/ Propagate \/ NextPass \/ Filter
           \/ CodeGen \/ Generate \/ Finish \/ Cancel
    <2>1. pc' \notin {"cycles", "judge"}
        BY <1>1 DEF CompileSource, CompileFile, ResetStats, ParseMain, OpenInclude, CloseInclude,
                    Assembled, ProcessImports, Semantics, Judge, Propagate, NextPass, Filter,
                    CodeGen, Generate, Finish, Cancel, TypeOK, SpreadingOK
    <2> QED BY <2>1 DEF NamedInv
<1>2. CASE CollectSymbols
    <2>1. /\ pc' = "cycles" /\ UNCHANGED program /\ path' = <<>> /\ errors' \subseteq KeptNames
        BY <1>2 DEF CollectSymbols, program, KeptNames
    <2>2. DOMAIN path' = {} /\ KeptNames' = KeptNames
        BY <2>1, SameDependencies
    <2> QED BY <2>1, <2>2 DEF NamedInv
<1>3. CASE Visit
    <2>1. /\ pc = "cycles" /\ pc' = "cycles" /\ path = <<>> /\ UNCHANGED program /\ errors' = errors
          /\ \E i \in First(Unvisited) : Enter(rules[i].name, path)
        BY <1>3 DEF Visit, program
    <2>2. PICK i \in First(Unvisited) : Enter(rules[i].name, path)
        BY <2>1
    <2> DEFINE name == rules[i].name
    <2>3. name \in Names /\ name \in KeptNames
        BY <2>2, KeptIsTyped DEF First, Unvisited, TypeOK, KeptNames
    <2>4. path \in Seq([name : Names, left : SUBSET Names]) /\ DOMAIN path = {}
        BY <2>1 DEF TypeOK, CheckingOK
    <2>5. /\ DOMAIN path' = {Len(path) + 1} /\ path'[Len(path) + 1].name = name
          /\ path'[Len(path) + 1].left = Dependencies(name)
        <3> HIDE DEF name
        <3>1. Enter(name, path)
            BY <2>2 DEF name
        <3>2. /\ DOMAIN path' = DOMAIN path \cup {Len(path) + 1}
              /\ path'[Len(path) + 1].name = name /\ path'[Len(path) + 1].left = Dependencies(name)
            BY <2>3, <2>4, <3>1, LongerPath
        <3> QED BY <2>4, <3>2
    <2> HIDE DEF name
    <2>6. Dependencies(name) \subseteq KeptNames /\ KeptNames' = KeptNames
        BY <2>1, SameDependencies DEF Dependencies
    <2> QED BY <2>1, <2>3, <2>5, <2>6 DEF NamedInv
<1>4. CASE Follow
    BY <1>4, FollowedIsNamed
<1>5. CASE Leave
    <2>1. /\ pc = "cycles" /\ pc' = "cycles" /\ path # <<>> /\ UNCHANGED program /\ errors' = errors
          /\ path' = SubSeq(path, 1, Len(path) - 1)
        BY <1>5 DEF Leave, program
    <2>2. \A k \in DOMAIN path' : k \in DOMAIN path /\ path'[k] = path[k]
        BY <2>1, ShorterPath
    <2>3. KeptNames' = KeptNames
        BY <2>1, SameDependencies
    <2> QED BY <2>1, <2>2, <2>3 DEF NamedInv
<1>6. CASE ValidateRules
    <2>1. /\ pc = "cycles" /\ pc' = "judge" /\ UNCHANGED program
          /\ errors' \subseteq errors \cup KeptNames
        BY <1>6 DEF ValidateRules, program, KeptNames
    <2>2. KeptNames' = KeptNames
        BY <2>1, SameDependencies
    <2> QED BY <2>1, <2>2 DEF NamedInv
<1>7. CASE UNCHANGED vars
    <2>1. UNCHANGED <<pc, errors, path, program>>
        BY <1>7 DEF vars, checking
    <2>2. KeptNames' = KeptNames
        BY <2>1, SameDependencies
    <2> QED BY <2>1, <2>2 DEF NamedInv
<1> QED BY <1>1, <1>2, <1>3, <1>4, <1>5, <1>6, <1>7 DEF Next, Step

\* The include statement that an open file comes to next.
LEMMA NextStatement ==
    ASSUME NEW d \in Disks, NEW frame \in FrameRecord, IsRest(d, frame), frame.todo # <<>>
    PROVE  \E i \in DOMAIN d[frame.file].includes :
              Target(d, NodeOf(frame), i) = Resolve[frame.dir][Head(frame.todo)]
<1> DEFINE all == Len(d[frame.file].includes)
           left == Len(frame.todo)
           b == Begun(d, frame)
<1>1. /\ frame.todo \in Seq(Paths) /\ all \in Nat
      /\ DOMAIN d[frame.file].includes = 1 .. all
      /\ NodeOf(frame)[1] = frame.dir /\ NodeOf(frame)[2] = frame.file
    BY FrameFacts DEF FrameRecord
<1>2. Head(frame.todo) = frame.todo[1] /\ left \in Nat \ {0}
    BY <1>1, HeadTailProperties, EmptySeq, LenProperties
<1>3. b = all - left /\ b \in Nat
    BY DEF Begun, IsRest
<1>4. \A j \in 1 .. left : frame.todo[j] = d[frame.file].includes[b + j]
    BY DEF IsRest
<1> HIDE DEF all, left, b
<1>5. b + 1 \in 1 .. all /\ 1 \in 1 .. left
    BY <1>1, <1>2, <1>3
<1>6. Target(d, NodeOf(frame), b + 1) = Resolve[frame.dir][Head(frame.todo)]
    BY <1>1, <1>2, <1>4, <1>5 DEF Target
<1> QED BY <1>1, <1>5, <1>6

\* A strict compiler refuses a file for a rule that did not parse.
LEMMA InvalidRuleIsUnsound ==
    ASSUME TypeOK, MainNode \in Nodes, NEW file \in Files, InvalidRules(disk[file]) # {},
           Range(disk[file].rules) \subseteq Range(SourceRules)
    PROVE  UnsoundSource
<1>1. PICK i : i \in InvalidRules(disk[file])
    OBVIOUS
<1> DEFINE rule == disk[file].rules[i]
<1>2. rule \in Range(SourceRules) /\ Unparsed(rule)
    BY <1>1 DEF InvalidRules, Range
<1> HIDE DEF rule
<1> QED BY <1>2, UnsoundIsUnsound

\* A statement of the innermost file that cannot be followed, or should not.
LEMMA RefusedIsFault ==
    ASSUME TypeOK, NoFileOpenTwice, LoadInv, OpenInclude, pc' = "idle"
    PROVE  AtFault
<1> DEFINE n == Len(frames)
           file == NextFile
           node == NodeOf(Top)
<1>1. /\ pc = "include" /\ Top.todo # <<>>
      /\ \/ file = NoFile
         \/ /\ file # NoFile
            /\ \/ <<Top.dir, DirOf[file]>> \notin Below
               \/ file \in ActivePaths
               \/ disk[file].fault = "large"
               \/ ParseFails(disk[file])
    BY DEF OpenInclude, NextFile
<1>2. /\ frames \in Seq(FrameRecord) /\ n \in Nat \ {0} /\ Top = frames[n] /\ Top \in FrameRecord
    BY <1>1, TopIsTyped
<1>3. /\ node \in SourceTree /\ node \in Nodes /\ DOMAIN frames = 1 .. n
      /\ \A k \in DOMAIN frames : NodeOf(frames[k]) \in Nodes
    BY <1>1, TopIsOfTheTree
<1>4. /\ disk \in Disks /\ MainNode \in Nodes
      /\ StackInv(disk, badImport, frames) /\ NodeOf(frames[1]) = MainNode
    BY <1>1, MainFacts DEF LoadInv
<1>5. FrameInv(disk, badImport, frames, n) /\ IsRest(disk, Top)
    BY <1>2, <1>3, <1>4 DEF StackInv, FrameInv
<1>6. PICK i \in DOMAIN disk[Top.file].includes : Target(disk, node, i) = file
    BY <1>1, <1>2, <1>4, <1>5, NextStatement DEF NextFile
<1>7. node[1] = Top.dir /\ node[2] = Top.file
    BY <1>2, <1>4, FrameFacts
<1> HIDE DEF n, file, node
<1>8. CASE file = NoFile \/ <<Top.dir, DirOf[file]>> \notin Below
    BY <1>3, <1>6, <1>7, <1>8 DEF AtFault, ProgramFault, MissingInclude
<1>9. ASSUME file # NoFile PROVE file \in Files /\ Node(file) \in Included(disk, node)
    <2>1. file \in Files
        <3>1. Top.dir \in Dirs /\ Head(Top.todo) \in Paths
            BY <1>1, <1>2, HeadTailProperties DEF FrameRecord
        <3> QED BY <1>9, <3>1, AssemblyAssumption DEF file, NextFile
    <2> QED BY <1>6, <1>7, <1>9, <2>1 DEF Included
<1>10. ASSUME file # NoFile PROVE Node(file) \in SourceTree /\ Node(file)[2] = file
    BY <1>3, <1>4, <1>9, <1>10, TreeIsClosed DEF SourceTree, Node
<1>11. CASE file # NoFile /\ file \in ActivePaths
    <2>1. PICK j \in 2 .. n : frames[j].file = file
        BY <1>11 DEF ActivePaths, n
    <2>2. j - 1 \in 1 .. n /\ j \in 1 .. n /\ j <= n /\ j - 1 < n /\ (j - 1) + 1 = j
        BY <1>2, <2>1
    <2>3. LeadsTo(disk, frames[j - 1], frames[j])
        BY <1>3, <1>4, <2>2 DEF StackInv, FrameInv, n
    <2>4. PICK other : NodeOf(frames[j]) = Node(other)
        BY <2>3 DEF LeadsTo
    <2>5. NodeOf(frames[j]) = Node(file)
        BY <2>1, <2>4 DEF NodeOf, Node
    <2>6. node \in Tree(disk, {NodeOf(frames[j])})
        <3>1. n \in 1 .. n
            BY <1>2
        <3> QED BY <1>2, <1>3, <1>4, <2>2, <3>1 DEF StackInv, node
    <2> QED BY <1>3, <1>9, <1>11, <2>5, <2>6 DEF AtFault, ProgramFault, CircularInclude
<1>12. CASE file # NoFile /\ (disk[file].fault = "large" \/ ProgramError(disk[file]))
    BY <1>10, <1>12 DEF AtFault, ProgramFault
<1>13. CASE file # NoFile /\ file \notin ActivePaths /\ ~resilient /\ InvalidRules(disk[file]) # {}
    <2>1. n + 1 <= NumFiles + 1
        <3> DEFINE new == Frame(DirOf[file], file)
                   longer == Append(frames, new)
        <3>1. new \in FrameRecord /\ new.file = file
            BY <1>9, <1>13, FrameIsTyped, AssemblyAssumption
        <3> HIDE DEF new
        <3>2. /\ longer \in Seq(FrameRecord) /\ Len(longer) = n + 1
              /\ \A k \in 1 .. n : longer[k] = frames[k]
              /\ longer[n + 1] = new
            BY <1>2, <3>1, AppendProperties DEF n
        <3> HIDE DEF longer
        <3>3. \A k \in 2 .. n : frames[k].file # file
            BY <1>13 DEF ActivePaths, n
        <3>4. \A k, l \in 2 .. n : frames[k].file = frames[l].file => k = l
            BY DEF NoFileOpenTwice, n
        <3>5. \A k \in 2 .. (n + 1) : k = n + 1 \/ (k \in 2 .. n /\ k \in 1 .. n)
            BY <1>2
        <3>6. \A k, l \in 2 .. Len(longer) : longer[k].file = longer[l].file => k = l
            BY <3>1, <3>2, <3>3, <3>4, <3>5
        <3> QED BY <3>2, <3>6, FewFrames
    <2>2. Depth(n) \in 0 .. NumFiles /\ Depth(n) # 0 /\ Depth(n) - 1 \in 0 .. NumFiles
        BY <1>2, <2>1, NumFilesIsNat DEF Depth
    <2>3. Range(Listings(disk)[Depth(n)][node]) \subseteq Range(SourceRules)
        BY <1>2, <1>4, <1>5 DEF FrameInv, SourceRules, NumFiles, node
    <2>4. Range(Listings(disk)[Depth(n) - 1][Node(file)]) \subseteq Range(Listings(disk)[Depth(n)][node])
        BY <1>3, <1>4, <1>6, <1>7, <1>13, <2>2, ListsHoldTheirParts
    <2>5. Range(disk[file].rules) \subseteq Range(Listings(disk)[Depth(n) - 1][Node(file)])
        <3>1. Node(file) \in Nodes
            BY <1>9, <1>13, AssemblyAssumption DEF Node, Nodes
        <3>2. Node(file)[2] = file
            BY <1>10, <1>13
        <3> QED BY <1>4, <2>2, <3>1, <3>2, ListsHoldTheirParts
    <2>6. Range(disk[file].rules) \subseteq Range(SourceRules)
        BY <2>3, <2>4, <2>5
    <2>7. UnsoundSource
        BY <1>4, <1>9, <1>13, <2>6, InvalidRuleIsUnsound
    <2> QED BY <1>13, <2>7 DEF AtFault
<1> QED BY <1>1, <1>8, <1>11, <1>12, <1>13 DEF ParseFails

LEMMA MainIsFault ==
    ASSUME TypeOK, pc # "idle", disk[main.file].fault = "large" \/ ParseFails(disk[main.file])
    PROVE  AtFault
<1>1. /\ disk \in Disks /\ main.file \in Files /\ MainNode \in Nodes
      /\ MainNode[2] = main.file /\ MainNode \in SourceTree
    BY MainFacts
<1>2. CASE disk[main.file].fault = "large" \/ ProgramError(disk[main.file])
    BY <1>1, <1>2 DEF AtFault, ProgramFault
<1>3. CASE ~resilient /\ InvalidRules(disk[main.file]) # {}
    <2>1. NumFiles \in 0 .. NumFiles
        BY NumFilesIsNat
    <2>2. Range(disk[main.file].rules) \subseteq Range(SourceRules)
        BY <1>1, <2>1, ListsHoldTheirParts DEF SourceRules, NumFiles
    <2>3. UnsoundSource
        BY <1>1, <1>3, <2>2, InvalidRuleIsUnsound
    <2> QED BY <1>3, <2>3 DEF AtFault
<1> QED BY <1>2, <1>3 DEF ParseFails

\* A strict compiler refuses the rules for one that it found to be unsound.
LEMMA FoundIsFault ==
    ASSUME TypeOK, LoadInv, Loaded, pc # "idle", ~resilient, NEW i \in kept,
           rules[i].name \notin Sound(rules)
    PROVE  AtFault
<1>1. rules = SourceRules /\ MainNode \in Nodes
    BY MainFacts DEF LoadInv
<1>2. rules[i] \in Range(SourceRules)
    BY <1>1 DEF TypeOK, ProgramOK, Range
<1> DEFINE rule == rules[i]
<1>3. rule \in Range(SourceRules) /\ rule.name \notin Sound(SourceRules)
    BY <1>1, <1>2
<1> HIDE DEF rule
<1>4. UnsoundSource
    BY <1>1, <1>3, UnsoundIsUnsound
<1> QED BY <1>4 DEF AtFault

LEMMA JudgedIsFault ==
    ASSUME TypeOK, LoadInv, NamedInv, ~resilient => PathInv, Judge, pc' = "idle"
    PROVE  AtFault
<1>1. pc = "judge" /\ (BadVariable \/ (~resilient /\ errors # {}))
    BY DEF Judge, Goto
<1>2. CASE BadVariable
    BY <1>2 DEF AtFault, ProgramFault, BadVariable
<1>3. CASE ~resilient /\ errors # {}
    <2>1. PICK e : e \in errors
        BY <1>3
    <2>2. e \in KeptNames /\ e \notin Sound(rules)
        BY <1>1, <1>3, <2>1 DEF NamedInv, PathInv
    <2>3. PICK i \in kept : rules[i].name = e
        BY <2>2 DEF KeptNames
    <2> QED BY <1>1, <1>3, <2>2, <2>3, FoundIsFault DEF Loaded, Validating
<1> QED BY <1>1, <1>2, <1>3

LEMMA UngeneratedIsFault ==
    ASSUME TypeOK, LoadInv, ~resilient => IgnoredInv, Generate, pc' = "idle"
    PROVE  AtFault
<1>1. pc = "generate" /\ Unable # {} /\ ~resilient /\ Loaded
    BY DEF Generate, Goto, Loaded, Generating
<1>2. PICK i \in kept : rules[i].state = "unable"
    BY <1>1 DEF Unable
<1>3. rules[i].name \notin Sound(rules)
    BY <1>1, <1>2, UnsoundRules
<1> QED BY <1>1, <1>3, FoundIsFault

\* A call fails for a fault of its files.
LEMMA FaultStep ==
    ASSUME TypeOK, NoFileOpenTwice, LoadInv, NamedInv, FaultInv,
           ~resilient => PathInv /\ IgnoredInv, [Next]_vars
    PROVE  FaultInv'
<1> USE DEF Goto, Return
<1>1. CASE \E file \in Files : CompileSource(file)
    BY <1>1 DEF CompileSource, FaultInv
<1>2. CASE \E name \in Paths : CompileFile(name)
    <2>1. pc' = "source" \/ main'.file = NoFile
        BY <1>2 DEF CompileFile
    <2> QED BY <2>1 DEF FaultInv
<1>3. ASSUME AtFault, UNCHANGED <<disk, resilient, main>> PROVE FaultInv'
    <2>1. MainNode' = MainNode
        BY <1>3 DEF MainNode
    <2>2. SourceTree' = SourceTree /\ SourceRules' = SourceRules
        BY <1>3, <2>1 DEF SourceTree, SourceRules
    <2>3. MissingInclude' = MissingInclude /\ CircularInclude' = CircularInclude
        BY <1>3, <2>2 DEF MissingInclude, CircularInclude
    <2>4. ProgramFault' = ProgramFault /\ UnsoundSource' = UnsoundSource
        BY <1>3, <2>2, <2>3 DEF ProgramFault, UnsoundSource
    <2> QED BY <1>3, <2>4 DEF FaultInv, AtFault
<1>4. CASE ResetStats \/ ParseMain
    <2>1. pc' = "idle" => AtFault
        BY <1>4, MainIsFault DEF ResetStats, ParseMain
    <2>2. UNCHANGED <<disk, resilient, main>>
        BY <1>4 DEF ResetStats, ParseMain, fixed, call
    <2> QED BY <1>3, <2>1, <2>2 DEF FaultInv
<1>5. CASE OpenInclude
    <2>1. UNCHANGED <<disk, resilient, main>>
        BY <1>5 DEF OpenInclude, fixed, call
    <2> QED BY <1>3, <1>5, <2>1, RefusedIsFault DEF FaultInv
<1>6. CASE ProcessImports
    <2>1. UNCHANGED <<disk, resilient, main>>
        BY <1>6 DEF ProcessImports, fixed, call
    <2>2. pc' = "idle" => AtFault
        BY <1>6 DEF ProcessImports, LoadInv, AtFault, ProgramFault
    <2> QED BY <1>3, <2>1, <2>2 DEF FaultInv
<1>7. CASE Judge
    <2>1. UNCHANGED <<disk, resilient, main>>
        BY <1>7 DEF Judge, fixed, call
    <2> QED BY <1>3, <1>7, <2>1, JudgedIsFault DEF FaultInv
<1>8. CASE Generate
    <2>1. UNCHANGED <<disk, resilient, main>>
        BY <1>8 DEF Generate, fixed, call
    <2> QED BY <1>3, <1>8, <2>1, UngeneratedIsFault DEF FaultInv
<1>9. CASE CloseInclude \/ Assembled \/ Semantics \/ CollectSymbols \/ Visit \/ Follow \/ Leave
           \/ ValidateRules \/ Propagate \/ NextPass \/ Filter \/ CodeGen
    <2>1. pc' # "idle"
        BY <1>9 DEF CloseInclude, Assembled, Semantics, CollectSymbols, Visit, Follow, Leave,
                    ValidateRules, Propagate, NextPass, Filter, CodeGen, TypeOK, SpreadingOK
    <2> QED BY <2>1 DEF FaultInv
<1>10. CASE Finish \/ Cancel
    <2>1. outcome' # "error"
        BY <1>10 DEF Finish, Cancel
    <2> QED BY <2>1 DEF FaultInv
<1>11. CASE UNCHANGED vars
    <2>1. UNCHANGED <<disk, resilient, main, pc, outcome>>
        BY <1>11 DEF vars, fixed, call
    <2> QED BY <1>3, <2>1 DEF FaultInv
<1> QED BY <1>1, <1>2, <1>4, <1>5, <1>6, <1>7, <1>8, <1>9, <1>10, <1>11 DEF Next, Step

LEMMA AnswerInvMeans ==
    ASSUME TypeOK, AnswerInv, ~resilient => KeepsExactlySound
    PROVE  AnswerIsRight
<1> SUFFICES ASSUME pc = "idle", main.file # NoFile, outcome \in {"ok", "error"}
             PROVE  IF AtFault THEN outcome = "error" ELSE outcome = "ok" /\ rules = SourceRules
    BY DEF AnswerIsRight, AtFault, UnsoundSource
<1>1. CASE outcome = "error"
    BY <1>1 DEF AnswerInv, FaultInv
<1>2. CASE outcome = "ok"
    <2>1. /\ rules = SourceRules /\ Clean(disk, badImport, MainNode) /\ ~badImport /\ ~BadVariable
        BY <1>2 DEF AnswerInv, LoadInv, Loaded, Generating
    <2>2. disk \in Disks /\ MainNode \in Nodes
        BY DEF TypeOK, FixedOK, CallOK, MainNode, Nodes
    <2>3. ~ProgramFault
        <3>1. Clean(disk, FALSE, MainNode)
            BY <2>1 DEF Clean, Fine
        <3> QED BY <2>1, <2>2, <3>1, CleanIsFaultless
    <2>4. ~resilient => ~UnsoundSource
        <3> DEFINE its == SourceRules
        <3>1. rules = its
            BY <2>1
        <3> HIDE DEF its
        <3>2. ~resilient => {rules[i].name : i \in DOMAIN rules} = Sound(rules)
            BY <1>2 DEF KeepsExactlySound
        <3> QED BY <3>1, <3>2 DEF UnsoundSource, its
    <2> QED BY <1>2, <2>1, <2>3, <2>4 DEF AtFault
<1> QED BY <1>1, <1>2

\* AnswerIsRight: a call that read its file and was not cancelled fails exactly when the
\* tree of its include statements has a fault that no compiler can leave out or, for a strict
\* compiler, when a rule of it is not sound; otherwise the rules it works on are those of
\* the whole tree, each file's own before those of the files it includes.
THEOREM CallsAnswerRight == Spec => []AnswerIsRight
<1>1. Init => AnswerInv
    BY DEF Init, Loaded, Validating, Generating, AnswerInv, LoadInv, NamedInv, FaultInv
<1>2. TypeOK /\ TypeOK' /\ NoFileOpenTwice /\ NoFileOpenTwice' /\ AnswerInv
        /\ (FailuresMayBeApart => SoundInv) /\ [Next]_vars => AnswerInv'
    BY LoadStep, NamedStep, FaultStep DEF FailuresMayBeApart, SoundInv, AnswerInv
<1>3. TypeOK /\ AnswerInv /\ ((resilient => FailuresAreApart) => KeepsExactlySound)
        => AnswerIsRight
    BY AnswerInvMeans
<1> QED BY <1>1, <1>2, <1>3, AssemblyTypesHold, IncludesAreNotCircular, SoundInvHolds,
           SoundRulesAreKept, PTL DEF Spec
============================================================================
