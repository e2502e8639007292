--------------------------- MODULE MCRuleAssembly ---------------------------
(***************************************************************************)
(* Three files for TLC: m and a in the directory top, s in top/sub.        *)
(***************************************************************************)
EXTENDS RuleAssembly

CONSTANTS m, a, s, nowhere   \* files
CONSTANTS top, sub           \* directories
CONSTANTS toM, toA, toS      \* paths "m", "a", "s": a link s leads to sub/s, a link sub/a to a
CONSTANTS A, B, C, D, E      \* rule names

MCDirOf == [file \in {m, a, s} |-> IF file = s THEN sub ELSE top]
MCResolve ==
    [dir \in {top, sub} |->
        [to \in {toM, toA, toS} |->
            CASE to = toM -> IF dir = top THEN m ELSE nowhere
              [] to = toA -> a
              [] to = toS -> s]]
MCBelow == {<<top, top>>, <<sub, sub>>, <<top, sub>>}

Good(n, refs) ==
    [name |-> n, refs |-> refs, notRefs |-> {}, global |-> FALSE, privateFirst |-> FALSE,
     state |-> "valid"]
Bad(n, refs, state) == [Good(n, refs) EXCEPT !.state = state]
Not(rule, names) == [rule EXCEPT !.notRefs = names]
Global(rule) == [rule EXCEPT !.global = TRUE]
Holding(its, includes, fault) == [rules |-> its, includes |-> includes, fault |-> fault]

\* Chains, cycles, duplicates, undefined names, and global rules that fail in each phase.
MainRules ==
    {<<Good(A, {}), Not(Good(B, {A}), {C})>>,
     <<Good(A, {B, C}), Good(B, {A}), Good(D, {B})>>,
     <<Bad(A, {}, "unparsed"), Not(Good(B, {}), {A}), Good(D, {B})>>,
     <<Bad(A, {C}, "unable"), Good(B, {A}), Bad(D, {}, "wrong")>>,
     <<Good(B, {A}), Good(A, {D}), Bad(D, {}, "unable")>>,
     <<Good(B, {A}), Good(A, {}), Good(A, {}), Global(Good(D, {}))>>,
     <<Good(A, {E}), Global(Good(B, {D})), Good(D, {})>>,
     <<Global(Bad(A, {}, "wrong")), Good(B, {})>>,
     <<Good(A, {}), Global(Bad(B, {A}, "unable")), Bad(D, {B}, "unable")>>,
     <<Global(Bad(A, {}, "unparsed")), Good(B, {})>>}
OtherFiles ==
    {Holding(<<Good(C, {})>>, <<>>, "no"),
     Holding(<<Bad(C, {}, "unparsed"), Good(E, {C})>>, <<>>, "no"),
     Holding(<<Good(C, {D}), Bad(E, {}, "unable")>>, <<toS>>, "no"),
     Holding(<<Good(C, {E})>>, <<toM>>, "no"),
     Holding(<<Good(C, {C})>>, <<>>, "variable"),
     Holding(<<>>, <<>>, "import")}
InnerFiles ==
    {Holding(<<Good(E, {})>>, <<>>, "no"),
     Holding(<<Bad(E, {A}, "wrong")>>, <<>>, "no"),
     Holding(<<>>, <<toA>>, "no"),
     Holding(<<>>, <<toS>>, "no")}
Disk(its, includes, fault, other, inner) ==
    [file \in {m, a, s} |-> CASE file = m -> Holding(its, includes, fault)
                              [] file = a -> other
                              [] file = s -> inner]

\* Every rule set of m with every a and one s; every pair of a and s under both; and the
\* faults of m itself.
Plain == Good(A, {C})
MCDisks ==
    {Disk(its, <<toA>>, "no", other, Holding(inner, <<>>, "no")) :
        its \in MainRules, other \in OtherFiles, inner \in {<<Good(E, {})>>, <<Good(E, {B})>>}}
    \cup {Disk(<<Plain>>, includes, "no", other, inner) :
            includes \in {<<toA, toS>>, <<toS, toS>>}, other \in OtherFiles, inner \in InnerFiles}
    \cup {Disk(<<Plain>>, <<toA>>, fault, Holding(<<Good(C, {})>>, <<>>, other),
               Holding(<<>>, <<>>, "parse")) :
            fault \in {"variable", "import", "no"}, other \in {"no", "large"}}
=============================================================================
