----------------------------- MODULE ScannerPool -----------------------------
(***************************************************************************)
(* A CompiledProgram shared by goroutines (compiler/compiled_program.go,   *)
(* scanner.go).  Scan, Matches and MatchingRules of the program borrow a   *)
(* Scanner from its sync.Pool and put it back; NewScanner builds one that  *)
(* its owner configures and closes.  Scanners are built around an          *)
(* interpreter from a pool of the process (interpreterPool); match         *)
(* contexts are taken and released by the same statements.  The garbage    *)
(* collector may empty a sync.Pool at any time, and Get may answer with a  *)
(* new object although the pool holds one.                                 *)
(*                                                                         *)
(* SetExternalVariables replaces the map of the program while others read  *)
(* it: a data race on one word, which a read sees before or after.         *)
(***************************************************************************)
EXTENDS Naturals, FiniteSets

CONSTANTS
    Callers,        \* goroutines
    Environments,   \* sets of external variables
    NoValues,       \* no external variables
    Undeclared,     \* variables that SetExternalVariables refuses
    Limits,         \* WithItersmax; 0 is no limit
    Scanners,       \* Scanner objects
    Interpreters,   \* Interpreter objects
    NoScanner,      \* a nil pointer
    NoInterpreter

ASSUME EnvironmentAssumption ==
    NoValues \in Environments /\ Undeclared \notin Environments
ASSUME LimitAssumption == Limits \subseteq Nat /\ 0 \in Limits
ASSUME ObjectAssumption == NoScanner \notin Scanners /\ NoInterpreter \notin Interpreters

VARIABLES
    programValues,   \* CompiledProgram.externalValues
    pool,            \* CompiledProgram.scannerPool
    interpreters,    \* interpreterPool
    scanner,         \* the fields of each Scanner
    limitOf,         \* Interpreter.itersmax
    used,            \* the objects that were made
    pc,              \* where each caller is
    held,            \* the scanner it works with
    limit,           \* the limit it asked for
    ran              \* what its rules have run under: values and limit

vars == <<programValues, pool, interpreters, scanner, limitOf, used, pc, held, limit, ran>>

\* Scanner{}
Zero == [built |-> FALSE, values |-> NoValues, failed |-> FALSE, interp |-> NoInterpreter]

Init ==
    /\ programValues = NoValues
    /\ pool = {} /\ interpreters = {}
    /\ scanner = [s \in Scanners |-> Zero]
    /\ limitOf = [i \in Interpreters |-> 0]
    /\ used = [scanners |-> {}, interpreters |-> {}]
    /\ pc = [c \in Callers |-> "idle"]
    /\ held = [c \in Callers |-> NoScanner]
    /\ limit = [c \in Callers |-> 0]
    /\ ran = [c \in Callers |-> {}]

Goto(c, label) == pc' = [pc EXCEPT ![c] = label]

\* CompiledProgram.SetExternalVariables: undeclared names change nothing.
SetProgram(v) ==
    /\ programValues' = IF v = Undeclared THEN programValues ELSE v
    /\ UNCHANGED <<pool, interpreters, scanner, limitOf, used, pc, held, limit, ran>>

\* The runtime may forget what is in a sync.Pool.
Collect ==
    /\ \/ \E s \in pool : pool' = pool \ {s} /\ UNCHANGED interpreters
       \/ \E i \in interpreters : interpreters' = interpreters \ {i} /\ UNCHANGED pool
    /\ UNCHANGED <<programValues, scanner, limitOf, used, pc, held, limit, ran>>

\* interpreterPool.Get: one of the pool, or a new one.
CanGetInterpreter(i) == i \in interpreters \/ i \notin used.interpreters

\* NewScanner with WithItersmax(n) and, unless v is the program's, WithExternalVariables(v),
\* whose error the scanner keeps.
NewScanner(c, s, i, n, v) ==
    /\ s \notin used.scanners /\ CanGetInterpreter(i)
    /\ interpreters' = interpreters \ {i}
    /\ used' = [scanners |-> used.scanners \cup {s},
                interpreters |-> used.interpreters \cup {i}]
    /\ scanner' = [scanner EXCEPT ![s] =
          [built |-> TRUE, values |-> IF v = Undeclared THEN programValues ELSE v,
           failed |-> v = Undeclared, interp |-> i]]
    /\ limitOf' = IF n = 0 THEN limitOf ELSE [limitOf EXCEPT ![i] = n]
    /\ held' = [held EXCEPT ![c] = s] /\ limit' = [limit EXCEPT ![c] = n]
    /\ ran' = [ran EXCEPT ![c] = {}]
    /\ UNCHANGED <<programValues, pool>>

---------------------------------------------------------------------------
(* CompiledProgram.Scan and its like *)

Call(c) ==
    /\ pc[c] = "idle" /\ Goto(c, "get")
    /\ UNCHANGED <<programValues, pool, interpreters, scanner, limitOf, used, held, limit, ran>>

\* acquireScanner: scannerPool.Get finds a scanner
GetPooled(c) ==
    /\ pc[c] = "get" /\ Goto(c, "refresh")
    /\ \E s \in pool : pool' = pool \ {s} /\ held' = [held EXCEPT ![c] = s]
    /\ limit' = [limit EXCEPT ![c] = 0] /\ ran' = [ran EXCEPT ![c] = {}]
    /\ UNCHANGED <<programValues, interpreters, scanner, limitOf, used>>

\* or calls New.
GetNew(c) ==
    /\ pc[c] = "get" /\ Goto(c, "refresh")
    /\ \E s \in Scanners, i \in Interpreters : NewScanner(c, s, i, 0, programValues)

\* Error: only a scanner that was given values before is refreshed.
RefreshOnce(c) ==
    /\ pc[c] = "refresh"
    /\ IF programValues = NoValues \/ scanner[held[c]].values # NoValues
       THEN Goto(c, "scan") ELSE Goto(c, "clone")
    /\ UNCHANGED <<programValues, pool, interpreters, scanner, limitOf, used, held, limit, ran>>

\* len(cp.externalValues) is read first,
Refresh(c) ==
    /\ pc[c] = "refresh"
    /\ IF programValues = NoValues
       THEN scanner' = [scanner EXCEPT ![held[c]].values = NoValues] /\ Goto(c, "scan")
       ELSE UNCHANGED scanner /\ Goto(c, "clone")
    /\ UNCHANGED <<programValues, pool, interpreters, limitOf, used, held, limit, ran>>

\* and the map again.
Clone(c) ==
    /\ pc[c] = "clone" /\ Goto(c, "scan")
    /\ scanner' = [scanner EXCEPT ![held[c]].values = programValues]
    /\ UNCHANGED <<programValues, pool, interpreters, limitOf, used, held, limit, ran>>

\* One rule of the scan: prepareInterpreter reads the values, the loops count to the limit.
EvaluateRule(c) ==
    /\ pc[c] \in {"scan", "owner"}
    /\ LET s == scanner[held[c]]
       IN /\ s.built /\ ~s.failed
          /\ ran' = [ran EXCEPT ![c] = @ \cup {[values |-> s.values, limit |-> limitOf[s.interp]]}]
    /\ UNCHANGED <<programValues, pool, interpreters, scanner, limitOf, used, pc, held, limit>>

\* The deferred releaseScanner, whether the scan ended, failed or was cancelled.
ReleaseScanner(c) ==
    /\ pc[c] = "scan" /\ Goto(c, "idle")
    /\ pool' = pool \cup {held[c]}
    /\ held' = [held EXCEPT ![c] = NoScanner] /\ ran' = [ran EXCEPT ![c] = {}]
    /\ UNCHANGED <<programValues, interpreters, scanner, limitOf, used, limit>>

---------------------------------------------------------------------------
(* A scanner of one's own *)

Open(c) ==
    /\ pc[c] = "idle" /\ Goto(c, "owner")
    /\ \E s \in Scanners, i \in Interpreters, n \in Limits,
          v \in Environments \cup {Undeclared} : NewScanner(c, s, i, n, v)

\* Scanner.SetExternalVariables; it also forgets the error of an option.
SetOwn(c, v) ==
    /\ pc[c] = "owner" /\ scanner[held[c]].built
    /\ IF v = Undeclared THEN UNCHANGED <<scanner, ran>>
       ELSE /\ scanner' = [scanner EXCEPT ![held[c]].values = v, ![held[c]].failed = FALSE]
            /\ ran' = [ran EXCEPT ![c] = {}]
    /\ UNCHANGED <<programValues, pool, interpreters, limitOf, used, pc, held, limit>>

\* Error: the closed scanner still refers to its interpreter.
CloseKeepingParts(c) ==
    /\ pc[c] = "owner"
    /\ interpreters' = interpreters \cup {scanner[held[c]].interp}
    /\ limitOf' = [limitOf EXCEPT ![scanner[held[c]].interp] = 0]
    /\ scanner' = [scanner EXCEPT ![held[c]].built = FALSE]
    /\ UNCHANGED <<programValues, pool, used, pc, held, limit, ran>>

\* Error: the interpreter keeps the options of its last scanner.
CloseWithoutReset(c) ==
    /\ pc[c] = "owner" /\ scanner[held[c]].built
    /\ interpreters' = interpreters \cup {scanner[held[c]].interp}
    /\ scanner' = [scanner EXCEPT ![held[c]] = Zero]
    /\ UNCHANGED <<programValues, pool, limitOf, used, pc, held, limit, ran>>

\* Error: a scan after Close finds no scanner.
CloseAndForget(c) ==
    /\ pc[c] = "owner" /\ scanner[held[c]].built
    /\ interpreters' = interpreters \cup {scanner[held[c]].interp}
    /\ limitOf' = [limitOf EXCEPT ![scanner[held[c]].interp] = 0]
    /\ scanner' = [scanner EXCEPT ![held[c]] = Zero]
    /\ held' = [held EXCEPT ![c] = NoScanner]
    /\ UNCHANGED <<programValues, pool, used, pc, limit, ran>>

\* Scanner.Close, which may be repeated: Interpreter.Release resets and puts back.
Close(c) ==
    /\ pc[c] = "owner"
    /\ LET i == scanner[held[c]].interp
       IN IF i = NoInterpreter THEN UNCHANGED <<interpreters, limitOf>>
          ELSE /\ interpreters' = interpreters \cup {i}
               /\ limitOf' = [limitOf EXCEPT ![i] = 0]
    /\ scanner' = [scanner EXCEPT ![held[c]] = Zero]
    /\ UNCHANGED <<programValues, pool, used, pc, held, limit, ran>>

\* The owner forgets its scanner, closed or not.
Leave(c) ==
    /\ pc[c] = "owner" /\ Goto(c, "idle")
    /\ held' = [held EXCEPT ![c] = NoScanner] /\ ran' = [ran EXCEPT ![c] = {}]
    /\ UNCHANGED <<programValues, pool, interpreters, scanner, limitOf, used, limit>>

Next ==
    \/ \E v \in Environments \cup {Undeclared} : SetProgram(v)
    \/ Collect
    \/ \E c \in Callers :
          \/ Call(c) \/ GetPooled(c) \/ GetNew(c) \/ Refresh(c) \/ Clone(c)
          \/ EvaluateRule(c) \/ ReleaseScanner(c)
          \/ Open(c) \/ Close(c) \/ Leave(c)
          \/ \E v \in Environments \cup {Undeclared} : SetOwn(c, v)

Spec == Init /\ [][Next]_vars

---------------------------------------------------------------------------
(* Properties *)

\* Every variable has its type.
TypeOK ==
    /\ programValues \in Environments
    /\ pool \subseteq used.scanners /\ interpreters \subseteq used.interpreters
    /\ scanner \in [Scanners -> [built : BOOLEAN, values : Environments, failed : BOOLEAN,
                                 interp : Interpreters \cup {NoInterpreter}]]
    /\ limitOf \in [Interpreters -> Limits]
    /\ used \in [scanners : SUBSET Scanners, interpreters : SUBSET Interpreters]
    /\ pc \in [Callers -> {"idle", "get", "refresh", "clone", "scan", "owner"}]
    /\ held \in [Callers -> Scanners \cup {NoScanner}]
    /\ \A c \in Callers : pc[c] \notin {"idle", "get"} => held[c] \in used.scanners
    /\ limit \in [Callers -> Limits]
    /\ ran \in [Callers -> SUBSET [values : Environments, limit : Limits]]

Working == {c \in Callers : pc[c] \notin {"idle", "get"}}

\* No scanner is in two hands, or in one and in the pool, and no interpreter serves two
\* scanners, or one and the next that will be built (the pools, and Close called twice).
ExclusiveUse ==
    /\ \A c, d \in Working : c # d => held[c] # held[d]
    /\ \A c \in Working : held[c] \notin pool
    /\ \A s, t \in Scanners :
          s # t /\ scanner[s].built /\ scanner[t].built => scanner[s].interp # scanner[t].interp
    /\ \A s \in Scanners : scanner[s].built => scanner[s].interp \notin interpreters

\* The rules of one call run under one set of values and the limit the caller asked for:
\* none, for a call of the program (resetForPool).
RunsUnderOneSetting ==
    \A c \in Callers :
        /\ Cardinality(ran[c]) <= 1
        /\ \A e \in ran[c] : e.limit = limit[c]

Phase(c) ==
    CASE pc[c] = "idle" -> "idle"
      [] pc[c] \in {"get", "refresh", "clone"} -> "waiting"
      [] pc[c] = "scan" -> "bound"
      [] pc[c] = "owner" -> "owner"

Bound(c) == IF Phase(c) \in {"bound", "owner"} THEN scanner[held[c]].values ELSE NoValues

Shared == INSTANCE SharedProgram
    WITH values <- programValues, phase <- [c \in Callers |-> Phase(c)],
         bound <- [c \in Callers |-> Bound(c)]

\* A call works with the values the program had at one moment of the call: values that
\* were replaced before it began are never seen, and nobody changes them while it runs.
ImplementsSharedProgram == Shared!Spec
=============================================================================
