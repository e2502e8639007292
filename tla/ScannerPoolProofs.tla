-------------------------- MODULE ScannerPoolProofs --------------------------
(***************************************************************************)
(* Theorems about ScannerPool, for any number of goroutines, scanners,     *)
(* interpreters and sets of external variables.                            *)
(***************************************************************************)
EXTENDS ScannerPool, FiniteSetTheorems, TLAPS

---------------------------------------------------------------------------
(* The inductive invariant. *)

\* A scanner is in one hand or in the pool.
HandsInv ==
    /\ \A c, d \in Working : c # d => held[c] # held[d]
    /\ \A c \in Working : held[c] \notin pool

\* A scanner has an interpreter while it is built, and shares it with nobody.
PartsInv ==
    /\ \A s \in Scanners : scanner[s].built =>
          /\ s \in used.scanners
          /\ scanner[s].interp \in used.interpreters /\ scanner[s].interp \notin interpreters
    /\ \A s \in Scanners : ~scanner[s].built => scanner[s].interp = NoInterpreter
    /\ \A s, t \in Scanners :
          s # t /\ scanner[s].built /\ scanner[t].built => scanner[s].interp # scanner[t].interp

\* Who takes an interpreter, or a scanner with its own, from a pool takes one without a
\* limit, and a scanner in a hand has the limit that was asked for.
LimitsInv ==
    /\ \A i \in Interpreters : CanGetInterpreter(i) => limitOf[i] = 0
    /\ \A s \in pool : scanner[s].built => limitOf[scanner[s].interp] = 0
    /\ \A c \in Callers : pc[c] \in {"refresh", "clone", "scan"} => limit[c] = 0
    /\ \A c \in Working : scanner[held[c]].built => limitOf[scanner[held[c]].interp] = limit[c]

\* What the rules of a call have run under is what its scanner is set to now.
RunsInv ==
    /\ \A c \in Callers : pc[c] \in {"idle", "get", "refresh", "clone"} => ran[c] = {}
    /\ \A c \in Working : \A e \in ran[c] : scanner[held[c]].built => e.values = scanner[held[c]].values
    /\ \A c \in Callers : \A e \in ran[c] : e.limit = limit[c]
    /\ \A c \in Callers : \A e, f \in ran[c] : e.values = f.values

IInv == TypeOK /\ HandsInv /\ PartsInv /\ LimitsInv /\ RunsInv

---------------------------------------------------------------------------
(* The steps keep the types. *)

LEMMA NewScannerTypes ==
    ASSUME TypeOK, NEW c \in Callers, NEW s \in Scanners, NEW i \in Interpreters, NEW n \in Limits,
           NEW v \in Environments \cup {Undeclared}, NewScanner(c, s, i, n, v),
           NEW p \in {"refresh", "owner"}, Goto(c, p)
    PROVE  TypeOK'
<1> USE DEF TypeOK, NewScanner, Goto
<1>1. scanner' \in [Scanners -> [built : BOOLEAN, values : Environments, failed : BOOLEAN,
                                 interp : Interpreters \cup {NoInterpreter}]]
    <2> DEFINE new == [built |-> TRUE, values |-> IF v = Undeclared THEN programValues ELSE v,
                       failed |-> v = Undeclared, interp |-> i]
    <2>1. new \in [built : BOOLEAN, values : Environments, failed : BOOLEAN,
                   interp : Interpreters \cup {NoInterpreter}]
        OBVIOUS
    <2> QED BY <2>1
<1>2. used' \in [scanners : SUBSET Scanners, interpreters : SUBSET Interpreters]
      /\ used'.scanners = used.scanners \cup {s} /\ used'.interpreters = used.interpreters \cup {i}
    OBVIOUS
<1>3. limitOf' \in [Interpreters -> Limits] /\ limit' \in [Callers -> Limits]
    OBVIOUS
<1>4. held' \in [Callers -> Scanners \cup {NoScanner}]
      /\ \A d \in Callers : pc'[d] \notin {"idle", "get"} => held'[d] \in used'.scanners
    BY <1>2
<1>5. ran' \in [Callers -> SUBSET [values : Environments, limit : Limits]]
      /\ pc' \in [Callers -> {"idle", "get", "refresh", "clone", "scan", "owner"}]
    OBVIOUS
<1> QED BY <1>1, <1>2, <1>3, <1>4, <1>5

LEMMA TypeStep ==
    ASSUME TypeOK, PartsInv, [Next]_vars
    PROVE  TypeOK'
<1> USE DEF TypeOK, Goto
<1>0. NoValues \in Environments /\ 0 \in Limits
    BY EnvironmentAssumption, LimitAssumption
<1>1. ASSUME NEW v \in Environments \cup {Undeclared}, SetProgram(v) PROVE TypeOK'
    BY <1>1 DEF SetProgram
<1>2. CASE Collect
    BY <1>2 DEF Collect
<1>3. ASSUME NEW c \in Callers, Call(c) PROVE TypeOK'
    BY <1>3 DEF Call
<1>4. ASSUME NEW c \in Callers, GetPooled(c) PROVE TypeOK'
    BY <1>0, <1>4 DEF GetPooled
<1>5. ASSUME NEW c \in Callers, GetNew(c) PROVE TypeOK'
    <2>1. PICK s \in Scanners, i \in Interpreters : NewScanner(c, s, i, 0, programValues)
        BY <1>5 DEF GetNew
    <2>2. Goto(c, "refresh")
        BY <1>5 DEF GetNew
    <2> QED BY <1>0, <2>1, <2>2, NewScannerTypes
<1>6. ASSUME NEW c \in Callers, Refresh(c) PROVE TypeOK'
    BY <1>0, <1>6 DEF Refresh
<1>7. ASSUME NEW c \in Callers, Clone(c) PROVE TypeOK'
    BY <1>7 DEF Clone
<1>8. ASSUME NEW c \in Callers, EvaluateRule(c) PROVE TypeOK'
    <2>1. scanner[held[c]].values \in Environments /\ scanner[held[c]].interp \in Interpreters
          /\ scanner[held[c]].built
        BY <1>8 DEF EvaluateRule, PartsInv
    <2>2. limitOf[scanner[held[c]].interp] \in Limits
        BY <2>1
    <2> QED BY <1>8, <2>1, <2>2 DEF EvaluateRule
<1>9. ASSUME NEW c \in Callers, ReleaseScanner(c) PROVE TypeOK'
    BY <1>9 DEF ReleaseScanner
<1>10. ASSUME NEW c \in Callers, Open(c) PROVE TypeOK'
    <2>1. PICK s \in Scanners, i \in Interpreters, n \in Limits,
               v \in Environments \cup {Undeclared} : NewScanner(c, s, i, n, v)
        BY <1>10 DEF Open
    <2>2. Goto(c, "owner")
        BY <1>10 DEF Open
    <2> QED BY <2>1, <2>2, NewScannerTypes
<1>11. ASSUME NEW c \in Callers, Close(c) PROVE TypeOK'
    <2>1. Zero \in [built : BOOLEAN, values : Environments, failed : BOOLEAN,
                    interp : Interpreters \cup {NoInterpreter}]
        BY <1>0 DEF Zero
    <2>2. scanner' \in [Scanners -> [built : BOOLEAN, values : Environments, failed : BOOLEAN,
                                     interp : Interpreters \cup {NoInterpreter}]]
        BY <1>11, <2>1 DEF Close
    <2>3. interpreters' \subseteq used.interpreters /\ limitOf' \in [Interpreters -> Limits]
        BY <1>0, <1>11 DEF Close, PartsInv
    <2> QED BY <1>11, <2>2, <2>3 DEF Close
<1>12. ASSUME NEW c \in Callers, Leave(c) PROVE TypeOK'
    BY <1>12 DEF Leave
<1>13. ASSUME NEW c \in Callers, NEW v \in Environments \cup {Undeclared}, SetOwn(c, v) PROVE TypeOK'
    BY <1>13 DEF SetOwn
<1>14. CASE UNCHANGED vars
    BY <1>14 DEF vars
<1> QED BY <1>1, <1>2, <1>3, <1>4, <1>5, <1>6, <1>7, <1>8, <1>9, <1>10, <1>11, <1>12, <1>13, <1>14
        DEF Next

---------------------------------------------------------------------------
(* The steps keep the rest of the invariant, part by part. *)

\* A scanner that was never made is in no hand and in no pool, and is not built.
LEMMA NewIsNowhere ==
    ASSUME TypeOK, PartsInv, NEW s \in Scanners, s \notin used.scanners
    PROVE  /\ s \notin pool /\ ~scanner[s].built
           /\ \A c \in Working : held[c] # s
BY DEF TypeOK, PartsInv, Working

\* GetNew and Open build a scanner.
LEMMA Building ==
    ASSUME TypeOK, NEW c \in Callers, GetNew(c) \/ Open(c)
    PROVE  \E s \in Scanners, i \in Interpreters, n \in Limits, v \in Environments \cup {Undeclared} :
               NewScanner(c, s, i, n, v) /\ (GetNew(c) => n = 0)
<1>1. 0 \in Limits /\ programValues \in Environments
    BY LimitAssumption DEF TypeOK
<1>2. CASE GetNew(c)
    BY <1>1, <1>2 DEF GetNew
<1>3. CASE Open(c) /\ ~GetNew(c)
    BY <1>3 DEF Open
<1> QED BY <1>2, <1>3

LEMMA HandsStep ==
    ASSUME TypeOK, HandsInv, PartsInv, [Next]_vars
    PROVE  HandsInv'
<1> USE DEF TypeOK, HandsInv, Working, Goto
<1>1. ASSUME NEW v \in Environments \cup {Undeclared}, SetProgram(v) PROVE HandsInv'
    BY <1>1 DEF SetProgram
<1>2. CASE Collect
    BY <1>2 DEF Collect
<1>3. ASSUME NEW c \in Callers, Call(c) PROVE HandsInv'
    BY <1>3 DEF Call
<1>4. ASSUME NEW c \in Callers, GetPooled(c) PROVE HandsInv'
    <2>1. PICK s \in pool : pool' = pool \ {s} /\ held' = [held EXCEPT ![c] = s]
        BY <1>4 DEF GetPooled
    <2>2. Working' = Working \cup {c} /\ c \notin Working
        BY <1>4 DEF GetPooled
    <2> QED BY <2>1, <2>2
<1>5. ASSUME NEW c \in Callers, GetNew(c) \/ Open(c) PROVE HandsInv'
    <2>1. PICK s \in Scanners : s \notin used.scanners /\ held' = [held EXCEPT ![c] = s] /\ pool' = pool
        BY <1>5 DEF GetNew, Open, NewScanner
    <2>2. Working' = Working \cup {c} /\ c \notin Working
        BY <1>5 DEF GetNew, Open
    <2> QED BY <2>1, <2>2, NewIsNowhere
<1>6. ASSUME NEW c \in Callers, Refresh(c) \/ Clone(c) PROVE HandsInv'
    <2>1. Working' = Working /\ UNCHANGED <<pool, held>>
        BY <1>6 DEF Refresh, Clone
    <2> QED BY <2>1
<1>7. ASSUME NEW c \in Callers, EvaluateRule(c) \/ Close(c) PROVE HandsInv'
    BY <1>7 DEF EvaluateRule, Close
<1>8. ASSUME NEW c \in Callers, ReleaseScanner(c) PROVE HandsInv'
    <2>1. Working' = Working \ {c} /\ c \in Working /\ pool' = pool \cup {held[c]}
          /\ \A d \in Working' : held'[d] = held[d]
        BY <1>8 DEF ReleaseScanner
    <2> QED BY <2>1
<1>9. ASSUME NEW c \in Callers, Leave(c) PROVE HandsInv'
    <2>1. Working' = Working \ {c} /\ pool' = pool /\ \A d \in Working' : held'[d] = held[d]
        BY <1>9 DEF Leave
    <2> QED BY <2>1
<1>10. ASSUME NEW c \in Callers, NEW v \in Environments \cup {Undeclared}, SetOwn(c, v) PROVE HandsInv'
    BY <1>10 DEF SetOwn
<1>11. CASE UNCHANGED vars
    BY <1>11 DEF vars
<1> QED BY <1>1, <1>2, <1>3, <1>4, <1>5, <1>6, <1>7, <1>8, <1>9, <1>10, <1>11 DEF Next

LEMMA PartsStep ==
    ASSUME TypeOK, HandsInv, PartsInv, [Next]_vars
    PROVE  PartsInv'
<1> USE DEF TypeOK, PartsInv
<1>1. ASSUME NEW v \in Environments \cup {Undeclared}, SetProgram(v) PROVE PartsInv'
    BY <1>1 DEF SetProgram
<1>2. CASE Collect
    BY <1>2 DEF Collect
<1>3. ASSUME NEW c \in Callers, Call(c) \/ GetPooled(c) \/ EvaluateRule(c) \/ ReleaseScanner(c) \/ Leave(c)
      PROVE  PartsInv'
    BY <1>3 DEF Call, GetPooled, EvaluateRule, ReleaseScanner, Leave
<1>4. ASSUME NEW c \in Callers, GetNew(c) \/ Open(c) PROVE PartsInv'
    <2>1. PICK s \in Scanners, i \in Interpreters, n \in Limits, v \in Environments \cup {Undeclared} :
              NewScanner(c, s, i, n, v)
        BY <1>4, Building
    <2>3. /\ s \notin used.scanners /\ interpreters' = interpreters \ {i}
          /\ used'.scanners = used.scanners \cup {s} /\ used'.interpreters = used.interpreters \cup {i}
          /\ scanner'[s].built /\ scanner'[s].interp = i
          /\ \A t \in Scanners \ {s} : scanner'[t] = scanner[t]
        BY <2>1 DEF NewScanner
    <2>2. \A t \in Scanners : scanner[t].built => scanner[t].interp # i
        BY <2>1 DEF CanGetInterpreter, NewScanner
    <2> QED BY <2>2, <2>3
<1>5. ASSUME NEW c \in Callers, NEW v \in Environments \cup {Undeclared},
             Refresh(c) \/ Clone(c) \/ SetOwn(c, v)
      PROVE  PartsInv'
    <2>1. /\ UNCHANGED <<used, interpreters>>
          /\ \A t \in Scanners : scanner'[t].built = scanner[t].built /\ scanner'[t].interp = scanner[t].interp
        BY <1>5 DEF Refresh, Clone, SetOwn
    <2> QED BY <2>1
<1>6. ASSUME NEW c \in Callers, Close(c) PROVE PartsInv'
    <2>1. held[c] \in Scanners /\ used' = used
        BY <1>6 DEF Close
    <2>2. /\ ~scanner'[held[c]].built /\ scanner'[held[c]].interp = NoInterpreter
          /\ \A t \in Scanners \ {held[c]} : scanner'[t] = scanner[t]
        BY <1>6, <2>1 DEF Close, Zero
    <2>3. \/ interpreters' = interpreters
          \/ scanner[held[c]].built /\ interpreters' = interpreters \cup {scanner[held[c]].interp}
        BY <1>6, <2>1 DEF Close
    <2> QED BY <2>1, <2>2, <2>3
<1>7. CASE UNCHANGED vars
    BY <1>7 DEF vars
<1> QED BY <1>1, <1>2, <1>3, <1>4, <1>5, <1>6, <1>7 DEF Next

LEMMA LimitsStep ==
    ASSUME TypeOK, HandsInv, PartsInv, LimitsInv, [Next]_vars
    PROVE  LimitsInv'
<1> USE DEF TypeOK, LimitsInv, Working, Goto, CanGetInterpreter
<1>1. ASSUME NEW v \in Environments \cup {Undeclared}, SetProgram(v) PROVE LimitsInv'
    BY <1>1 DEF SetProgram
<1>2. CASE Collect
    BY <1>2 DEF Collect
<1>3. ASSUME NEW c \in Callers, Call(c) PROVE LimitsInv'
    BY <1>3 DEF Call
<1>4. ASSUME NEW c \in Callers, GetPooled(c) PROVE LimitsInv'
    <2>1. PICK s \in pool : pool' = pool \ {s} /\ held' = [held EXCEPT ![c] = s]
        BY <1>4 DEF GetPooled
    <2>2. /\ Working' = Working \cup {c} /\ limit' = [limit EXCEPT ![c] = 0]
          /\ UNCHANGED <<interpreters, scanner, limitOf, used>> /\ pc' = [pc EXCEPT ![c] = "refresh"]
        BY <1>4 DEF GetPooled
    <2> QED BY <2>1, <2>2
<1>5. ASSUME NEW c \in Callers, GetNew(c) \/ Open(c) PROVE LimitsInv'
    <2>1. PICK s \in Scanners, i \in Interpreters, n \in Limits, v \in Environments \cup {Undeclared} :
              NewScanner(c, s, i, n, v) /\ (GetNew(c) => n = 0)
        BY <1>5, Building
    <2>2. /\ s \notin used.scanners /\ interpreters' = interpreters \ {i} /\ pool' = pool
          /\ used'.interpreters = used.interpreters \cup {i} /\ CanGetInterpreter(i)
          /\ scanner'[s].interp = i /\ limit' = [limit EXCEPT ![c] = n] /\ held' = [held EXCEPT ![c] = s]
          /\ \A t \in Scanners \ {s} : scanner'[t] = scanner[t]
        BY <2>1 DEF NewScanner
    <2>3. limitOf'[i] = n /\ \A j \in Interpreters \ {i} : limitOf'[j] = limitOf[j]
        BY <2>1 DEF NewScanner
    <2>4. s \notin pool /\ (\A d \in Working : held[d] # s)
        BY <2>2, NewIsNowhere
    <2>5. \A t \in Scanners : scanner[t].built => scanner[t].interp # i /\ scanner[t].interp \in Interpreters
        BY <2>2 DEF PartsInv
    <2>6. /\ Working' = Working \cup {c} /\ c \notin Working
          /\ pc' = [pc EXCEPT ![c] = IF n = 0 /\ GetNew(c) THEN "refresh" ELSE "owner"]
        BY <1>5, <2>1 DEF GetNew, Open
    <2>7. \A j \in Interpreters : (j \in interpreters' \/ j \notin used'.interpreters) => limitOf'[j] = 0
        BY <2>2, <2>3
    <2>8. \A t \in pool' : scanner'[t].built => limitOf'[scanner'[t].interp] = 0
        BY <2>2, <2>3, <2>4, <2>5
    <2>9. \A d \in Working' : scanner'[held'[d]].built => limitOf'[scanner'[held'[d]].interp] = limit'[d]
        BY <2>2, <2>3, <2>4, <2>5, <2>6
    <2>10. \A d \in Callers : pc'[d] \in {"refresh", "clone", "scan"} => limit'[d] = 0
        BY <2>2, <2>6
    <2> QED BY <2>7, <2>8, <2>9, <2>10
<1>6. ASSUME NEW c \in Callers, NEW v \in Environments \cup {Undeclared},
             Refresh(c) \/ Clone(c) \/ SetOwn(c, v)
      PROVE  LimitsInv'
    <2>1. /\ UNCHANGED <<used, interpreters, pool, held, limit, limitOf>> /\ Working' = Working
          /\ \A d \in Callers : pc'[d] \in {"refresh", "clone", "scan"} => pc[d] \in {"refresh", "clone", "scan"}
          /\ \A t \in Scanners : scanner'[t].built = scanner[t].built /\ scanner'[t].interp = scanner[t].interp
        BY <1>6 DEF Refresh, Clone, SetOwn
    <2> QED BY <2>1
<1>7. ASSUME NEW c \in Callers, EvaluateRule(c) PROVE LimitsInv'
    BY <1>7 DEF EvaluateRule
<1>8. ASSUME NEW c \in Callers, ReleaseScanner(c) PROVE LimitsInv'
    <2>1. /\ Working' = Working \ {c} /\ c \in Working /\ pool' = pool \cup {held[c]} /\ limit[c] = 0
          /\ UNCHANGED <<interpreters, scanner, limitOf, used, limit>> /\ pc' = [pc EXCEPT ![c] = "idle"]
          /\ \A d \in Working' : held'[d] = held[d]
        BY <1>8 DEF ReleaseScanner
    <2> QED BY <2>1
<1>9. ASSUME NEW c \in Callers, Leave(c) PROVE LimitsInv'
    <2>1. /\ Working' = Working \ {c} /\ \A d \in Working' : held'[d] = held[d]
          /\ UNCHANGED <<pool, interpreters, scanner, limitOf, used, limit>> /\ pc' = [pc EXCEPT ![c] = "idle"]
        BY <1>9 DEF Leave
    <2> QED BY <2>1
<1>10. ASSUME NEW c \in Callers, Close(c) PROVE LimitsInv'
    <2>1. /\ UNCHANGED <<pool, used, pc, held, limit>> /\ c \in Working /\ held[c] \in Scanners
          /\ ~scanner'[held[c]].built /\ \A t \in Scanners \ {held[c]} : scanner'[t] = scanner[t]
        BY <1>10 DEF Close, Zero
    <2>2. CASE scanner[held[c]].built
        <3>1. /\ interpreters' = interpreters \cup {scanner[held[c]].interp}
              /\ limitOf' = [limitOf EXCEPT ![scanner[held[c]].interp] = 0]
            BY <1>10, <2>1, <2>2, ObjectAssumption DEF Close, PartsInv
        <3>2. \A t \in Scanners \ {held[c]} :
                  scanner[t].built => scanner[t].interp # scanner[held[c]].interp
            BY <2>1, <2>2 DEF PartsInv
        <3>3. \A t \in Scanners \ {held[c]} :
                  scanner[t].built => limitOf'[scanner'[t].interp] = limitOf[scanner[t].interp]
            BY <2>1, <3>1, <3>2 DEF PartsInv
        <3> QED BY <2>1, <3>1, <3>3
    <2>3. CASE ~scanner[held[c]].built
        <3>1. UNCHANGED <<interpreters, limitOf>>
            BY <1>10, <2>1, <2>3 DEF Close, PartsInv
        <3> QED BY <2>1, <3>1
    <2> QED BY <2>2, <2>3
<1>11. CASE UNCHANGED vars
    BY <1>11 DEF vars
<1> QED BY <1>1, <1>2, <1>3, <1>4, <1>5, <1>6, <1>7, <1>8, <1>9, <1>10, <1>11 DEF Next

LEMMA RunsStep ==
    ASSUME IInv, [Next]_vars
    PROVE  RunsInv'
<1> USE DEF IInv, TypeOK, RunsInv, Working, Goto
<1>1. ASSUME NEW v \in Environments \cup {Undeclared}, SetProgram(v) PROVE RunsInv'
    BY <1>1 DEF SetProgram
<1>2. CASE Collect
    BY <1>2 DEF Collect
<1>3. ASSUME NEW c \in Callers, Call(c) PROVE RunsInv'
    BY <1>3 DEF Call
<1>4. ASSUME NEW c \in Callers, GetPooled(c) PROVE RunsInv'
    BY <1>4 DEF GetPooled
<1>5. ASSUME NEW c \in Callers, GetNew(c) \/ Open(c) PROVE RunsInv'
    <2>1. PICK s \in Scanners, i \in Interpreters, n \in Limits, v \in Environments \cup {Undeclared} :
              NewScanner(c, s, i, n, v)
        BY <1>5, Building
    <2>2. /\ s \notin used.scanners /\ held' = [held EXCEPT ![c] = s]
          /\ ran' = [ran EXCEPT ![c] = {}] /\ limit' = [limit EXCEPT ![c] = n]
          /\ \A t \in Scanners \ {s} : scanner'[t] = scanner[t]
        BY <2>1 DEF NewScanner
    <2>3. \A d \in Working : held[d] # s
        BY <2>2, NewIsNowhere
    <2>4. \A d \in Callers \ {c} : pc'[d] = pc[d]
        BY <1>5 DEF GetNew, Open
    <2> QED BY <2>2, <2>3, <2>4
<1>6. ASSUME NEW c \in Callers, Refresh(c) \/ Clone(c) PROVE RunsInv'
    <2>1. /\ ran[c] = {} /\ held[c] \in Scanners /\ c \in Working /\ UNCHANGED <<ran, held, limit>>
          /\ \A t \in Scanners \ {held[c]} : scanner'[t] = scanner[t]
          /\ \A d \in Callers \ {c} : pc'[d] = pc[d]
        BY <1>6 DEF Refresh, Clone
    <2> QED BY <2>1 DEF HandsInv
<1>7. ASSUME NEW c \in Callers, EvaluateRule(c) PROVE RunsInv'
    <2> DEFINE e == [values |-> scanner[held[c]].values, limit |-> limitOf[scanner[held[c]].interp]]
    <2>1. /\ c \in Working /\ scanner[held[c]].built /\ ran' = [ran EXCEPT ![c] = @ \cup {e}]
          /\ pc[c] \in {"scan", "owner"} /\ UNCHANGED <<scanner, limitOf, pc, held, limit>>
        BY <1>7 DEF EvaluateRule
    <2>2. e.limit = limit[c] /\ \A f \in ran[c] : f.values = e.values
        BY <2>1 DEF LimitsInv
    <2> HIDE DEF e
    <2>3. \A d \in Callers : ran'[d] = IF d = c THEN ran[c] \cup {e} ELSE ran[d]
        BY <2>1
    <2>4. e.values = scanner[held[c]].values
        BY DEF e
    <2> QED BY <2>1, <2>2, <2>3, <2>4
<1>8. ASSUME NEW c \in Callers, ReleaseScanner(c) \/ Leave(c) PROVE RunsInv'
    <2>1. /\ ran' = [ran EXCEPT ![c] = {}] /\ UNCHANGED <<scanner, limit>>
          /\ \A d \in Callers \ {c} : pc'[d] = pc[d] /\ held'[d] = held[d]
        BY <1>8 DEF ReleaseScanner, Leave
    <2> QED BY <2>1
<1>9. ASSUME NEW c \in Callers, Close(c) PROVE RunsInv'
    <2>1. /\ UNCHANGED <<ran, pc, held, limit>> /\ c \in Working /\ held[c] \in Scanners
          /\ ~scanner'[held[c]].built /\ \A t \in Scanners \ {held[c]} : scanner'[t] = scanner[t]
        BY <1>9 DEF Close, Zero
    <2> QED BY <2>1
<1>10. ASSUME NEW c \in Callers, NEW v \in Environments \cup {Undeclared}, SetOwn(c, v) PROVE RunsInv'
    <2>1. CASE v = Undeclared
        BY <1>10, <2>1 DEF SetOwn
    <2>2. CASE v # Undeclared
        <3>1. /\ ran' = [ran EXCEPT ![c] = {}] /\ UNCHANGED <<pc, held, limit>> /\ c \in Working
              /\ \A t \in Scanners \ {held[c]} : scanner'[t] = scanner[t]
            BY <1>10, <2>2 DEF SetOwn
        <3> QED BY <3>1 DEF HandsInv
    <2> QED BY <2>1, <2>2
<1>11. CASE UNCHANGED vars
    BY <1>11 DEF vars
<1> QED BY <1>1, <1>2, <1>3, <1>4, <1>5, <1>6, <1>7, <1>8, <1>9, <1>10, <1>11 DEF Next

---------------------------------------------------------------------------
(* Theorems. *)

LEMMA InitIsSafe == Init => IInv
<1> SUFFICES ASSUME Init PROVE IInv
    OBVIOUS
<1> USE DEF Init, Zero
<1>1. TypeOK
    BY EnvironmentAssumption, LimitAssumption DEF TypeOK
<1>2. HandsInv /\ PartsInv
    BY DEF HandsInv, PartsInv, Working
<1>3. LimitsInv /\ RunsInv
    BY DEF LimitsInv, RunsInv, Working
<1> QED BY <1>1, <1>2, <1>3 DEF IInv

\* Who holds what, who was built of what, and what was asked for, together hold always.
THEOREM PoolInvariant == Spec => []IInv
<1>1. IInv /\ [Next]_vars => IInv'
    BY TypeStep, HandsStep, PartsStep, LimitsStep, RunsStep DEF IInv
<1> QED BY <1>1, InitIsSafe, PTL DEF Spec

\* Scanners, interpreters and pools keep their types (compiled_program.go, scanner.go).
THEOREM PoolTypesHold == Spec => []TypeOK
<1>1. IInv => TypeOK
    BY DEF IInv
<1> QED BY <1>1, PoolInvariant, PTL

\* However many goroutines scan, and however often an owner closes its scanner, no scanner
\* and no interpreter is used by two at once (scannerPool, interpreterPool, Scanner.Close).
THEOREM UseIsExclusive == Spec => []ExclusiveUse
<1>1. IInv => ExclusiveUse
    BY DEF IInv, HandsInv, PartsInv, ExclusiveUse
<1> QED BY <1>1, PoolInvariant, PTL

\* The rules of one call run under one set of external variables and the limit its caller
\* asked for, whoever used its interpreter before (Interpreter.resetForPool).
THEOREM CallsHaveOneSetting == Spec => []RunsUnderOneSetting
<1>1. ASSUME IInv PROVE RunsUnderOneSetting
    <2> SUFFICES ASSUME NEW c \in Callers PROVE Cardinality(ran[c]) <= 1
        BY <1>1 DEF IInv, RunsInv, RunsUnderOneSetting
    <2>1. \A e, f \in ran[c] : e = f
        <3> SUFFICES ASSUME NEW e \in ran[c], NEW f \in ran[c] PROVE e = f
            OBVIOUS
        <3>1. e.values = f.values /\ e.limit = f.limit
            BY <1>1 DEF IInv, RunsInv
        <3>2. e \in [values : Environments, limit : Limits] /\ f \in [values : Environments, limit : Limits]
            BY <1>1 DEF IInv, TypeOK
        <3> QED BY <3>1, <3>2
    <2>2. CASE ran[c] = {}
        BY <2>2, FS_EmptySet
    <2>3. CASE ran[c] # {}
        <3>1. PICK e \in ran[c] : TRUE
            BY <2>3
        <3>2. ran[c] = {e}
            BY <2>1, <3>1
        <3>3. Cardinality({e}) = 1
            BY FS_Singleton
        <3> QED BY <3>2, <3>3
    <2> QED BY <2>2, <2>3
<1> QED BY <1>1, PoolInvariant, PTL

---------------------------------------------------------------------------
(* The refinement. *)

LEMMA InitImplements == Init => Shared!Init
BY DEF Init, Shared!Init, Phase, Bound

\* What a caller sees of the others does not change where their places and the values of
\* their scanners do not.
LEMMA OthersUnseen ==
    ASSUME TypeOK, NEW c \in Callers,
           \A d \in Callers \ {c} : /\ pc'[d] = pc[d] /\ held'[d] = held[d]
                                    /\ d \in Working => scanner'[held[d]].values = scanner[held[d]].values
    PROVE  /\ [d \in Callers |-> Phase(d)]' = [[d \in Callers |-> Phase(d)] EXCEPT ![c] = Phase(c)']
           /\ [d \in Callers |-> Bound(d)]' = [[d \in Callers |-> Bound(d)] EXCEPT ![c] = Bound(c)']
<1>1. ASSUME NEW d \in Callers \ {c} PROVE Phase(d)' = Phase(d) /\ Bound(d)' = Bound(d)
    <2>0. pc'[d] = pc[d] /\ held'[d] = held[d] /\ d \in Callers
        BY <1>1
    <2>1. Phase(d)' = Phase(d)
        <3>1. pc[d] \in {"idle", "get", "refresh", "clone", "scan", "owner"}
            BY <2>0 DEF TypeOK
        <3>2. CASE pc[d] = "idle"
            BY <2>0, <3>2 DEF Phase
        <3>3. CASE pc[d] \in {"get", "refresh", "clone"}
            BY <2>0, <3>3 DEF Phase
        <3>4. CASE pc[d] = "scan"
            BY <2>0, <3>4 DEF Phase
        <3>5. CASE pc[d] = "owner"
            BY <2>0, <3>5 DEF Phase
        <3> QED BY <3>1, <3>2, <3>3, <3>4, <3>5
    <2>2. CASE Phase(d) \in {"bound", "owner"}
        <3>1. d \in Working
            BY <2>0, <2>2 DEF Phase, Working, TypeOK
        <3>2. scanner'[held'[d]].values = scanner[held[d]].values
            BY <2>0, <3>1
        <3> QED BY <2>1, <3>2 DEF Bound
    <2>3. CASE Phase(d) \notin {"bound", "owner"}
        BY <2>1, <2>3 DEF Bound
    <2> QED BY <2>2, <2>3
<1> QED BY <1>1

LEMMA StepImplements ==
    ASSUME IInv, [Next]_vars
    PROVE  [Shared!Next]_(Shared!vars)
<1> USE DEF IInv, TypeOK, Goto
<1> DEFINE phases == [d \in Callers |-> Phase(d)]
           bounds == [d \in Callers |-> Bound(d)]
           Others(c) == \A d \in Callers \ {c} :
                            /\ pc'[d] = pc[d] /\ held'[d] = held[d]
                            /\ d \in Working => scanner'[held[d]].values = scanner[held[d]].values
<1>0. ASSUME NEW c \in Callers, Others(c)
      PROVE  phases' = [phases EXCEPT ![c] = Phase(c)'] /\ bounds' = [bounds EXCEPT ![c] = Bound(c)']
    BY <1>0, OthersUnseen
<1>00. ASSUME NEW c \in Callers, phases' = [phases EXCEPT ![c] = Phase(c)'],
              bounds' = [bounds EXCEPT ![c] = Bound(c)'], Phase(c)' = Phase(c), Bound(c)' = Bound(c)
       PROVE  phases' = phases /\ bounds' = bounds
    BY <1>00
<1>1. ASSUME NEW v \in Environments \cup {Undeclared}, SetProgram(v) PROVE [Shared!Next]_(Shared!vars)
    <2>1. phases' = phases /\ bounds' = bounds /\ programValues' \in Environments
        BY <1>1 DEF SetProgram, Phase, Bound
    <2> QED BY <2>1 DEF Shared!Next, Shared!Set
<1>2. CASE Collect \/ UNCHANGED vars
    <2>1. phases' = phases /\ bounds' = bounds /\ programValues' = programValues
        BY <1>2 DEF Collect, vars, Phase, Bound
    <2> QED BY <2>1 DEF Shared!vars
<1>3. ASSUME NEW c \in Callers, Call(c) PROVE [Shared!Next]_(Shared!vars)
    <2>1. Others(c) /\ Phase(c) = "idle" /\ Phase(c)' = "waiting" /\ Bound(c)' = Bound(c) /\ programValues' = programValues
        BY <1>3 DEF Call, Phase, Bound
    <2> HIDE DEF phases, bounds
    <2> QED BY <1>0, <2>1 DEF Shared!Next, Shared!Begin, phases, bounds
<1>4. ASSUME NEW c \in Callers, GetPooled(c) PROVE [Shared!Next]_(Shared!vars)
    <2>1. Others(c) /\ Phase(c)' = Phase(c) /\ Bound(c)' = Bound(c) /\ programValues' = programValues
        BY <1>4 DEF GetPooled, Phase, Bound
    <2> QED BY <1>0, <1>00, <2>1 DEF Shared!vars
<1>5. ASSUME NEW c \in Callers, GetNew(c) PROVE [Shared!Next]_(Shared!vars)
    <2>1. PICK s \in Scanners, i \in Interpreters, n \in Limits, v \in Environments \cup {Undeclared} :
              NewScanner(c, s, i, n, v)
        BY <1>5, Building
    <2>2. \A d \in Working : held[d] # s
        BY <2>1, NewIsNowhere DEF NewScanner
    <2>3. Others(c) /\ programValues' = programValues
        BY <1>5, <2>1, <2>2 DEF GetNew, NewScanner, Working
    <2>4. Phase(c)' = Phase(c) /\ Bound(c)' = Bound(c)
        BY <1>5 DEF GetNew, Phase, Bound
    <2> QED BY <1>0, <1>00, <2>3, <2>4 DEF Shared!vars
<1>6. ASSUME NEW c \in Callers, Refresh(c) PROVE [Shared!Next]_(Shared!vars)
    <2>1. Others(c) /\ programValues' = programValues
        BY <1>6 DEF Refresh, HandsInv, Working
    <2>2. CASE programValues = NoValues
        <3>1. Phase(c) = "waiting" /\ Phase(c)' = "bound" /\ Bound(c)' = programValues
            BY <1>6, <2>2 DEF Refresh, Phase, Bound
        <3> QED BY <1>0, <2>1, <3>1 DEF Shared!Next, Shared!Bind
    <2>3. CASE programValues # NoValues
        <3>1. Phase(c)' = Phase(c) /\ Bound(c)' = Bound(c)
            BY <1>6, <2>3 DEF Refresh, Phase, Bound
        <3> QED BY <1>0, <1>00, <2>1, <3>1 DEF Shared!vars
    <2> QED BY <2>2, <2>3
<1>7. ASSUME NEW c \in Callers, Clone(c) PROVE [Shared!Next]_(Shared!vars)
    <2>1. Others(c) /\ programValues' = programValues
        BY <1>7 DEF Clone, HandsInv, Working
    <2>2. Phase(c) = "waiting" /\ Phase(c)' = "bound" /\ Bound(c)' = programValues
        BY <1>7 DEF Clone, Phase, Bound
    <2> QED BY <1>0, <2>1, <2>2 DEF Shared!Next, Shared!Bind
<1>8. ASSUME NEW c \in Callers, EvaluateRule(c) PROVE [Shared!Next]_(Shared!vars)
    <2>1. phases' = phases /\ bounds' = bounds /\ programValues' = programValues
        BY <1>8 DEF EvaluateRule, Phase, Bound
    <2> QED BY <2>1 DEF Shared!vars
<1>9. ASSUME NEW c \in Callers, ReleaseScanner(c) \/ Leave(c) PROVE [Shared!Next]_(Shared!vars)
    <2>1. Others(c) /\ programValues' = programValues
        BY <1>9 DEF ReleaseScanner, Leave
    <2>2. Phase(c) \in {"bound", "owner"} /\ Phase(c)' = "idle" /\ Bound(c)' = NoValues
        BY <1>9 DEF ReleaseScanner, Leave, Phase, Bound
    <2> QED BY <1>0, <2>1, <2>2 DEF Shared!Next, Shared!Return
<1>10. ASSUME NEW c \in Callers, Open(c) PROVE [Shared!Next]_(Shared!vars)
    <2>1. PICK s \in Scanners, i \in Interpreters, n \in Limits, v \in Environments \cup {Undeclared} :
              NewScanner(c, s, i, n, v)
        BY <1>10, Building
    <2>2. \A d \in Working : held[d] # s
        BY <2>1, NewIsNowhere DEF NewScanner
    <2>3. Others(c) /\ programValues' = programValues
        BY <1>10, <2>1, <2>2 DEF Open, NewScanner, Working
    <2>4. Phase(c) = "idle" /\ Phase(c)' = "owner"
        BY <1>10 DEF Open, Phase
    <2>5. Bound(c)' \in Environments
        BY <1>10, <2>1, <2>4 DEF Open, NewScanner, Bound
    <2> QED BY <1>0, <2>3, <2>4, <2>5 DEF Shared!Next, Shared!Open
<1>11. ASSUME NEW c \in Callers, Close(c) PROVE [Shared!Next]_(Shared!vars)
    <2>1. Others(c) /\ programValues' = programValues
        BY <1>11 DEF Close, HandsInv, Working
    <2>2. Phase(c) = "owner" /\ Phase(c)' = "owner"
        BY <1>11 DEF Close, Phase
    <2>3. Bound(c)' \in Environments
        BY <1>11, <2>2, EnvironmentAssumption DEF Close, Bound, Zero
    <2>4. phases' = phases
        BY <1>0, <2>1, <2>2
    <2> QED BY <1>0, <2>1, <2>2, <2>3, <2>4 DEF Shared!Next, Shared!Rebind
<1>12. ASSUME NEW c \in Callers, NEW v \in Environments \cup {Undeclared}, SetOwn(c, v)
       PROVE  [Shared!Next]_(Shared!vars)
    <2>1. Others(c) /\ programValues' = programValues
        BY <1>12 DEF SetOwn, HandsInv, Working
    <2>2. Phase(c) = "owner" /\ Phase(c)' = "owner"
        BY <1>12 DEF SetOwn, Phase
    <2>3. Bound(c)' \in Environments
        BY <1>12, <2>2 DEF SetOwn, Bound
    <2>4. phases' = phases
        BY <1>0, <2>1, <2>2
    <2> QED BY <1>0, <2>1, <2>2, <2>3, <2>4 DEF Shared!Next, Shared!Rebind
<1> QED BY <1>1, <1>2, <1>3, <1>4, <1>5, <1>6, <1>7, <1>8, <1>9, <1>10, <1>11, <1>12 DEF Next

\* A call of the program, and a scanner of one's own, work as SharedProgram promises,
\* whatever the other goroutines do (CompiledProgram.Scan, SetExternalVariables).
THEOREM PoolImplementsSharedProgram == Spec => ImplementsSharedProgram
<1>1. IInv /\ [Next]_vars => [Shared!Next]_(Shared!vars)
    BY StepImplements
<1> QED BY <1>1, InitImplements, PoolInvariant, PTL DEF Spec, ImplementsSharedProgram, Shared!Spec
=============================================================================
