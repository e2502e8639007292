--------------------------- MODULE ReaderContract ---------------------------
(***************************************************************************)
(* What Scanner.ScanReaderWithContext promises its caller: every call gets *)
(* one answer, the rules that match the bytes of the reader whatever way   *)
(* it cuts them, or an error, and an error only when the context was       *)
(* cancelled, the reader failed, the rule set cannot be streamed, or it    *)
(* has a condition that may fail when it is run.  What the scanner did     *)
(* before has no influence on an answer.                                   *)
(***************************************************************************)
EXTENDS Naturals

CONSTANTS
    NoInput,        \* before the first scan
    Unstreamable,   \* the rule set has a regex without a finite horizon
    Fallible,       \* some condition may exceed the limits of the interpreter
    MaxScans,       \* bound: scans made with one Scanner
    ReportFor(_)    \* the matched rules of an input scanned as one buffer

VARIABLES
    input,      \* what the reader delivers; input.fault says how it ends
    cancelled,  \* the context was cancelled
    status,     \* "idle", "running", "ok" or "error"
    rules,      \* the rules of the answer
    scans       \* how many scans were started

vars == <<input, cancelled, status, rules, scans>>

Init == /\ input = NoInput /\ cancelled = FALSE
        /\ status = "idle" /\ rules = {} /\ scans = 0

\* The caller passes any reader.
Begin ==
    /\ status # "running" /\ scans < MaxScans
    /\ scans' = scans + 1
    /\ cancelled' = FALSE
    /\ status' = IF Unstreamable THEN "error" ELSE "running"
    /\ rules' = {}

Cancel ==
    /\ status = "running" /\ ~cancelled
    /\ cancelled' = TRUE
    /\ UNCHANGED <<input, status, rules, scans>>

Answer ==
    /\ status = "running" /\ input.fault = "none"
    /\ status' = "ok" /\ rules' = ReportFor(input)
    /\ UNCHANGED <<input, cancelled, scans>>

Fail ==
    /\ status = "running" /\ (cancelled \/ input.fault # "none" \/ Fallible)
    /\ status' = "error" /\ rules' = {}
    /\ UNCHANGED <<input, cancelled, scans>>

Next == Begin \/ Cancel \/ Answer \/ Fail

Spec == Init /\ [][Next]_vars
=============================================================================
