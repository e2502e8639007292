--------------------------- MODULE BlockContract ---------------------------
(***************************************************************************)
(* What a caller of compiler.BlockScanner relies on.  Scan supplies one    *)
(* block of an address space; Finish answers with the rules that match     *)
(* everything supplied since the last Reset, in whatever order and however *)
(* often it came.  A call that fails has a cause.  A block whose Scan      *)
(* failed may be supplied in part: until it is scanned again with success, *)
(* answers are not determined.                                             *)
(***************************************************************************)
EXTENDS Integers

CONSTANTS
    NoBlock,            \* no Scan is under way
    Rules,              \* the rules of the program
    Fallible,           \* some condition may exceed the limit of the interpreter
    ReportFor(_, _, _)  \* the rules that match blocks of a space at a file size

VARIABLES
    space,      \* the address space the caller is describing
    supplied,   \* blocks whose Scan succeeded
    doubtful,   \* blocks whose Scan failed
    override,   \* SetFileSize, or -1
    open,       \* Close was not called
    request,    \* the block of the Scan under way
    cancelled,  \* the context of the call under way was cancelled
    status,     \* "ready", "scanning", "finishing", "added", "reported", "error"
    rules       \* the rules of the last answer

vars == <<space, supplied, doubtful, override, open, request, cancelled, status, rules>>

Idle == status \notin {"scanning", "finishing"}

Init ==
    /\ supplied = {} /\ doubtful = {} /\ override = -1 /\ open = TRUE
    /\ request = NoBlock /\ cancelled = FALSE /\ status = "ready" /\ rules = {}

\* Nothing is supplied by a call that is refused: a closed scanner, a bad argument,
\* or a context that is already cancelled.
Refuse ==
    /\ Idle
    /\ status' = "error" /\ rules' = {}
    /\ UNCHANGED <<space, supplied, doubtful, override, open, request, cancelled>>

SetFileSize ==
    /\ Idle
    /\ override' >= 0
    /\ status' = "ready" /\ rules' = {}
    /\ UNCHANGED <<space, supplied, doubtful, open, request, cancelled>>

Call ==
    /\ Idle /\ open
    /\ \/ status' = "scanning" /\ request' # NoBlock
       \/ status' = "finishing" /\ request' = NoBlock
    /\ cancelled' = FALSE /\ rules' = {}
    /\ UNCHANGED <<space, supplied, doubtful, override, open>>

Cancel ==
    /\ ~Idle /\ ~cancelled
    /\ cancelled' = TRUE
    /\ UNCHANGED <<space, supplied, doubtful, override, open, request, status, rules>>

Added ==
    /\ status = "scanning"
    /\ status' = "added" /\ request' = NoBlock
    /\ supplied' = supplied \cup {request} /\ doubtful' = doubtful \ {request}
    /\ UNCHANGED <<space, override, open, cancelled, rules>>

Broken ==
    /\ status = "scanning" /\ cancelled
    /\ status' = "error" /\ request' = NoBlock
    /\ doubtful' = doubtful \cup ({request} \ supplied)
    /\ UNCHANGED <<space, supplied, override, open, cancelled, rules>>

Answered ==
    /\ status = "finishing"
    /\ status' = "reported"
    /\ rules' \subseteq Rules
    /\ doubtful = {} => rules' = ReportFor(space, supplied, override)
    /\ UNCHANGED <<space, supplied, doubtful, override, open, request, cancelled>>

Unanswered ==
    /\ status = "finishing" /\ (cancelled \/ Fallible)
    /\ status' = "error"
    /\ UNCHANGED <<space, supplied, doubtful, override, open, request, cancelled, rules>>

\* Reset starts another input; Close ends the use of the scanner.
Clear ==
    /\ Idle
    /\ supplied' = {} /\ doubtful' = {} /\ override' = -1
    /\ status' = "ready" /\ rules' = {}
    /\ open' => open
    /\ UNCHANGED <<request, cancelled>>

Next ==
    \/ Refuse \/ SetFileSize \/ Call \/ Cancel \/ Clear
    \/ Added \/ Broken \/ Answered \/ Unanswered

Spec == Init /\ [][Next]_vars
=============================================================================
