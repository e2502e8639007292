SPECIFICATION Spec
CONSTANTS
    t = t
    x = x
    y = y
    Patterns = {t, x, y}
    NumRules = 4
    Rule <- EarlyRules
    TagFilter = FALSE
    Pattern <- EarlyPatterns
    Inputs <- EarlyInputs
    ChunkSize = 1
    StreamOverlapSize = 0
    MinSpan = 1
    Margin = 2
    VerificationDistance = 1
    MaxMatchSpan = 0
    HeaderSize = 5
    FastScan = FALSE
    EarlyTermination = TRUE
    Fallible = {2}
    MaxScans = 1
INVARIANTS EarlyAnswerAgrees EarlyRuleIsConfirmed
PROPERTY EarlyExitIsPrompt
CHECK_DEADLOCK FALSE
