SPECIFICATION Spec
CONSTANTS
    t = t
    x = x
    y = y
    Patterns = {t, x}
    NumRules = 2
    Rule <- NegatedReferenceRules
    TagFilter = FALSE
    Pattern <- TwoRulePatterns
    Inputs <- TwoRuleInputs
    ChunkSize = 1
    StreamOverlapSize = 0
    MinSpan = 1
    Margin = 1
    VerificationDistance = 1
    MaxMatchSpan = 0
    HeaderSize = 4
    FastScan = FALSE
    EarlyTermination = TRUE
    Fallible = {}
    MaxScans = 1
INVARIANTS EarlyAnswerAgrees
CHECK_DEADLOCK FALSE
