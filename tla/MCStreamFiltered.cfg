SPECIFICATION Spec
CONSTANTS
    t = t
    x = x
    y = y
    Patterns = {t, x, y}
    NumRules = 5
    Rule <- FilteredRules
    TagFilter = TRUE
    Pattern <- FilteredPatterns
    Inputs <- FilteredInputs
    ChunkSize = 1
    StreamOverlapSize = 2
    MinSpan = 1
    Margin = 1
    VerificationDistance = 2
    MaxMatchSpan = 0
    HeaderSize = 5
    FastScan = TRUE
    EarlyTermination = FALSE
    Fallible = {2}
    MaxScans = 2
INVARIANTS HeaderHoldsPrefix StreamAgreesWithBuffer
CHECK_DEADLOCK FALSE
