SPECIFICATION FairSpec
CONSTANTS
    t = t
    x = x
    y = y
    Patterns = {t, x, y}
    NumRules = 5
    Rule <- CoreRules
    TagFilter = FALSE
    Pattern <- CorePatterns
    Inputs <- CoreInputs
    ChunkSize = 2
    StreamOverlapSize = 0
    MinSpan = 1
    Margin = 1
    VerificationDistance = 1
    MaxMatchSpan = 0
    HeaderSize = 3
    FastScan = FALSE
    EarlyTermination = FALSE
    Fallible = {3}
    MaxScans = 1
INVARIANTS KeepsExactlySettled NeverOwnedTwice
PROPERTIES ScanReturns ImplementsContract
CHECK_DEADLOCK FALSE
