SPECIFICATION Spec
CONSTANTS
    t = t
    x = x
    y = y
    Patterns = {t, x, y}
    NumRules = 5
    Rule <- CoreRules
    TagFilter = FALSE
    Pattern <- Owned
    Spaces <- CoreSpaces
    Blocks <- CoreBlocks
    FileSizes = {3}
    ReadWidth = 2
    FastScan = TRUE
    Fallible = {3}
    MaxBlocks = 3
INVARIANTS DefaultFileSize AccumulatesBlocks CoveredAgreesWithBuffer
PROPERTY ImplementsContract
CHECK_DEADLOCK FALSE
