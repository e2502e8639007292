SPECIFICATION Spec
CONSTANTS
    Width = 8
    Externals = {1, 2}
    IterLimit = 5
    Strings = {1, 2}
    Conditions <- AllConditions
    Inputs <- SomeInputs
INVARIANTS
    WrittenIsRead
    VerdictIsMeaning
    PruningIsSound
PROPERTY
    EvaluationEnds
CHECK_DEADLOCK FALSE
