SPECIFICATION FairSpec
CONSTANTS
    m = m
    a = a
    s = s
    nowhere = nowhere
    top = top
    sub = sub
    toM = toM
    toA = toA
    toS = toS
    A = A
    B = B
    C = C
    D = D
    E = E
    Files = {m, a, s}
    Dirs = {top, sub}
    Paths = {toM, toA, toS}
    Names = {A, B, C, D, E}
    DirOf <- MCDirOf
    Resolve <- MCResolve
    Below <- MCBelow
    NoFile = nowhere
    WorkDir = top
    Disks <- MCDisks
    MaxCalls = 2
INVARIANTS
    NoFileOpenTwice
    CompiledIsClosed
    AnswerIsRight
    KeepsExactlySound
PROPERTY
    CompileReturns
CHECK_DEADLOCK FALSE
