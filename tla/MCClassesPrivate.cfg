CONSTANTS
    Name = {m}
    InitName = {c}
    Private = {m, c}
    Member = {m}
    Par = {a, b}
    Sig <- PointerSig
    TD_LEVELS = 2
    InOrder = TRUE
    MaxUnit = 2
    MaxType = 3
    MaxDecl = 5
    MaxUse = 1
SYMMETRY MCSymmetry
SPECIFICATION Spec
INVARIANT InterfaceCalls
CHECK_DEADLOCK FALSE
