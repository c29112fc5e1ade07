CONSTANTS
    Name = {m, n, p}
    InitName = {c}
    Private = {p, c}
    Member = {m, n}
    Par = {a, b}
    Sig <- PointerSig
    TD_LEVELS = 2
    InOrder = FALSE
    MaxUnit = 2
    MaxType = 3
    MaxDecl = 5
    MaxUse = 1
SYMMETRY MCSymmetry
SPECIFICATION Spec
INVARIANT InterfaceCalls
CHECK_DEADLOCK FALSE
