CONSTANTS
    Name = {m, n, p}
    InitName = {m, n, p}
    Private = {p}
    Member = {m, n}
    Par = {a, b}
    Sig <- PointerSig
    TD_LEVELS = 2
    InOrder = TRUE
    MaxUnit = 2
    MaxType = 3
    MaxDecl = 5
    MaxUse = 1
SYMMETRY MCSymmetry
SPECIFICATION Spec
INVARIANTS CallsOverride InterfaceCalls TypeTests NoBareObject ChainedInits
CHECK_DEADLOCK FALSE
