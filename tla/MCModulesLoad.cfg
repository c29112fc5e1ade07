CONSTANTS
    NIL = NIL
    Name = {A, B, C}
    Manifest = {A}
    Dylib = {A, B}
    Desc = {d1, d2, d3}
    Var = {x, y}
    MaxRefcnt = 2
SPECIFICATION Spec
SYMMETRY Sym
INVARIANTS TypeOK TableIsList CountsHold
PROPERTY KeepsUse
CHECK_DEADLOCK FALSE
