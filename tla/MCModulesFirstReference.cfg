CONSTANTS
    NIL = NIL
    Name = {A, B}
    Manifest = {A}
    Dylib = {A, B}
    Desc = {d1, d2}
    Var = {x}
    MaxRefcnt = 2
SPECIFICATION Spec
SYMMETRY Sym
INVARIANT RuntimeTakesFirst
CHECK_DEADLOCK FALSE
