CONSTANTS
    NIL = NIL
    Name = {a, b}
    File = {f1, f2}
    Rider = {r}
    Byte = {1}
    MaxLen = 2
SPECIFICATION Spec
SYMMETRY Sym
INVARIANTS TypeOK CleanIsStored
CHECK_DEADLOCK FALSE
