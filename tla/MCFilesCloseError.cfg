CONSTANTS
    NIL = NIL
    Name = {a, b}
    File = {f1, f2}
    Rider = {r}
    Byte = {0, 1}
    MaxLen = 2
SPECIFICATION Spec
SYMMETRY Sym
PROPERTY CleanIsFlushed
CHECK_DEADLOCK FALSE
