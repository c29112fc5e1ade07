CONSTANTS
    NIL = NIL
    Name = {a, b}
    File = {f1, f2}
    Rider = {r}
    Byte = {0, 1}
    MaxLen = 2
SPECIFICATION Spec
PROPERTY RegisterReplaces
CHECK_DEADLOCK FALSE
