CONSTANTS
    Browser = {b1, b2}
    Editor = {b1}
    Base <- Flat
    Dir = {""}
    Name = {f, g}
    Text <- TwoTexts
    Id = {q1, q2}
    Inode = {1, 2, 3, 4, 5, 6}
    SharedSave = FALSE
    MaxRequest = 3
    MaxFault = 1
    NONE = NONE
SYMMETRY Symmetric
SPECIFICATION Spec
INVARIANTS CleanIsSaved NoLeftovers
PROPERTY AtomicStore
CHECK_DEADLOCK FALSE
