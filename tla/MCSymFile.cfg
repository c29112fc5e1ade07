CONSTANTS
    Module = {"A", "B", "C", "D"}
    Sources <- RunPrograms
    NONE = NONE
SPECIFICATION Spec
INVARIANTS OneType SameLayout HomeName Returns
CHECK_DEADLOCK FALSE
