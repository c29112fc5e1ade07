CONSTANTS
    Module = {"A", "B", "C", "D"}
    Sources <- AllPrograms
    NONE = NONE
SPECIFICATION Spec
INVARIANT Returns
CHECK_DEADLOCK FALSE
