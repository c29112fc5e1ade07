CONSTANTS
    NIL = NIL
    Obj = {a1}
    Immortal = {}
    PtrOffsets <- MCPtrOffsets1
    WeakField = {}
    Global = {}
    Params <- MCParams
    Locals <- MCLocals
    MaxLocalPtrs = 64
    MaxDepth = 2
    MaxCtx = 4
    Forms = {"return call", "late argument", "late target", "var field"}
SPECIFICATION Spec
INVARIANTS CountCovers NoDangling
CHECK_DEADLOCK FALSE
