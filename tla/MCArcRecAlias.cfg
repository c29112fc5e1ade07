CONSTANTS
    NIL = NIL
    Obj = {a1, a2}
    Immortal = {}
    PtrOffsets <- MCPtrOffsets1
    WeakField = {}
    Global = {"g"}
    Params <- MCParams
    Locals <- MCNone
    MaxLocalPtrs = 64
    MaxDepth = 0
    MaxCtx = 1
    Forms = {"rec alias"}
SPECIFICATION Spec
SYMMETRY Sym
INVARIANTS NoFault
CHECK_DEADLOCK FALSE
