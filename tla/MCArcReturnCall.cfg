CONSTANTS
    NIL = NIL
    Obj = {a1}
    Immortal = {}
    PtrOffsets <- MCPtrOffsets1
    WeakField = {}
    Global = {"g"}
    Params <- MCParams
    Locals <- MCNone
    MaxLocalPtrs = 64
    MaxDepth = 2
    MaxCtx = 5
    Forms = {"return call"}
SPECIFICATION Spec
SYMMETRY Sym
INVARIANTS RefcountExact
CHECK_DEADLOCK FALSE
