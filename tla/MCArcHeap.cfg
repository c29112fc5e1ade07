CONSTANTS
    NIL = NIL
    Obj = {a1, a2, s1}
    Immortal = {s1}
    PtrOffsets <- MCPtrOffsets1
    WeakField = {"up"}
    Global = {"g"}
    Params <- MCParams
    Locals <- MCNone
    MaxLocalPtrs = 64
    MaxDepth = 0
    MaxCtx = 1
    Forms = {"weak read", "rec alias"}
SPECIFICATION Spec
SYMMETRY Sym
INVARIANTS RefcountExact OnlyCyclesLeak
CHECK_DEADLOCK FALSE
