CONSTANTS
    NIL = NIL
    Obj = {a1, a2}
    Immortal = {}
    PtrOffsets <- MCPtrOffsets1
    WeakField = {}
    Global = {"g"}
    Params <- MCParams2
    Locals <- MCNone
    MaxLocalPtrs = 64
    MaxDepth = 1
    MaxCtx = 3
    Forms = {"late argument"}
SPECIFICATION Spec
SYMMETRY Sym
INVARIANTS NoFault
CHECK_DEADLOCK FALSE
