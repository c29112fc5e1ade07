CONSTANTS
    NIL = NIL
    Obj = {a1, a2}
    Immortal = {}
    PtrOffsets <- MCPtrOffsets1
    WeakField = {}
    Global = {"g"}
    Params <- MCParams
    Locals <- MCNone
    MaxLocalPtrs = 64
    MaxDepth = 1
    MaxCtx = 3
    Forms = {}
SPECIFICATION FairSpec
INVARIANTS TypeOK NoFault IInv ZeroClaimed Sound
PROPERTIES FreesUnheld StatementsEnd
