-------------------------------- MODULE Arc --------------------------------
(***************************************************************************)
(* Compiled Oberon code over the ARC runtime: what src/src/ORG.c emits for *)
(* NEW, assignment, comparison, call, construction and RETURN, executed    *)
(* one instruction at a time by the machine of ArcHeap.                    *)
(*                                                                         *)
(* The program is any program: at every statement boundary it may start    *)
(* any statement whose designators are in scope.  What the compiler fixes  *)
(* is the code each statement becomes (the *Code operators) and when a     *)
(* value or an address is loaded: designators and arguments are loaded     *)
(* left to right as they are parsed, so a value waits in `ctx`, unretained *)
(* when it is a +0 borrow, while later operands call other procedures.  A  *)
(* designator on the left of := or of a relation waits as an address, and  *)
(* a relation loads through it after the second operand.                   *)
(*                                                                         *)
(* CONSTANT Forms switches on the statement forms the emitted code does    *)
(* not balance or that leave a borrow unprotected; with Forms = {} the     *)
(* program has every other form.  All pointers have one record type.       *)
(***************************************************************************)
EXTENDS Integers, Sequences, FiniteSets

CONSTANTS Obj, Immortal, NIL, PtrOffsets, WeakField,
          Global,        \* pointer variables of the module
          Params,        \* value pointer parameters of a procedure, in order
          Locals,        \* its pointer locals, in order
          MaxLocalPtrs,  \* MAX_LOCAL_PTRS, 64 in ORG.c:133
          MaxDepth,      \* bound: procedure activations at once
          MaxCtx,        \* bound: expressions being evaluated at once
          Forms

AllForms == {"return call",   \* RETURN F(...)
             "array copy",    \* a := b for arrays of pointers
             "new weak",      \* NEW(w), w a WEAK POINTER
             "weak own",      \* w := F(...), w a WEAK POINTER
             "weak read",     \* p := w after the object of w was freed
             "late argument", \* m(p, F(...)), F called while the borrow p waits
             "late target",   \* p.f := F(...), p.f = F(...): the address of p.f waits
             "var field",     \* a field of a heap record as VAR actual
             "rec alias"}     \* p^ := p.f^

ASSUME ArcAssumption ==
    /\ Immortal \subseteq Obj /\ NIL \notin Obj
    /\ IsFiniteSet(Obj) /\ Obj \cap Int = {}
    /\ PtrOffsets \in Seq(STRING) /\ WeakField \subseteq STRING
    /\ \A i, j \in 1 .. Len(PtrOffsets) : PtrOffsets[i] = PtrOffsets[j] => i = j
    /\ \A i \in 1 .. Len(PtrOffsets) : PtrOffsets[i] \notin WeakField
    /\ Global \subseteq STRING /\ IsFiniteSet(Global)
    /\ Params \in Seq(STRING) /\ Locals \in Seq(STRING)
    /\ \A i, j \in 1 .. Len(Params \o Locals) :
          (Params \o Locals)[i] = (Params \o Locals)[j] => i = j
    /\ MaxLocalPtrs \in Nat /\ MaxDepth \in Nat /\ MaxCtx \in Nat
    /\ Forms \subseteq AllForms

FrameSlots(d) == {<<d, (Params \o Locals)[i]>> : i \in 1 .. Len(Params \o Locals)}
Globals       == {<<0, g>> : g \in Global}

\* Registers of compiled code: the value a function returned, the values a
\* store or a record copy holds in flight, and the operands of expression i.
Arity(kind) == IF kind = "call" \/ kind = "construct" THEN Len(Params)
               ELSE IF kind = "compare" THEN 2 ELSE 1
MaxArity    == IF Len(Params) > 2 THEN Len(Params) ELSE 2
Temp(i, k)  == <<-1 - i, k>>
Temps       == {Temp(0, k) : k \in 0 .. Len(PtrOffsets) + 1}
                 \cup {Temp(i, k) : i \in 1 .. MaxCtx, k \in 1 .. MaxArity}
Result      == Temp(0, 0)
Flight(k)   == Temp(0, k)

Frames == UNION {FrameSlots(d) : d \in 1 .. MaxDepth}
Root   == Globals \cup Frames \cup Temps

VARIABLES live, rc, mem, stale, cascade, fault,
          depth,   \* activations; 0 is the module body
          bind,    \* the slot each activation's VAR parameter stands for
          ctx,     \* expressions under evaluation, innermost last
          code     \* instructions of the current statement still to run

heapState == <<live, rc, mem, stale, cascade, fault>>
control   == <<depth, bind, ctx>>
vars      == <<live, rc, mem, stale, cascade, fault, depth, bind, ctx, code>>

INSTANCE ArcHeap

\* NIL is the address of no variable, register or field.
ASSUME NilAssumption == NIL \notin Slot

Heap(s)    == s[1] \in Obj
IsWeak(s)  == Heap(s) /\ s[2] \in WeakField
Top        == ctx[Len(ctx)]
Ready      == cascade = <<>> /\ code = <<>> /\ ~fault
Pending    == Result \notin stale
InStatement == ctx # <<>> /\ Top.at = depth
Wants      == InStatement /\ Len(Top.vals) < Arity(Top.kind)
Complete   == InStatement /\ Len(Top.vals) = Arity(Top.kind)
Boundary   == Ready /\ ~InStatement

\* Designators in scope: variables, then fields one dereference away.
Direct == (IF depth = 0 THEN {} ELSE FrameSlots(depth))
             \cup Globals
             \cup ({bind[d] : d \in {depth} \ {0}} \ {NIL})
Place  == Direct \cup {<<mem[s], f>> : s \in {t \in Direct : mem[t] # NIL},
                                       f \in StrongField \cup WeakField}

\* Between instructions a statement or an expression goes on with one of these.
InScope == IF Ready THEN Place ELSE {}

-----------------------------------------------------------------------------
(* Emitted instructions. *)
Retain(v, t) == [op |-> "retain", val |-> v, slot |-> t]     \* oc_retain
Drop(s)      == [op |-> "release", slot |-> s]               \* oc_release
Move(x, t)   == [op |-> "move", slot |-> x, from |-> t]      \* store a held value
Poke(x, v)   == [op |-> "poke", slot |-> x, val |-> v]       \* store, uncounted
Clear(x)     == [op |-> "clear", slot |-> x]                 \* store NIL in a new slot
Copy(o, q)   == [op |-> "copy", obj |-> o, from |-> q]        \* memcpy of a record body
Forget(S)    == [op |-> "forget", slots |-> S]               \* storage ends


ForEach(n, Op(_)) == [k \in 1 .. n |-> Op(k)]
PtrField(o, k)    == <<o, PtrOffsets[k]>>

\* Operand k of the innermost expression.  The slot holds the +1 reference
\* of an owned operand (ORG_Item b = 1) and is NIL and stale for a borrow, so
\* dropping the operands of an expression releases exactly the owned ones.  A
\* register or a frame word out of use is NIL: compiled code never reads it.
Operand(k)  == Temp(Len(ctx), k)
Owned(k)    == Operand(k) \notin stale

\* Mutant: releases one argument too many.
DropArgsPastEnd(i) ==
    LET D(k) == Drop(Temp(i, k))
        T == {Temp(i, k) : k \in 1 .. Arity(ctx[i].kind)}
    IN  ForEach(Arity(ctx[i].kind) + 1, D) \o <<Forget(T)>>

DropArgs(i) == LET D(k) == Drop(Temp(i, k))
                   T == {Temp(i, k) : k \in 1 .. Arity(ctx[i].kind)}
               IN  ForEach(Arity(ctx[i].kind), D) \o <<Forget(T)>>

\* Mutant: the displaced value is not released.
NewCodeKeepsOld(x, o) == <<Retain(o, Flight(1)), Move(x, Flight(1))>>

\* Mutant: the fresh object is stored and not retained.
NewCodeUncounted(x, o) == <<Drop(x), Poke(x, o)>>

(* ORG_New: the fresh object is retained before the old value is dropped. *)
NewCode(x, o) == <<Retain(o, Flight(1)), Drop(x), Move(x, Flight(1))>>

\* Mutant: the displaced value is released before the new one is retained.
StoreCodeReleaseFirst(x, v) ==
    IF IsWeak(x) THEN <<Poke(x, v), Forget({Operand(1)})>>
    ELSE IF Owned(1) THEN <<Drop(x), Move(x, Operand(1))>>
    ELSE <<Drop(x), Retain(v, Flight(1)), Move(x, Flight(1))>>

\* Mutant: a weak destination is counted.
StoreCodeCountsWeak(x, v) ==
    IF Owned(1) THEN <<Drop(x), Move(x, Operand(1))>>
    ELSE <<Retain(v, Flight(1)), Drop(x), Move(x, Flight(1))>>

(* ORG_Store and ORG_StoreIface: retain unless the value is owned, release *)
(* the displaced one, store.  A weak destination is stored to plainly.     *)
StoreCode(x, v) ==
    IF IsWeak(x) THEN <<Poke(x, v), Forget({Operand(1)})>>
    ELSE IF Owned(1) THEN <<Drop(x), Move(x, Operand(1))>>
    ELSE <<Retain(v, Flight(1)), Drop(x), Move(x, Flight(1))>>

(* oc_record_assign(dst, src, td): retains, releases, then the copy, which *)
(* reads src again.                                                        *)
RecordAssignCode(dst, src) ==
    LET n == Len(PtrOffsets)
        K(k) == Retain(mem[PtrField(src, k)], Flight(k))
        D(k) == Drop(PtrField(dst, k))
        M(k) == Move(PtrField(dst, k), Flight(k))
    IN  ForEach(n, K) \o ForEach(n, D) \o <<Copy(dst, src)>> \o ForEach(n, M)

\* Mutant: value parameters are stored and not retained.
EnterCodeBorrows(d, vals) ==
    LET P(k) == Poke(<<d, Params[k]>>, vals[k])
        L(k) == Clear(<<d, Locals[k]>>)
    IN  ForEach(Len(Params), P) \o ForEach(Len(Locals), L)

(* ORG_Enter: value pointer parameters are retained, pointer locals NIL. *)
EnterCode(d, vals) ==
    LET P(k) == Retain(vals[k], <<d, Params[k]>>)
        L(k) == Clear(<<d, Locals[k]>>)
    IN  ForEach(Len(Params), P) \o ForEach(Len(Locals), L)

(* The epilogue of ORG_Return: the tracked slots, of which there are at   *)
(* most MAX_LOCAL_PTRS, are released; then the frame is gone.             *)
LeaveCode(d) ==
    LET all == Params \o Locals
        n == IF Len(all) <= MaxLocalPtrs THEN Len(all) ELSE MaxLocalPtrs
        D(k) == Drop(<<d, all[k]>>)
    IN  ForEach(n, D) \o <<Forget(FrameSlots(d))>>

\* Mutant: the result is not retained before the locals go.
ResultCodeBorrows(v) == <<Poke(Result, v), Forget({Operand(1)})>>

(* What the return statement v adds in front: the result is retained,     *)
(* owned or not, before the locals go.                                    *)
ResultCode(v) == <<Retain(v, Result), Forget({Operand(1)})>>

-----------------------------------------------------------------------------
Init ==
    /\ HeapInit(Root \ Globals)
    /\ depth = 0
    /\ bind = [d \in 1 .. MaxDepth |-> NIL]
    /\ ctx = <<>>
    /\ code = <<>>

Emit(instrs) == /\ code' = instrs
                /\ UNCHANGED heapState

(* NEW(x).  oc_alloc runs at once; the rest of the statement is emitted. *)
New(x, o) ==
    /\ Boundary
    /\ x \in Place /\ ~Gone(x)
    /\ IsWeak(x) => "new weak" \in Forms
    /\ oc_alloc(o)
    /\ code' = NewCode(x, o)
    /\ UNCHANGED <<cascade, fault, depth, bind, ctx>>

(* p^ := q^ with both records on the heap. *)
RecordAssign(x, y) ==
    /\ Boundary
    /\ x \in Direct /\ y \in (IF "rec alias" \in Forms THEN Place ELSE Direct)
    /\ ~Gone(y) /\ ~IsWeak(x) /\ ~IsWeak(y)
    /\ mem[x] \in live /\ mem[y] \in live
    /\ Emit(RecordAssignCode(mem[x], mem[y]))
    /\ UNCHANGED control

(* a := b for arrays: ORG_StoreStruct copies the elements.  That is right   *)
(* for weak elements; "array copy" is the form with strong ones.            *)
ArrayAssign(x, y) ==
    /\ Boundary
    /\ x \in Place /\ y \in Place /\ ~Gone(x) /\ ~Gone(y)
    /\ IsWeak(x) = IsWeak(y)
    /\ ~IsWeak(x) => "array copy" \in Forms
    /\ Emit(<<Poke(x, mem[y])>>)
    /\ UNCHANGED control

\* What waits in expression i while later operands are evaluated: a borrowed
\* value (not a constructor's receiver: no other name reaches it yet), or the
\* address of a heap field.
BorrowWaits(i) ==
    \E k \in 1 .. Len(ctx[i].vals) :
        /\ ctx[i].vals[k] # NIL /\ Temp(i, k) \in stale
        /\ ~(ctx[i].kind = "construct" /\ k = 1)
TargetWaits(i) == ctx[i].dst # NIL /\ Heap(ctx[i].dst)
Mine == {i \in 1 .. Len(ctx) : ctx[i].at = depth}

\* An expression may start at a statement boundary or as an operand.
MayCall ==
    /\ depth < MaxDepth /\ Len(ctx) < MaxCtx
    /\ Ready /\ ~Pending
    /\ InStatement =>
         /\ Wants
         /\ Len(ctx) + 1 < MaxCtx          \* room for the callee's RETURN
         /\ Top.kind = "return" => "return call" \in Forms
         /\ (\E i \in Mine : BorrowWaits(i)) => "late argument" \in Forms
         /\ (\E i \in Mine : TargetWaits(i)) => "late target" \in Forms

Open(kind, dst, vals) ==
    /\ ctx' = Append(ctx, [kind |-> kind, at |-> depth, dst |-> dst, vals |-> vals])
    /\ UNCHANGED <<depth, bind>>

(* The left side of x := e, whose address is computed before e. *)
BeginStore(x) ==
    /\ Boundary /\ Len(ctx) < MaxCtx
    /\ x \in Place /\ ~Gone(x)
    /\ Open("store", x, <<>>)
    /\ UNCHANGED <<heapState, code>>

(* e1 = e2 and e1 # e2 with e1 NIL or a call: operands, then consume_arc. *)
BeginCompare ==
    /\ Boundary /\ Len(ctx) < MaxCtx
    /\ Open("compare", NIL, <<>>)
    /\ UNCHANGED <<heapState, code>>

(* x = e and x # e with x a designator: SimpleExpression returns the item of *)
(* x, an address, and the relation loads it when e is there (LoadItem). *)
BeginRelate(x) ==
    /\ Boundary /\ Len(ctx) < MaxCtx
    /\ x \in Place /\ ~Gone(x)
    /\ Open("relate", x, <<>>)
    /\ UNCHANGED <<heapState, code>>

(* ORG_PrepCall; v is the VAR actual, NIL for a procedure without one. *)
BeginCall(v) ==
    /\ MayCall
    /\ v \in {NIL} \cup (IF "var field" \in Forms THEN Place ELSE Direct)
    /\ v # NIL => /\ ~Gone(v) /\ ~IsWeak(v)
                  /\ Heap(v) => "var field" \in Forms
    /\ Open("call", v, <<>>)
    /\ UNCHANGED <<heapState, code>>

(* T.Create(...): ORG_InitItem allocates the hidden receiver, count 0. *)
BeginConstruct(o) ==
    /\ MayCall /\ InStatement
    /\ Len(Params) > 0                    \* the first is the receiver
    /\ oc_alloc(o)
    /\ Open("construct", NIL, <<o>>)
    /\ UNCHANGED <<cascade, fault, code>>

BeginReturn ==
    /\ Boundary /\ depth > 0 /\ Len(ctx) < MaxCtx
    /\ Len(ctx) > 1 /\ ctx[Len(ctx) - 1].at = depth - 1   \* called as a function
    /\ Open("return", NIL, <<>>)
    /\ UNCHANGED <<heapState, code>>

-----------------------------------------------------------------------------
(* Operands. *)
AddOperand(v, own) ==
    /\ ctx' = [ctx EXCEPT ![Len(ctx)].vals = Append(@, v)]
    /\ LET t == Operand(Len(Top.vals) + 1)
       IN  IF own THEN /\ mem' = [mem EXCEPT ![t] = v, ![Result] = NIL]
                       /\ stale' = (stale \cup {Result}) \ {t}
                  ELSE UNCHANGED <<mem, stale>>
    /\ UNCHANGED <<live, rc, cascade, fault, depth, bind, code>>

\* The fresh receiver of a construction is its first operand already; an
\* initialiser returns its receiver; a designator that starts a relation is
\* BeginRelate's.
Reads(s) ==
    /\ s \in Place
    /\ Top.kind = "compare" => Top.vals # <<>>
    /\ Top.kind = "return" /\ ctx[Len(ctx) - 1].kind = "construct" =>
          s = <<depth, Params[1]>>

(* A designator: NIL, or a value loaded and not retained. *)
Borrow(s) ==
    /\ Ready /\ ~Pending /\ Wants
    /\ Reads(s) /\ ~Gone(s)
    /\ mem[s] \in Obj /\ (mem[s] \in live => rc[mem[s]] = 0) => "weak read" \in Forms
    /\ AddOperand(mem[s], FALSE)

BorrowNil ==
    /\ Ready /\ ~Pending /\ Wants
    /\ ~(Top.kind = "return" /\ ctx[Len(ctx) - 1].kind = "construct")
    /\ AddOperand(NIL, FALSE)

(* Loading through an address whose object was freed. *)
BorrowFaults(s) ==
    /\ Ready /\ ~Pending /\ Wants
    /\ Reads(s) /\ Gone(s)
    /\ Undefined
    /\ UNCHANGED <<depth, bind, ctx, code>>

(* The result of the function call just made, at +1. *)
TakeResult ==
    /\ Ready /\ Pending /\ Wants
    /\ AddOperand(mem[Result], TRUE)

(* A C procedure hands in a static record (runtime.c:66-69).  Its count is *)
(* negative, so what is done with it counts nothing.                       *)
TakeStatic(o) ==
    /\ Ready /\ ~Pending /\ Wants
    /\ o \in Immortal
    /\ ~(Top.kind = "return" /\ ctx[Len(ctx) - 1].kind = "construct")
    /\ AddOperand(o, TRUE)

-----------------------------------------------------------------------------
(* The innermost expression has its operands. *)
Finish(kind) == Ready /\ ~Pending /\ Complete /\ Top.kind = kind

CloseTop == /\ ctx' = SubSeq(ctx, 1, Len(ctx) - 1)
            /\ UNCHANGED <<depth, bind>>

Store ==
    /\ Finish("store")
    /\ IsWeak(Top.dst) /\ mem[Operand(1)] # NIL => "weak own" \in Forms
    /\ Emit(StoreCode(Top.dst, Top.vals[1]))
    /\ CloseTop

(* Both operands are loaded, compared and, if owned, released. *)
Compare ==
    /\ Finish("compare") \/ Finish("relate")
    /\ Top.kind = "relate" => ~Gone(Top.dst)
    /\ Emit(DropArgs(Len(ctx)))
    /\ CloseTop

(* Loading the first operand from an object freed by the second's calls. *)
CompareFaults ==
    /\ Finish("relate")
    /\ Gone(Top.dst)
    /\ Undefined
    /\ UNCHANGED <<depth, bind, ctx, code>>

Enter ==
    /\ Finish("call") \/ Finish("construct")
    /\ depth < MaxDepth
    /\ depth' = depth + 1
    /\ bind' = [bind EXCEPT ![depth + 1] = Top.dst]
    /\ Emit(EnterCode(depth + 1, Top.vals))
    /\ UNCHANGED ctx

(* The epilogue of the callee and, after it, the release of the owned     *)
(* arguments by the caller (ORG_Call).                                    *)
LeaveTo(i, front) ==
    /\ Emit(front \o LeaveCode(depth) \o DropArgs(i))
    /\ depth' = depth - 1
    /\ bind' = [bind EXCEPT ![depth] = NIL]
    /\ ctx' = SubSeq(ctx, 1, i - 1)

ReturnValue ==
    /\ Finish("return")
    /\ depth > 0 /\ Len(ctx) > 1
    /\ Owned(1) => "return call" \in Forms
    /\ LeaveTo(Len(ctx) - 1, ResultCode(Top.vals[1]))

ReturnPlain ==
    /\ Boundary /\ depth > 0 /\ ctx # <<>>
    /\ ~(Len(ctx) > 1 /\ ctx[Len(ctx) - 1].at = depth - 1)
    /\ LeaveTo(Len(ctx), <<>>)

-----------------------------------------------------------------------------
(* One instruction. *)
Next1(op) == cascade = <<>> /\ ~fault /\ code # <<>> /\ Head(code).op = op
Step      == /\ code' = Tail(code)
             /\ UNCHANGED control
Trap      == /\ Undefined
             /\ UNCHANGED <<depth, bind, ctx, code>>

RunRetain ==
    /\ Next1("retain")
    /\ oc_retain(Head(code).val, Head(code).slot)
    /\ Step /\ UNCHANGED <<live, cascade, fault>>

RunRetainFaults ==
    /\ Next1("retain") /\ Head(code).val \in Obj \ live
    /\ Trap

RunDrop ==
    /\ Next1("release")
    /\ cascade' = <<Release(Head(code).slot)>>
    /\ Step /\ UNCHANGED <<live, rc, mem, stale, fault>>

(* The held reference becomes the destination's; nothing is counted. *)
RunMove ==
    /\ Next1("move")
    /\ LET x == Head(code).slot
           t == Head(code).from
       IN  IF Gone(x) THEN Trap
           ELSE /\ mem' = [mem EXCEPT ![x] = mem[t], ![t] = NIL]
                /\ stale' = (stale \cup {t}) \ {x}
                /\ Step /\ UNCHANGED <<live, rc, cascade, fault>>

RunPoke ==
    /\ Next1("poke")
    /\ LET x == Head(code).slot
       IN  IF Gone(x) THEN Trap
           ELSE /\ mem' = [mem EXCEPT ![x] = Head(code).val]
                /\ stale' = stale \ {x}
                /\ Step /\ UNCHANGED <<live, rc, cascade, fault>>

RunClear ==
    /\ Next1("clear")
    /\ mem' = [mem EXCEPT ![Head(code).slot] = NIL]
    /\ stale' = stale \ {Head(code).slot}
    /\ Step /\ UNCHANGED <<live, rc, cascade, fault>>

(* The counted words of the body follow as moves of the values retained. *)
RunCopy ==
    /\ Next1("copy")
    /\ LET o == Head(code).obj
           q == Head(code).from
       IN  /\ {o, q} \subseteq live
           /\ mem' = [s \in Slot |-> IF s[1] = o /\ IsWeak(s) THEN mem[<<q, s[2]>>]
                                                              ELSE mem[s]]
    /\ Step /\ UNCHANGED <<live, rc, stale, cascade, fault>>

RunCopyFaults ==
    /\ Next1("copy")
    /\ ~({Head(code).obj, Head(code).from} \subseteq live)
    /\ Trap

RunForget ==
    /\ Next1("forget")
    /\ mem' = [s \in Slot |-> IF s \in Head(code).slots THEN NIL ELSE mem[s]]
    /\ stale' = stale \cup Head(code).slots
    /\ Step /\ UNCHANGED <<live, rc, cascade, fault>>

RunCascade == /\ ~fault /\ CascadeStep
              /\ UNCHANGED <<depth, bind, ctx, code>>

Run == \/ RunRetain \/ RunRetainFaults \/ RunDrop \/ RunMove \/ RunPoke
       \/ RunClear \/ RunCopy \/ RunCopyFaults \/ RunForget
       \/ RunCascade

Statement ==
    \/ \E x \in InScope, o \in Obj : New(x, o)
    \/ \E x, y \in InScope : RecordAssign(x, y) \/ ArrayAssign(x, y)
    \/ \E x \in InScope : BeginStore(x) \/ BeginRelate(x)
    \/ \E v \in InScope \cup {NIL} : BeginCall(v)
    \/ \E o \in Obj : BeginConstruct(o)
    \/ BeginCompare \/ BeginReturn
    \/ \E s \in InScope : Borrow(s) \/ BorrowFaults(s)
    \/ BorrowNil \/ TakeResult
    \/ \E o \in Immortal : TakeStatic(o)
    \/ Store \/ Compare \/ CompareFaults \/ Enter \/ ReturnValue \/ ReturnPlain

Next == Statement \/ Run

Spec == Init /\ [][Next]_vars
FairSpec == Spec /\ WF_vars(Run)

-----------------------------------------------------------------------------
(* Properties. *)

Value   == Obj \cup {NIL}
Kinds   == {"store", "relate", "compare", "call", "construct", "return"}
Context == [kind : Kinds, at : 0 .. MaxDepth, dst : Slot \cup {NIL}, vals : Seq(Value)]
Instr   == [op : {"retain"}, val : Value, slot : Root]
             \cup [op : {"release", "clear"}, slot : Slot]
             \cup [op : {"move"}, slot : Slot, from : Root]
             \cup [op : {"poke"}, slot : Slot, val : Value]
             \cup [op : {"copy"}, obj : Obj, from : Obj]
             \cup [op : {"forget"}, slots : SUBSET Root]

TypeOK ==
    /\ live \in SUBSET Obj
    /\ rc \in [Obj -> Int]
    /\ mem \in [Slot -> Value]
    /\ stale \in SUBSET Slot
    /\ cascade \in Seq(CascadeOp)
    /\ fault \in BOOLEAN
    /\ depth \in 0 .. MaxDepth
    /\ bind \in [1 .. MaxDepth -> Slot \cup {NIL}]
    /\ ctx \in Seq(Context) /\ Len(ctx) <= MaxCtx
    /\ \A i \in 1 .. Len(ctx) :
          /\ Len(ctx[i].vals) <= Arity(ctx[i].kind)
          /\ ctx[i].kind \in {"store", "relate"} => ctx[i].dst \in Slot
    /\ code \in Seq(Instr)

(* The count in an object's header is the number of slots that own a      *)
(* reference to it, at every instruction: no retain or release is missing *)
(* or made twice (runtime.c:12-15).                                       *)
RefcountExact ==
    \A o \in live : rc[o] >= 0 => rc[o] = Cardinality(Holders(o))

(* The count never falls below the owners: what the forms "return call"   *)
(* and "weak own" lose is leaked, not freed under its owners.             *)
CountCovers ==
    \A o \in live : rc[o] >= 0 => rc[o] >= Cardinality(Holders(o))

(* No slot that owns a reference points at freed memory. *)
NoDangling == \A s \in Owning : mem[s] \in live \cup {NIL}

(* Compiled code never touches a freed object nor releases a reference    *)
(* twice.                                                                 *)
NoFault == ~fault

\* Objects that strong fields lead to from a variable or a register in use,
\* from a static record, or from an object constructed and not yet retained by
\* its initialiser: those in every set that holds these and is closed.
Strong(o) == {mem[<<o, f>>] : f \in StrongField} \ {NIL}
Unborn    == {o \in live : rc[o] = 0 /\ \E i \in 1 .. Len(ctx) :
                             ctx[i].kind = "construct" /\ ctx[i].vals[1] = o}
Anchored  == live \cap ({mem[s] : s \in Root \ stale} \cup Immortal \cup Unborn)
Closed(S) == Anchored \subseteq S /\ \A o \in S : Strong(o) \cap live \subseteq S
Garbage   == {o \in live : \E S \in SUBSET live : Closed(S) /\ o \notin S}

(* Between statements an object that no variable leads to is kept only by *)
(* a cycle of strong fields: every piece of garbage is held by garbage    *)
(* (README.md:36-40, "Cycles: leak silently"; nothing else may leak).     *)
OnlyCyclesLeak ==
    Ready => \A o \in Garbage : \E q \in Garbage : o \in Strong(q)

(* free runs only on an object no slot owns a reference to. *)
FreesUnheld ==
    [][\A o \in live \ live' : Holders(o) = {}]_vars

(* A release cascade ends, also through cyclic structures, and the        *)
(* statement that started it completes.                                   *)
StatementsEnd == (code # <<>>) ~> (Ready \/ fault)
=============================================================================
