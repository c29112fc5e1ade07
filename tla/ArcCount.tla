------------------------------ MODULE ArcCount ------------------------------
(***************************************************************************)
(* Counts cover the owners, and are exact when no form leaks: proved for   *)
(* every set of objects, record layout, frame and bounds, for programs in  *)
(* the balanced forms whose procedures have at most MAX_LOCAL_PTRS         *)
(* pointers.  First the types of Arc, and lemmas about its words and its   *)
(* emitted code.  IInv of ArcInv is the inductive invariant: each          *)
(* instruction and each release preserves it because the code and the      *)
(* cascade still to run are safe, and each statement because what it emits *)
(* is safe.                                                                *)
(***************************************************************************)
EXTENDS ArcInv, FiniteSetTheorems, SequenceTheorems, TLAPS

-----------------------------------------------------------------------------
(* Facts about slots and emitted code. *)

\* A function on 1 .. n is a sequence of length n.
LEMMA FcnIsSeq ==
    ASSUME NEW S, NEW n \in Nat, NEW f \in [1 .. n -> S]
    PROVE  f \in Seq(S) /\ Len(f) = n
  OBVIOUS

\* How the sets of words lie in one another.
LEMMA SlotFacts ==
    /\ Temps \subseteq Root /\ Frames \subseteq Root /\ Globals \subseteq Root
    /\ Root \subseteq StrongSlot /\ StrongSlot \subseteq Slot
    /\ \A o \in Obj, f \in StrongField \cup WeakField : <<o, f>> \in Slot
    /\ \A d \in 1 .. MaxDepth : FrameSlots(d) \subseteq Frames
  BY DEF Temps, Frames, Globals, Root, StrongSlot, Slot

\* The registers exist, and no expression has more operands than registers.
LEMMA TempFacts ==
    /\ MaxArity \in Nat
    /\ \A k \in 0 .. Len(PtrOffsets) + 1 : Temp(0, k) \in Temps
    /\ \A i \in 1 .. MaxCtx, k \in 1 .. MaxArity : Temp(i, k) \in Temps
    /\ \A kind : Arity(kind) \in 1 .. MaxArity \/ (Arity(kind) = 0 /\ Len(Params) = 0)
    /\ \A kind : Arity(kind) \in Nat /\ Arity(kind) <= MaxArity
  <1>1. Len(Params) \in Nat
    BY ArcAssumption
  <1> QED
    BY <1>1 DEF Temps, MaxArity, Arity, Temp

\* Designators are slots, and what they hold is a value.
LEMMA PlaceFacts ==
    ASSUME TypeOK
    PROVE  /\ Direct \subseteq Slot
           /\ Place \subseteq Slot
           /\ \A s \in Place : mem[s] \in Value
  <1>1. depth # 0 => FrameSlots(depth) \subseteq Slot
    <2> SUFFICES ASSUME depth # 0 PROVE FrameSlots(depth) \subseteq Slot
      OBVIOUS
    <2>1. depth \in 1 .. MaxDepth
      BY ArcAssumption DEF TypeOK
    <2> QED
      BY <2>1, SlotFacts
  <1>2. {bind[d] : d \in {depth} \ {0}} \ {NIL} \subseteq Slot
    BY ArcAssumption DEF TypeOK
  <1>3. Direct \subseteq Slot
    BY <1>1, <1>2, SlotFacts DEF Direct
  <1>4. \A t \in Direct : mem[t] # NIL => mem[t] \in Obj
    BY <1>3 DEF TypeOK, Value
  <1>5. Place \subseteq Slot
    BY <1>3, <1>4, SlotFacts DEF Place
  <1> QED
    BY <1>3, <1>5 DEF TypeOK

\* The code of NEW is code.
LEMMA NewCodeType ==
    ASSUME NEW x \in Slot, NEW o \in Obj
    PROVE  NewCode(x, o) \in Seq(Instr)
  <1>1. Flight(1) \in Root
    BY SlotFacts, TempFacts, ArcAssumption DEF Flight
  <1> QED
    BY <1>1, SlotFacts DEF NewCode, Retain, Drop, Move, Instr, Value

\* So is that of an assignment,
LEMMA StoreCodeType ==
    ASSUME NEW x \in Slot, NEW v \in Value, Operand(1) \in Root
    PROVE  StoreCode(x, v) \in Seq(Instr)
  <1>1. Flight(1) \in Root
    BY SlotFacts, TempFacts, ArcAssumption DEF Flight
  <1>2. <<Poke(x, v), Forget({Operand(1)})>> \in Seq(Instr)
    BY DEF Poke, Forget, Instr
  <1>3. <<Drop(x), Move(x, Operand(1))>> \in Seq(Instr)
    BY DEF Drop, Move, Instr
  <1>4. <<Retain(v, Flight(1)), Drop(x), Move(x, Flight(1))>> \in Seq(Instr)
    BY <1>1 DEF Retain, Drop, Move, Instr
  <1> QED
    BY <1>2, <1>3, <1>4 DEF StoreCode

\* of the value of a RETURN,
LEMMA ResultCodeType ==
    ASSUME NEW v \in Value, Operand(1) \in Root
    PROVE  ResultCode(v) \in Seq(Instr)
  <1>1. Result \in Root
    BY SlotFacts, TempFacts, ArcAssumption DEF Result
  <1> QED
    BY <1>1 DEF ResultCode, Retain, Forget, Instr

\* of a record assignment,
LEMMA RecordAssignCodeType ==
    ASSUME TypeOK, NEW o \in Obj, NEW q \in Obj
    PROVE  RecordAssignCode(o, q) \in Seq(Instr)
  <1> DEFINE n == Len(PtrOffsets)
  <1>1. n \in Nat
    BY ArcAssumption
  <1>2. \A k \in 1 .. n : Flight(k) \in Root
    BY SlotFacts, TempFacts, ArcAssumption DEF Flight
  <1>3. \A k \in 1 .. n, a \in Obj : PtrField(a, k) \in Slot
    BY SlotFacts DEF PtrField, StrongField
  <1>4. \A k \in 1 .. n : mem[PtrField(q, k)] \in Value
    BY <1>3 DEF TypeOK
  <1> HIDE DEF n
  <1>5. [k \in 1 .. n |-> Retain(mem[PtrField(q, k)], Flight(k))] \in Seq(Instr)
    BY <1>1, <1>2, <1>4, FcnIsSeq DEF Retain, Instr
  <1>6. [k \in 1 .. n |-> Drop(PtrField(o, k))] \in Seq(Instr)
    BY <1>1, <1>3, FcnIsSeq DEF Drop, Instr
  <1>7. [k \in 1 .. n |-> Move(PtrField(o, k), Flight(k))] \in Seq(Instr)
    BY <1>1, <1>2, <1>3, FcnIsSeq DEF Move, Instr
  <1>8. <<Copy(o, q)>> \in Seq(Instr)
    BY DEF Copy, Instr
  <1> QED
    BY <1>5, <1>6, <1>7, <1>8 DEF RecordAssignCode, ForEach, n

\* The words of a frame are roots.
LEMMA FrameWord ==
    ASSUME NEW d \in 1 .. MaxDepth
    PROVE  /\ \A k \in 1 .. Len(Params) : <<d, Params[k]>> \in Root
           /\ \A k \in 1 .. Len(Locals) : <<d, Locals[k]>> \in Root
           /\ \A k \in 1 .. Len(Params \o Locals) : <<d, (Params \o Locals)[k]>> \in Root
           /\ FrameSlots(d) \in SUBSET Root
  <1>1. \A k \in 1 .. Len(Params \o Locals) : <<d, (Params \o Locals)[k]>> \in Root
    BY SlotFacts DEF FrameSlots
  <1>2. \A k \in 1 .. Len(Params) : Params[k] = (Params \o Locals)[k]
                                      /\ k \in 1 .. Len(Params \o Locals)
    BY ArcAssumption
  <1>3. \A k \in 1 .. Len(Locals) :
          /\ Locals[k] = (Params \o Locals)[Len(Params) + k]
          /\ Len(Params) + k \in 1 .. Len(Params \o Locals)
    BY ArcAssumption
  <1> QED
    BY <1>1, <1>2, <1>3, SlotFacts

\* The code of a procedure entry is code.
LEMMA EnterCodeType ==
    ASSUME NEW d \in 1 .. MaxDepth, NEW vals \in Seq(Value), Len(vals) = Len(Params)
    PROVE  EnterCode(d, vals) \in Seq(Instr)
  <1>1. Len(Params) \in Nat /\ Len(Locals) \in Nat
    BY ArcAssumption
  <1>2. [k \in 1 .. Len(Params) |-> Retain(vals[k], <<d, Params[k]>>)] \in Seq(Instr)
    BY <1>1, FrameWord, FcnIsSeq DEF Retain, Instr
  <1>3. [k \in 1 .. Len(Locals) |-> Clear(<<d, Locals[k]>>)] \in Seq(Instr)
    BY <1>1, FrameWord, SlotFacts, FcnIsSeq DEF Clear, Instr
  <1> QED
    BY <1>2, <1>3 DEF EnterCode, ForEach

\* So is that of the epilogue,
LEMMA LeaveCodeType ==
    ASSUME NEW d \in 1 .. MaxDepth
    PROVE  LeaveCode(d) \in Seq(Instr)
  <1> DEFINE all == Params \o Locals
             n == IF Len(all) <= MaxLocalPtrs THEN Len(all) ELSE MaxLocalPtrs
  <1>1. n \in Nat /\ 1 .. n \subseteq 1 .. Len(all)
    BY ArcAssumption
  <1> DEFINE drops == [k \in 1 .. n |-> Drop(<<d, all[k]>>)]
             last == <<Forget(FrameSlots(d))>>
  <1> HIDE DEF n
  <1>2. drops \in Seq(Instr)
    BY <1>1, FrameWord, SlotFacts, FcnIsSeq DEF Drop, Instr
  <1>3. last \in Seq(Instr)
    BY FrameWord DEF Forget, Instr
  <1>4. LeaveCode(d) = drops \o last
    BY DEF LeaveCode, ForEach, n
  <1> HIDE DEF drops, last
  <1> QED
    BY <1>2, <1>3, <1>4

\* and that of the release of owned operands.
LEMMA DropArgsType ==
    ASSUME NEW i \in 1 .. MaxCtx
    PROVE  DropArgs(i) \in Seq(Instr)
  <1> DEFINE n == Arity(ctx[i].kind)
  <1>1. n \in Nat /\ \A k \in 1 .. n : Temp(i, k) \in Root
    BY TempFacts, SlotFacts
  <1> HIDE DEF n
  <1>2. [k \in 1 .. n |-> Drop(Temp(i, k))] \in Seq(Instr)
    BY <1>1, SlotFacts, FcnIsSeq DEF Drop, Instr
  <1>3. <<Forget({Temp(i, k) : k \in 1 .. n})>> \in Seq(Instr)
    BY <1>1 DEF Forget, Instr
  <1> QED
    BY <1>2, <1>3 DEF DropArgs, ForEach, n

\* What freeing an object still has to do is a cascade.
LEMMA UnwindType ==
    ASSUME NEW v \in Obj
    PROVE  Unwind(v) \in Seq(CascadeOp)
  <1>1. Len(PtrOffsets) \in Nat
    BY ArcAssumption
  <1>2. \A k \in 1 .. Len(PtrOffsets) : <<v, PtrOffsets[k]>> \in Slot
    BY SlotFacts DEF StrongField
  <1>3. [k \in 1 .. Len(PtrOffsets) |-> Release(<<v, PtrOffsets[k]>>)] \in Seq(CascadeOp)
    BY <1>1, <1>2, FcnIsSeq DEF CascadeOp
  <1>4. <<Free(v)>> \in Seq(CascadeOp)
    BY DEF CascadeOp
  <1> QED
    BY <1>3, <1>4 DEF Unwind

-----------------------------------------------------------------------------
(* Type correctness. *)

\* The conjuncts of TypeOK about the heap and about the control state.
HeapType == /\ live \in SUBSET Obj
            /\ rc \in [Obj -> Int]
            /\ mem \in [Slot -> Value]
            /\ stale \in SUBSET Slot
            /\ cascade \in Seq(CascadeOp)
            /\ fault \in BOOLEAN

ControlType ==
    /\ depth \in 0 .. MaxDepth
    /\ bind \in [1 .. MaxDepth -> Slot \cup {NIL}]
    /\ ctx \in Seq(Context) /\ Len(ctx) <= MaxCtx
    /\ \A i \in 1 .. Len(ctx) :
          /\ Len(ctx[i].vals) <= Arity(ctx[i].kind)
          /\ ctx[i].kind \in {"store", "relate"} => ctx[i].dst \in Slot

\* TypeOK, part by part.
LEMMA TypeSplit == TypeOK <=> HeapType /\ ControlType /\ code \in Seq(Instr)
  BY DEF TypeOK, HeapType, ControlType

\* Opening an expression keeps the control state typed.
LEMMA OpenType ==
    ASSUME ControlType, NEW kind \in Kinds, NEW dst \in Slot \cup {NIL},
           NEW vals \in Seq(Value), Len(vals) <= Arity(kind),
           kind \in {"store", "relate"} => dst \in Slot,
           Len(ctx) < MaxCtx, Open(kind, dst, vals)
    PROVE  ControlType'
  <1> DEFINE c == [kind |-> kind, at |-> depth, dst |-> dst, vals |-> vals]
  <1>1. c \in Context
    BY DEF Context, ControlType
  <1>2. ctx' = Append(ctx, c) /\ UNCHANGED <<depth, bind>>
    BY DEF Open
  <1>3. ctx \in Seq(Context) /\ Len(ctx) \in Nat /\ MaxCtx \in Nat
    BY ArcAssumption DEF ControlType
  <1>4. ctx' \in Seq(Context) /\ Len(ctx') = Len(ctx) + 1 /\ Len(ctx') <= MaxCtx
    BY <1>1, <1>2, <1>3
  <1>5. ASSUME NEW i \in 1 .. Len(ctx')
        PROVE  /\ Len(ctx'[i].vals) <= Arity(ctx'[i].kind)
               /\ ctx'[i].kind \in {"store", "relate"} => ctx'[i].dst \in Slot
    <2>1. CASE i \in 1 .. Len(ctx)
      <3>1. ctx'[i] = ctx[i]
        BY <1>2, <1>3, <2>1
      <3> QED
        BY <3>1, <2>1 DEF ControlType
    <2>2. CASE i = Len(ctx) + 1
      <3>1. ctx'[i] = c
        BY <1>2, <1>3, <1>1, <2>2
      <3> QED
        BY <3>1
    <2> QED
      BY <1>3, <1>4, <2>1, <2>2
  <1> QED
    BY <1>2, <1>4, <1>5 DEF ControlType

\* Ending the innermost expressions does too.
LEMMA CutType ==
    ASSUME ControlType, NEW n \in Int, n < Len(ctx), ctx' = SubSeq(ctx, 1, n),
           depth' \in 0 .. MaxDepth, bind' \in [1 .. MaxDepth -> Slot \cup {NIL}]
    PROVE  ControlType'
  <1>1. ctx \in Seq(Context) /\ Len(ctx) \in Nat /\ MaxCtx \in Nat
    BY ArcAssumption DEF ControlType
  <1>2. ctx' \in Seq(Context) /\ Len(ctx') <= Len(ctx)
         /\ \A i \in 1 .. Len(ctx') : ctx'[i] = ctx[i] /\ i \in 1 .. Len(ctx)
    <2>1. \A i \in 1 .. n : ctx[i] \in Context
      BY <1>1
    <2>2. /\ ctx' \in Seq(Context)
          /\ Len(ctx') = IF 1 <= n THEN n - 1 + 1 ELSE 0
          /\ \A i \in 1 .. n - 1 + 1 : ctx'[i] = ctx[1 + i - 1]
      BY <2>1, SubSeqProperties
    <2> QED
      BY <1>1, <2>2
  <1> QED
    BY <1>1, <1>2 DEF ControlType

\* The innermost expression is one.
LEMMA TopFacts ==
    ASSUME ControlType, ctx # <<>>
    PROVE  /\ Len(ctx) \in 1 .. MaxCtx
           /\ Top \in Context
           /\ Top.vals \in Seq(Value) /\ Top.kind \in Kinds
           /\ Top.dst \in Slot \cup {NIL}
           /\ Top.kind \in {"store", "relate"} => Top.dst \in Slot
           /\ Len(Top.vals) <= Arity(Top.kind)
  <1>1. Len(ctx) \in 1 .. MaxCtx
    BY ArcAssumption DEF ControlType
  <1>2. Top \in Context
    BY <1>1 DEF Top, ControlType
  <1> QED
    BY <1>1, <1>2 DEF Top, ControlType, Context

\* oc_alloc keeps the heap typed.
LEMMA AllocType ==
    ASSUME HeapType, NEW o \in Obj, oc_alloc(o), UNCHANGED <<cascade, fault>>
    PROVE  HeapType'
  BY DEF HeapType, oc_alloc, Value

\* Adding an operand keeps every variable typed.
LEMMA AddOperandType ==
    ASSUME TypeOK, Wants, NEW v \in Value, NEW own \in BOOLEAN, AddOperand(v, own)
    PROVE  TypeOK'
  <1> USE TypeSplit
  <1> DEFINE n == Len(ctx)
             t == Operand(Len(Top.vals) + 1)
  <1>1. ctx # <<>> /\ Len(Top.vals) < Arity(Top.kind)
    BY DEF Wants, InStatement
  <1>2. n \in 1 .. MaxCtx /\ Top \in Context /\ Top.vals \in Seq(Value)
    BY <1>1, TopFacts
  <1>3. t \in Root /\ t \in Slot /\ Result \in Slot
    <2>1. Len(Top.vals) + 1 \in 1 .. MaxArity
      BY <1>1, <1>2, TempFacts
    <2>2. Result \in Slot
      BY TempFacts, SlotFacts, ArcAssumption DEF Result
    <2> QED
      BY <2>1, <2>2, <1>2, TempFacts, SlotFacts DEF Operand
  <1>4. HeapType'
    <2>1. /\ \/ mem' = [mem EXCEPT ![t] = v, ![Result] = NIL] /\ stale' = (stale \cup {Result}) \ {t}
             \/ UNCHANGED <<mem, stale>>
          /\ UNCHANGED <<live, rc, cascade, fault>>
      BY DEF AddOperand
    <2> HIDE DEF t
    <2>2. NIL \in Value
      BY DEF Value
    <2> QED
      BY <1>3, <2>1, <2>2 DEF HeapType
  <1>5. ctx' = [ctx EXCEPT ![n].vals = Append(@, v)] /\ UNCHANGED <<depth, bind, code>>
    BY DEF AddOperand
  <1>6. /\ ctx' \in Seq(Context) /\ Len(ctx') = n
        /\ \A i \in 1 .. n : i # n => ctx'[i] = ctx[i]
        /\ ctx'[n] = [Top EXCEPT !.vals = Append(Top.vals, v)]
    <2>1. [Top EXCEPT !.vals = Append(Top.vals, v)] \in Context
      <3>1. Append(Top.vals, v) \in Seq(Value)
        BY <1>2
      <3> DEFINE w == Append(Top.vals, v)
                 top == Top
      <3> HIDE DEF w, top
      <3>2. top \in Context /\ w \in Seq(Value)
        BY <1>2, <3>1 DEF w, top
      <3>3. [top EXCEPT !.vals = w] \in Context
        BY <3>2 DEF Context
      <3> QED
        BY <3>3 DEF w, top
    <2>2. ctx' = [ctx EXCEPT ![n] = [Top EXCEPT !.vals = Append(Top.vals, v)]]
      BY <1>5 DEF Top
    <2>3. ctx \in Seq(Context)
      BY DEF ControlType
    <2> QED
      BY <2>1, <2>2, <2>3, <1>2
  <1>7. /\ ctx'[n].kind = Top.kind /\ ctx'[n].dst = Top.dst
        /\ Len(ctx'[n].vals) = Len(Top.vals) + 1
    BY <1>6, <1>2 DEF Context
  <1>8. ControlType'
    <2>0. n <= MaxCtx
      BY <1>2, ArcAssumption
    <2>1. \A i \in 1 .. n : /\ Len(ctx'[i].vals) <= Arity(ctx'[i].kind)
                            /\ ctx'[i].kind \in {"store", "relate"} => ctx'[i].dst \in Slot
      <3> SUFFICES ASSUME NEW i \in 1 .. n
                   PROVE  /\ Len(ctx'[i].vals) <= Arity(ctx'[i].kind)
                          /\ ctx'[i].kind \in {"store", "relate"} => ctx'[i].dst \in Slot
        OBVIOUS
      <3>1. CASE i = n
        BY <3>1, <1>1, <1>2, <1>7, TempFacts DEF ControlType, Top
      <3>2. CASE i # n
        BY <3>2, <1>6 DEF ControlType
      <3> QED
        BY <3>1, <3>2
    <2> QED
      BY <2>0, <2>1, <1>5, <1>6 DEF ControlType
  <1>9. code' \in Seq(Instr)
    BY <1>5
  <1> QED
    <2>1. TypeOK' <=> HeapType' /\ ControlType' /\ code' \in Seq(Instr)
      BY DEF TypeOK, HeapType, ControlType
    <2> QED
      BY <1>4, <1>8, <1>9, <2>1

\* TypeOK of the next state, from its parts.
LEMMA TypeJoin ==
    ASSUME HeapType', ControlType', code' \in Seq(Instr)
    PROVE  TypeOK'
  BY DEF TypeOK, HeapType, ControlType

\* An unchanged heap stays typed.
LEMMA HeapSame ==
    ASSUME HeapType, UNCHANGED heapState
    PROVE  HeapType'
  BY DEF HeapType, heapState

\* So does an unchanged control state.
LEMMA ControlSame ==
    ASSUME ControlType, UNCHANGED control
    PROVE  ControlType'
  BY DEF ControlType, control

\* Reaching undefined behaviour keeps the heap typed.
LEMMA PrimedValue ==
    ASSUME HeapType, Undefined
    PROVE  HeapType'
  BY DEF HeapType, Undefined

\* Ending the innermost expression keeps the control state typed.
LEMMA CloseTopType ==
    ASSUME ControlType, ctx # <<>>, CloseTop
    PROVE  ControlType'
  <1>1. Len(ctx) \in 1 .. MaxCtx
    BY TopFacts
  <1>2. Len(ctx) - 1 \in Int /\ Len(ctx) - 1 < Len(ctx)
    BY <1>1
  <1>3. ctx' = SubSeq(ctx, 1, Len(ctx) - 1)
    BY DEF CloseTop
  <1>4. depth' \in 0 .. MaxDepth /\ bind' \in [1 .. MaxDepth -> Slot \cup {NIL}]
    BY DEF CloseTop, ControlType
  <1> QED
    BY <1>2, <1>3, <1>4, CutType

\* So does a return.
LEMMA LeaveToType ==
    ASSUME ControlType, NEW i \in 1 .. Len(ctx), depth \in 1 .. MaxDepth,
           NEW front, LeaveTo(i, front)
    PROVE  ControlType'
  <1>1. Len(ctx) \in Nat
    BY DEF ControlType
  <1>2. i - 1 \in Int /\ i - 1 < Len(ctx)
    BY <1>1
  <1>3. ctx' = SubSeq(ctx, 1, i - 1)
    BY DEF LeaveTo
  <1>4. depth' \in 0 .. MaxDepth
    BY ArcAssumption DEF LeaveTo
  <1>5. bind' = [bind EXCEPT ![depth] = NIL]
    BY DEF LeaveTo
  <1>6. bind' \in [1 .. MaxDepth -> Slot \cup {NIL}]
    BY <1>5 DEF ControlType
  <1> QED
    BY <1>2, <1>3, <1>4, <1>6, CutType

LEMMA InScopePlace == InScope \subseteq Place
  BY DEF InScope

\* Every step of the program keeps TypeOK.
LEMMA StatementType ==
    ASSUME TypeOK, Statement
    PROVE  TypeOK'
  <1> USE TypeSplit
  <1>0. Place \subseteq Slot /\ Direct \subseteq Slot /\ NIL \notin Obj
    BY PlaceFacts, ArcAssumption
  <1>1. ASSUME NEW x \in Place, NEW o \in Obj, New(x, o)
        PROVE  TypeOK'
    <2>1. HeapType'
      BY <1>1, AllocType DEF New
    <2>2. ControlType'
      BY <1>1, ControlSame DEF New, control
    <2>3. code' \in Seq(Instr)
      BY <1>0, <1>1, NewCodeType DEF New
    <2> QED
      BY <2>1, <2>2, <2>3, TypeJoin
  <1>2. ASSUME NEW x \in Place, NEW y \in Place, RecordAssign(x, y)
        PROVE  TypeOK'
    <2>1. HeapType' /\ ControlType'
      BY <1>2, HeapSame, ControlSame DEF RecordAssign, Emit
    <2>2. mem[x] \in Obj /\ mem[y] \in Obj
      BY <1>2 DEF RecordAssign, HeapType
    <2>3. code' \in Seq(Instr)
      BY <1>2, <2>2, RecordAssignCodeType DEF RecordAssign, Emit
    <2> QED
      BY <2>1, <2>3, TypeJoin
  <1>3. ASSUME NEW x \in Place, NEW y \in Place, ArrayAssign(x, y)
        PROVE  TypeOK'
    <2>1. HeapType' /\ ControlType'
      BY <1>3, HeapSame, ControlSame DEF ArrayAssign, Emit
    <2>2. x \in Slot /\ mem[y] \in Value
      BY <1>0, PlaceFacts
    <2>3. code' \in Seq(Instr)
      <3>1. Poke(x, mem[y]) \in Instr
        BY <2>2 DEF Poke, Instr
      <3>2. code' = <<Poke(x, mem[y])>>
        BY <1>3 DEF ArrayAssign, Emit
      <3> QED
        BY <3>1, <3>2
    <2> QED
      BY <2>1, <2>3, TypeJoin
  <1>4. ASSUME NEW x \in Place, BeginStore(x) \/ BeginRelate(x)
        PROVE  TypeOK'
    <2>1. HeapType' /\ code' \in Seq(Instr)
      BY <1>4, HeapSame DEF BeginStore, BeginRelate
    <2>2. x \in Slot
      BY <1>0
    <2>3. PICK kind \in {"store", "relate"} : Open(kind, x, <<>>)
      BY <1>4 DEF BeginStore, BeginRelate
    <2>4. ControlType'
      <3>1. Len(ctx) < MaxCtx
        BY <1>4 DEF BeginStore, BeginRelate
      <3>2. kind \in Kinds
        BY <2>3 DEF Kinds
      <3>3. Len(<<>>) = 0 /\ <<>> \in Seq(Value) /\ Arity(kind) = 1
        BY <2>3 DEF Arity
      <3>4. x \in Slot \cup {NIL} /\ Len(<<>>) <= Arity(kind)
        BY <2>2, <3>3
      <3> QED
        BY <2>2, <2>3, <3>1, <3>2, <3>3, <3>4, OpenType
    <2> QED
      BY <2>1, <2>4, TypeJoin
  <1>5. ASSUME NEW v \in Place \cup {NIL}, BeginCall(v)
        PROVE  TypeOK'
    <2>1. HeapType' /\ code' \in Seq(Instr)
      BY <1>5, HeapSame DEF BeginCall
    <2>2. Len(<<>>) <= Arity("call") /\ <<>> \in Seq(Value)
      BY TempFacts
    <2>3. ControlType'
      BY <1>0, <1>5, <2>2, OpenType DEF BeginCall, MayCall, Kinds
    <2> QED
      BY <2>1, <2>3, TypeJoin
  <1>6. ASSUME NEW o \in Obj, BeginConstruct(o)
        PROVE  TypeOK'
    <2>1. HeapType' /\ code' \in Seq(Instr)
      BY <1>6, AllocType DEF BeginConstruct
    <2>2. Len(<<o>>) <= Arity("construct") /\ <<o>> \in Seq(Value)
      BY <1>6, ArcAssumption DEF BeginConstruct, Arity, Value
    <2>3. ControlType'
      BY <1>0, <1>6, <2>2, OpenType DEF BeginConstruct, MayCall, Kinds
    <2> QED
      BY <2>1, <2>3, TypeJoin
  <1>7. ASSUME BeginCompare PROVE TypeOK'
    <2>1. HeapType' /\ code' \in Seq(Instr)
      BY <1>7, HeapSame DEF BeginCompare
    <2>2. Len(<<>>) <= Arity("compare") /\ <<>> \in Seq(Value)
      BY TempFacts
    <2>3. ControlType'
      BY <1>7, <2>2, OpenType DEF BeginCompare, Kinds
    <2> QED
      BY <2>1, <2>3, TypeJoin
  <1>8. ASSUME BeginReturn PROVE TypeOK'
    <2>1. HeapType' /\ code' \in Seq(Instr)
      BY <1>8, HeapSame DEF BeginReturn
    <2>2. Len(<<>>) <= Arity("return") /\ <<>> \in Seq(Value)
      BY TempFacts
    <2>3. ControlType'
      BY <1>8, <2>2, OpenType DEF BeginReturn, Kinds
    <2> QED
      BY <2>1, <2>3, TypeJoin
  <1>9. ASSUME NEW s \in Place, Borrow(s) \/ BorrowFaults(s)
        PROVE  TypeOK'
    <2>1. CASE Borrow(s)
      BY <2>1, PlaceFacts, AddOperandType DEF Borrow
    <2>2. CASE BorrowFaults(s)
      <3>1. HeapType' /\ ControlType' /\ code' \in Seq(Instr)
        BY <2>2, PrimedValue, ControlSame DEF BorrowFaults, control
      <3> QED
        BY <3>1, TypeJoin
    <2> QED
      BY <1>9, <2>1, <2>2
  <1>10. ASSUME BorrowNil PROVE TypeOK'
    BY <1>10, AddOperandType DEF BorrowNil, Value
  <1>11. ASSUME TakeResult PROVE TypeOK'
    <2>1. mem[Result] \in Value
      BY TempFacts, SlotFacts, ArcAssumption DEF Result, HeapType
    <2> QED
      BY <1>11, <2>1, AddOperandType DEF TakeResult
  <1>17. ASSUME NEW o \in Immortal, TakeStatic(o) PROVE TypeOK'
    BY <1>17, AddOperandType, ArcAssumption DEF TakeStatic, Value
  <1>12. ASSUME Store PROVE TypeOK'
    <2>1. /\ ctx # <<>> /\ Top.kind = "store" /\ Len(Top.vals) = 1
          /\ Len(ctx) \in 1 .. MaxCtx
          /\ Top.dst \in Slot /\ Top.vals[1] \in Value
      <3>1. /\ ctx # <<>> /\ Top.kind = "store"
            /\ Len(Top.vals) = Arity("store") /\ Arity("store") = 1
        BY <1>12 DEF Store, Finish, Complete, InStatement, Arity
      <3>2. /\ Len(ctx) \in 1 .. MaxCtx
            /\ Top.dst \in Slot /\ Top.vals \in Seq(Value)
        BY <3>1, TopFacts
      <3> QED
        BY <3>1, <3>2
    <2>2. Operand(1) \in Root
      <3>1. 1 \in 1 .. MaxArity
        BY ArcAssumption DEF MaxArity
      <3> QED
        BY <3>1, <2>1, TempFacts, SlotFacts DEF Operand
    <2>3. HeapType' /\ code' \in Seq(Instr)
      BY <1>12, <2>1, <2>2, StoreCodeType, HeapSame DEF Store, Emit
    <2>4. ControlType'
      BY <1>12, <2>1, CloseTopType DEF Store
    <2> QED
      BY <2>3, <2>4, TypeJoin
  <1>13. ASSUME Compare PROVE TypeOK'
    <2>1. ctx # <<>> /\ Len(ctx) \in 1 .. MaxCtx
      BY <1>13, TopFacts DEF Compare, Finish, Complete, InStatement
    <2>2. HeapType' /\ code' \in Seq(Instr)
      BY <1>13, <2>1, DropArgsType, HeapSame DEF Compare, Emit
    <2>3. ControlType'
      BY <1>13, <2>1, CloseTopType DEF Compare
    <2> QED
      BY <2>2, <2>3, TypeJoin
  <1>18. ASSUME CompareFaults PROVE TypeOK'
    <2>1. HeapType' /\ ControlType' /\ code' \in Seq(Instr)
      BY <1>18, PrimedValue, ControlSame DEF CompareFaults, control
    <2> QED
      BY <2>1, TypeJoin
  <1>14. ASSUME Enter PROVE TypeOK'
    <2>1. /\ ctx # <<>> /\ Len(ctx) \in 1 .. MaxCtx
          /\ Top.dst \in Slot \cup {NIL} /\ Top.vals \in Seq(Value)
          /\ Len(Top.vals) = Len(Params)
      BY <1>14, TopFacts DEF Enter, Finish, Complete, InStatement, Arity
    <2>2. depth + 1 \in 1 .. MaxDepth
      BY <1>14, ArcAssumption DEF Enter, ControlType
    <2>3. HeapType' /\ code' \in Seq(Instr)
      BY <1>14, <2>1, <2>2, EnterCodeType, HeapSame DEF Enter, Emit
    <2>4. ControlType'
      BY <1>14, <2>1, <2>2 DEF Enter, ControlType
    <2> QED
      BY <2>3, <2>4, TypeJoin
  <1>15. ASSUME ReturnValue PROVE TypeOK'
    <2>1. /\ ctx # <<>> /\ Len(ctx) \in 1 .. MaxCtx
          /\ Len(Top.vals) = 1 /\ Top.vals[1] \in Value
      <3>1. Finish("return")
        BY <1>15 DEF ReturnValue
      <3> QED
        BY <3>1, TopFacts DEF Finish, Complete, InStatement, Arity
    <2>2. depth \in 1 .. MaxDepth /\ depth - 1 \in 0 .. MaxDepth
          /\ Len(ctx) - 1 \in 1 .. MaxCtx
      <3>1. depth > 0 /\ Len(ctx) > 1
        BY <1>15 DEF ReturnValue
      <3>2. depth \in 0 .. MaxDepth /\ MaxDepth \in Nat /\ MaxCtx \in Nat
        BY ArcAssumption DEF ControlType
      <3> QED
        BY <3>1, <3>2, <2>1
    <2>3. ResultCode(Top.vals[1]) \in Seq(Instr)
      <3>1. 1 \in 1 .. MaxArity
        BY ArcAssumption DEF MaxArity
      <3>2. Operand(1) \in Root
        BY <3>1, <2>1, TempFacts, SlotFacts DEF Operand
      <3> QED
        BY <3>2, <2>1, ResultCodeType
    <2>4. HeapType'
      BY <1>15, HeapSame DEF ReturnValue, LeaveTo, Emit
    <2>5. LeaveCode(depth) \in Seq(Instr) /\ DropArgs(Len(ctx) - 1) \in Seq(Instr)
      BY <2>2, LeaveCodeType, DropArgsType
    <2>6. code' \in Seq(Instr)
      <3>1. code' = ResultCode(Top.vals[1]) \o LeaveCode(depth) \o DropArgs(Len(ctx) - 1)
        BY <1>15 DEF ReturnValue, LeaveTo, Emit
      <3> QED
        BY <2>3, <2>5, <3>1
    <2>7. ControlType'
      <3>1. Len(ctx) - 1 \in 1 .. Len(ctx)
        BY <2>1, <2>2
      <3> QED
        BY <1>15, <2>2, <3>1, LeaveToType DEF ReturnValue
    <2> QED
      BY <2>4, <2>6, <2>7, TypeJoin
  <1>16. ASSUME ReturnPlain PROVE TypeOK'
    <2>1. Len(ctx) \in 1 .. MaxCtx
      BY <1>16, TopFacts DEF ReturnPlain
    <2>2. depth \in 1 .. MaxDepth /\ depth - 1 \in 0 .. MaxDepth
      BY <1>16, ArcAssumption DEF ReturnPlain, ControlType
    <2>3. HeapType'
      BY <1>16, HeapSame DEF ReturnPlain, LeaveTo, Emit
    <2>4. LeaveCode(depth) \in Seq(Instr) /\ DropArgs(Len(ctx)) \in Seq(Instr)
      BY <2>1, <2>2, LeaveCodeType, DropArgsType
    <2>5. code' \in Seq(Instr)
      <3>1. code' = <<>> \o LeaveCode(depth) \o DropArgs(Len(ctx))
        BY <1>16 DEF ReturnPlain, LeaveTo, Emit
      <3> QED
        BY <2>4, <3>1
    <2>6. ControlType'
      <3>1. Len(ctx) \in 1 .. Len(ctx)
        BY <2>1
      <3> QED
        BY <1>16, <2>2, <3>1, LeaveToType DEF ReturnPlain
    <2> QED
      BY <2>3, <2>5, <2>6, TypeJoin
  <1> QED
    BY <1>1, <1>2, <1>3, <1>4, <1>5, <1>6, <1>7, <1>8, <1>9, <1>10, <1>11, <1>12,
       <1>13, <1>14, <1>15, <1>16, <1>17, <1>18, InScopePlace DEF Statement

\* Every instruction and every step of a release does.
LEMMA RunType ==
    ASSUME TypeOK, Run
    PROVE  TypeOK'
  <1> USE TypeSplit
  <1> DEFINE c == Head(code)
  <1>1. NIL \in Value /\ Root \subseteq Slot
    BY SlotFacts DEF Value
  <1>2. ASSUME code # <<>>
        PROVE  c \in Instr /\ Tail(code) \in Seq(Instr)
    BY <1>2
  <1>3. ASSUME Step, code # <<>>
        PROVE  ControlType' /\ code' \in Seq(Instr)
    BY <1>2, <1>3, ControlSame DEF Step
  <1>4. ASSUME Trap PROVE TypeOK'
    <2>1. HeapType' /\ ControlType' /\ code' \in Seq(Instr)
      BY <1>4, PrimedValue, ControlSame DEF Trap, control
    <2> QED
      BY <2>1, TypeJoin
  <1>5. ASSUME RunRetain PROVE TypeOK'
    <2>1. code # <<>> /\ c.op = "retain" /\ Step
      BY <1>5 DEF RunRetain, Next1
    <2>2. c.val \in Value /\ c.slot \in Slot
      BY <1>1, <1>2, <2>1 DEF Instr
    <2>3. oc_retain(c.val, c.slot) /\ UNCHANGED <<live, cascade, fault>>
      BY <1>5 DEF RunRetain
    <2> HIDE DEF c
    <2>4. HeapType'
      <3>1. mem' \in [Slot -> Value] /\ stale' \in SUBSET Slot
        BY <2>2, <2>3 DEF oc_retain, HeapType
      <3>2. rc' \in [Obj -> Int]
        BY <2>2, <2>3 DEF oc_retain, HeapType, Skips, Value
      <3> QED
        BY <2>3, <3>1, <3>2 DEF HeapType
    <2> QED
      BY <2>1, <2>4, <1>3, TypeJoin
  <1>6. ASSUME RunRetainFaults PROVE TypeOK'
    BY <1>4, <1>6 DEF RunRetainFaults
  <1>7. ASSUME RunDrop PROVE TypeOK'
    <2>1. code # <<>> /\ c.op = "release" /\ Step
      BY <1>7 DEF RunDrop, Next1
    <2>2. c.slot \in Slot
      BY <1>1, <1>2, <2>1 DEF Instr
    <2>3. cascade' = <<Release(c.slot)>> /\ UNCHANGED <<live, rc, mem, stale, fault>>
      BY <1>7 DEF RunDrop
    <2> HIDE DEF c
    <2>4. HeapType'
      BY <2>2, <2>3 DEF HeapType, CascadeOp
    <2> QED
      BY <2>1, <2>4, <1>3, TypeJoin
  <1>8. ASSUME RunMove PROVE TypeOK'
    <2>9. CASE Gone(Head(code).slot)
      BY <1>8, <2>9, <1>4 DEF RunMove
    <2>0. SUFFICES ASSUME ~Gone(Head(code).slot) PROVE TypeOK'
      BY <2>9
    <2>1. code # <<>> /\ c.op = "move"
      BY <1>8 DEF RunMove, Next1
    <2>2. c.slot \in Slot /\ c.from \in Slot
      BY <1>1, <1>2, <2>1 DEF Instr
    <2>3. /\ mem' = [mem EXCEPT ![c.slot] = mem[c.from], ![c.from] = NIL]
          /\ stale' = (stale \cup {c.from}) \ {c.slot}
          /\ Step /\ UNCHANGED <<live, rc, cascade, fault>>
      BY <1>8, <2>0 DEF RunMove
    <2> HIDE DEF c
    <2>4. HeapType'
      BY <1>1, <2>2, <2>3 DEF HeapType
    <2> QED
      BY <2>1, <2>3, <2>4, <1>3, TypeJoin
  <1>9. ASSUME RunPoke PROVE TypeOK'
    <2>9. CASE Gone(Head(code).slot)
      BY <1>9, <2>9, <1>4 DEF RunPoke
    <2>0. SUFFICES ASSUME ~Gone(Head(code).slot) PROVE TypeOK'
      BY <2>9
    <2>1. code # <<>> /\ c.op = "poke"
      BY <1>9 DEF RunPoke, Next1
    <2>2. c.slot \in Slot /\ c.val \in Value
      BY <1>1, <1>2, <2>1 DEF Instr
    <2>3. /\ mem' = [mem EXCEPT ![c.slot] = c.val]
          /\ stale' = stale \ {c.slot}
          /\ Step /\ UNCHANGED <<live, rc, cascade, fault>>
      BY <1>9, <2>0 DEF RunPoke
    <2> HIDE DEF c
    <2>4. HeapType'
      BY <2>2, <2>3 DEF HeapType
    <2> QED
      BY <2>1, <2>3, <2>4, <1>3, TypeJoin
  <1>11. ASSUME RunClear PROVE TypeOK'
    <2>1. code # <<>> /\ c.op = "clear" /\ Step
      BY <1>11 DEF RunClear, Next1
    <2>2. c.slot \in Slot
      BY <1>1, <1>2, <2>1 DEF Instr
    <2>3. /\ mem' = [mem EXCEPT ![c.slot] = NIL]
          /\ stale' = stale \ {c.slot}
          /\ UNCHANGED <<live, rc, cascade, fault>>
      BY <1>11 DEF RunClear
    <2> HIDE DEF c
    <2>4. HeapType'
      BY <1>1, <2>2, <2>3 DEF HeapType
    <2> QED
      BY <2>1, <2>4, <1>3, TypeJoin
  <1>12. ASSUME RunCopy PROVE TypeOK'
    <2>1. code # <<>> /\ c.op = "copy" /\ Step
      BY <1>12 DEF RunCopy, Next1
    <2>2. c.from \in Obj
      BY <1>2, <2>1 DEF Instr
    <2>3. /\ mem' = [s \in Slot |-> IF s[1] = c.obj /\ IsWeak(s)
                                    THEN mem[<<c.from, s[2]>>] ELSE mem[s]]
          /\ UNCHANGED <<live, rc, stale, cascade, fault>>
      BY <1>12 DEF RunCopy
    <2> HIDE DEF c
    <2>4. \A s \in Slot : IsWeak(s) => <<c.from, s[2]>> \in Slot
      BY <2>2, SlotFacts DEF IsWeak
    <2>5. HeapType'
      BY <2>3, <2>4 DEF HeapType
    <2> QED
      BY <2>1, <2>5, <1>3, TypeJoin
  <1>13. ASSUME RunCopyFaults PROVE TypeOK'
    BY <1>4, <1>13 DEF RunCopyFaults
  <1>14. ASSUME RunForget PROVE TypeOK'
    <2>1. code # <<>> /\ c.op = "forget" /\ Step
      BY <1>14 DEF RunForget, Next1
    <2>2. c.slots \subseteq Slot
      BY <1>1, <1>2, <2>1 DEF Instr
    <2>3. /\ mem' = [s \in Slot |-> IF s \in c.slots THEN NIL ELSE mem[s]]
          /\ stale' = stale \cup c.slots
          /\ UNCHANGED <<live, rc, cascade, fault>>
      BY <1>14 DEF RunForget
    <2> HIDE DEF c
    <2>4. HeapType'
      BY <1>1, <2>2, <2>3 DEF HeapType
    <2> QED
      BY <2>1, <2>4, <1>3, TypeJoin
  <1>15. ASSUME RunCascade PROVE TypeOK'
    <2> DEFINE k == Head(cascade)
    <2>1. UNCHANGED <<depth, bind, ctx, code>> /\ CascadeStep /\ cascade # <<>>
      BY <1>15 DEF RunCascade, CascadeStep, ReleaseSkips, ReleaseCounts,
                   ReleaseFaults, FreeStep
    <2>2. ControlType' /\ code' \in Seq(Instr)
      BY <2>1, ControlSame DEF control
    <2>3. k \in CascadeOp /\ Tail(cascade) \in Seq(CascadeOp)
      BY <2>1 DEF HeapType
    <2>4. k.op = "release" => k.slot \in Slot
      BY <2>3 DEF CascadeOp, Release, Free
    <2>5. CASE ReleaseSkips
      <3>1. /\ k.slot \in Slot /\ stale' = stale \cup {k.slot}
            /\ cascade' = Tail(cascade) /\ UNCHANGED <<live, rc, mem, fault>>
        BY <2>4, <2>5 DEF ReleaseSkips
      <3> HIDE DEF k
      <3> QED
        <4>1. HeapType'
          BY <2>3, <3>1 DEF HeapType
        <4> QED
          BY <2>2, <4>1, TypeJoin
    <2>6. CASE ReleaseCounts
      <3> DEFINE v == mem[k.slot]
      <3>1. /\ k.slot \in Slot /\ stale' = stale \cup {k.slot} /\ v \in live
            /\ rc' = [rc EXCEPT ![v] = @ - 1] /\ UNCHANGED <<live, mem, fault>>
            /\ \/ cascade' = Tail(cascade)
               \/ cascade' = Unwind(v) \o Tail(cascade)
        BY <2>4, <2>6 DEF ReleaseCounts
      <3>2. v \in Obj /\ Unwind(v) \in Seq(CascadeOp)
        BY <3>1, UnwindType DEF HeapType
      <3> HIDE DEF k, v
      <3>3. Unwind(v) \o Tail(cascade) \in Seq(CascadeOp)
        <4> DEFINE u == Unwind(v)
                   t == Tail(cascade)
        <4>1. u \in Seq(CascadeOp) /\ t \in Seq(CascadeOp)
          BY <3>2, <2>3
        <4> HIDE DEF u, t
        <4>2. u \o t \in Seq(CascadeOp)
          BY <4>1
        <4> QED
          BY <4>2 DEF u, t
      <3>4. cascade' \in Seq(CascadeOp)
        BY <3>1, <3>3, <2>3
      <3> QED
        <4>1. HeapType'
          BY <3>1, <3>2, <3>4 DEF HeapType
        <4> QED
          BY <2>2, <4>1, TypeJoin
    <2>7. CASE ReleaseFaults
      <3>1. HeapType'
        BY <2>7, PrimedValue DEF ReleaseFaults
      <3> QED
        BY <2>2, <3>1, TypeJoin
    <2>8. CASE FreeStep
      <3>1. /\ live' \subseteq live /\ cascade' = Tail(cascade)
            /\ mem' = [s \in Slot |-> IF s[1] = k.obj THEN NIL ELSE mem[s]]
            /\ UNCHANGED <<rc, stale, fault>>
        BY <2>8 DEF FreeStep
      <3> HIDE DEF k
      <3> QED
        <4>1. mem' \in [Slot -> Value]
          BY <1>1, <3>1 DEF HeapType
        <4>2. HeapType'
          BY <2>3, <3>1, <4>1 DEF HeapType
        <4> QED
          BY <2>2, <4>2, TypeJoin
    <2> QED
      BY <2>1, <2>5, <2>6, <2>7, <2>8 DEF CascadeStep
  <1> QED
    BY <1>5, <1>6, <1>7, <1>8, <1>9, <1>11, <1>12, <1>13, <1>14, <1>15 DEF Run

\* TypeOK holds initially.
LEMMA InitType == Init => TypeOK
  <1> SUFFICES ASSUME Init PROVE TypeOK
    OBVIOUS
  <1>1. HeapType
    <2>1. live \in SUBSET Obj
      BY ArcAssumption DEF Init, HeapInit
    <2>4. cascade = <<>> /\ fault = FALSE
      BY DEF Init, HeapInit
    <2>5. <<>> \in Seq(CascadeOp)
      OBVIOUS
    <2>2. rc \in [Obj -> Int] /\ mem \in [Slot -> Value]
      BY DEF Init, HeapInit, Value
    <2>3. stale \in SUBSET Slot
      BY SlotFacts DEF Init, HeapInit, StrongSlot
    <2> QED
      BY <2>1, <2>2, <2>3, <2>4, <2>5 DEF HeapType
  <1>2. ControlType /\ code \in Seq(Instr)
    BY ArcAssumption DEF Init, ControlType
  <1> QED
    BY <1>1, <1>2, TypeSplit

\* Every variable of the machine and of the program stays in its type,
\* whatever the objects, the procedure's frame and the bounds.
THEOREM TypeCorrect == Spec => []TypeOK
  <1>1. TypeOK /\ [Next]_vars => TypeOK'
    <2> SUFFICES ASSUME TypeOK, [Next]_vars PROVE TypeOK'
      OBVIOUS
    <2>1. CASE UNCHANGED vars
      BY <2>1 DEF vars, TypeOK
    <2> QED
      BY <2>1, StatementType, RunType DEF Next
  <1> QED
    BY <1>1, InitType, PTL DEF Spec

-----------------------------------------------------------------------------
(* Emitted code alone: which slots a piece of it finds empty when it fills   *)
(* them, which references it still holds when it moves them, and what is     *)
(* known when it has run.  No step of the machine is taken here.             *)

\* Instructions name strong slots where they forget storage.
LEMMA CodeSlot ==
    ASSUME NEW c \in Seq(Instr), NEW i \in 1 .. Len(c)
    PROVE  /\ c[i] \in Instr
           /\ c[i].op = "forget" => c[i].slots \subseteq StrongSlot
  <1>1. c[i] \in Instr
    OBVIOUS
  <1> QED
    BY <1>1, SlotFacts DEF Instr

\* What the first instruction establishes, the rest starts from.
LEMMA Shift ==
    ASSUME NEW E, NEW E2, NEW H, NEW H2, NEW c \in Seq(Instr), c # <<>>,
           \A s \in StrongSlot : s \in E /\ ~Fills(Head(c), s) => s \in E2,
           \A s \in StrongSlot : Empties(Head(c), s) => s \in E2,
           \A s \in Temps : s \in H /\ ~Empties(Head(c), s) => s \in H2,
           \A s \in Temps : Fills(Head(c), s) => s \in H2,
           NEW i \in 1 .. Len(c)
    PROVE  /\ \A s \in StrongSlot : EmptyBy(E, c, s, i + 1) => EmptyBy(E2, Tail(c), s, i)
           /\ \A s \in Temps : HeldBy(H, c, s, i + 1) => HeldBy(H2, Tail(c), s, i)
  <1> DEFINE t == Tail(c)
  <1>1. Len(c) \in Nat /\ c[1] = Head(c) /\ \A m \in 1 .. i - 1 : t[m] = c[m + 1]
    BY HeadTailProperties
  <1> HIDE DEF t
  <1>2. ASSUME NEW s \in StrongSlot, EmptyBy(E, c, s, i + 1)
        PROVE  EmptyBy(E2, t, s, i)
    <2>1. CASE s \in E /\ \A m \in 1 .. i : ~Fills(c[m], s)
      BY <2>1, <1>1 DEF EmptyBy
    <2>2. ASSUME NEW j \in 1 .. i, Empties(c[j], s), \A m \in j + 1 .. i : ~Fills(c[m], s)
          PROVE  EmptyBy(E2, t, s, i)
      <3>1. CASE j = 1
        <4>1. s \in E2
          BY <3>1, <2>2, <1>1
        <4>2. \A m \in 1 .. i - 1 : ~Fills(t[m], s)
          BY <3>1, <2>2, <1>1
        <4> QED
          BY <4>1, <4>2 DEF EmptyBy
      <3>2. CASE j > 1
        <4>1. j - 1 \in 1 .. i - 1 /\ Empties(t[j - 1], s)
          BY <3>2, <2>2, <1>1
        <4>2. \A m \in (j - 1) + 1 .. i - 1 : ~Fills(t[m], s)
          BY <3>2, <2>2, <1>1
        <4> QED
          BY <4>1, <4>2 DEF EmptyBy
      <3> QED
        BY <3>1, <3>2
    <2> QED
      BY <1>2, <2>1, <2>2 DEF EmptyBy
  <1>3. ASSUME NEW s \in Temps, HeldBy(H, c, s, i + 1)
        PROVE  HeldBy(H2, t, s, i)
    <2>1. CASE s \in H /\ \A m \in 1 .. i : ~Empties(c[m], s)
      BY <2>1, <1>1 DEF HeldBy
    <2>2. ASSUME NEW j \in 1 .. i, Fills(c[j], s), \A m \in j + 1 .. i : ~Empties(c[m], s)
          PROVE  HeldBy(H2, t, s, i)
      <3>1. CASE j = 1
        <4>1. s \in H2
          BY <3>1, <2>2, <1>1
        <4>2. \A m \in 1 .. i - 1 : ~Empties(t[m], s)
          BY <3>1, <2>2, <1>1
        <4> QED
          BY <4>1, <4>2 DEF HeldBy
      <3>2. CASE j > 1
        <4>1. j - 1 \in 1 .. i - 1 /\ Fills(t[j - 1], s)
          BY <3>2, <2>2, <1>1
        <4>2. \A m \in (j - 1) + 1 .. i - 1 : ~Empties(t[m], s)
          BY <3>2, <2>2, <1>1
        <4> QED
          BY <4>1, <4>2 DEF HeldBy
      <3> QED
        BY <3>1, <3>2
    <2> QED
      BY <1>3, <2>1, <2>2 DEF HeldBy
  <1> QED
    BY <1>2, <1>3 DEF t

\* Safety of an instruction depends only on what is known before it.
LEMMA SafeFrom ==
    ASSUME NEW E, NEW H, NEW c \in Seq(Instr), NEW i \in 1 .. Len(c), SafeInstr(E, H, c, i),
           NEW E2, NEW H2, NEW c2, NEW k, c2[k] = c[i],
           \A s \in StrongSlot : EmptyBy(E, c, s, i) => EmptyBy(E2, c2, s, k),
           \A s \in Temps : HeldBy(H, c, s, i) => HeldBy(H2, c2, s, k)
    PROVE  SafeInstr(E2, H2, c2, k)
  <1>1. c[i].op = "forget" => c[i].slots \subseteq StrongSlot
    BY CodeSlot
  <1>2. Root \subseteq StrongSlot
    BY SlotFacts
  <1>3. CASE c[i].op \in {"retain", "clear"} /\ c[i].slot \in Root /\ EmptyBy(E, c, c[i].slot, i)
    BY <1>2, <1>3 DEF SafeInstr
  <1>4. CASE /\ c[i].op = "move" /\ c[i].slot \in StrongSlot \ Temps /\ c[i].from \in Temps
             /\ EmptyBy(E, c, c[i].slot, i) /\ HeldBy(H, c, c[i].from, i)
    BY <1>4 DEF SafeInstr
  <1>5. CASE c[i].op = "forget" /\ \A s \in c[i].slots : EmptyBy(E, c, s, i)
    BY <1>1, <1>5 DEF SafeInstr
  <1> QED
    BY <1>3, <1>4, <1>5 DEF SafeInstr

\* Safe code stays safe when its first instruction has run.
LEMMA ShiftSafe ==
    ASSUME NEW E, NEW E2, NEW H, NEW H2, NEW c \in Seq(Instr), c # <<>>,
           \A s \in StrongSlot : s \in E /\ ~Fills(Head(c), s) => s \in E2,
           \A s \in StrongSlot : Empties(Head(c), s) => s \in E2,
           \A s \in Temps : s \in H /\ ~Empties(Head(c), s) => s \in H2,
           \A s \in Temps : Fills(Head(c), s) => s \in H2,
           SafeCode(E, H, c)
    PROVE  SafeCode(E2, H2, Tail(c))
  <1>1. SUFFICES ASSUME NEW k \in 1 .. Len(Tail(c))
                 PROVE  SafeInstr(E2, H2, Tail(c), k)
    BY DEF SafeCode
  <1>2. k + 1 \in 1 .. Len(c) /\ Tail(c)[k] = c[k + 1] /\ k \in 1 .. Len(c)
    BY HeadTailProperties
  <1>3. SafeInstr(E, H, c, k + 1)
    BY <1>2 DEF SafeCode
  <1>4. /\ \A s \in StrongSlot : EmptyBy(E, c, s, k + 1) => EmptyBy(E2, Tail(c), s, k)
        /\ \A s \in Temps : HeldBy(H, c, s, k + 1) => HeldBy(H2, Tail(c), s, k)
    BY <1>2, Shift
  <1> QED
    BY <1>2, <1>3, <1>4, SafeFrom

\* Starting with more slots empty and more registers held does no harm.
LEMMA Grow ==
    ASSUME NEW E, NEW E2, NEW H, NEW H2, NEW c \in Seq(Instr),
           \A s \in StrongSlot : s \in E => s \in E2,
           \A s \in Temps : s \in H => s \in H2
    PROVE  /\ SafeCode(E, H, c) => SafeCode(E2, H2, c)
           /\ \A s \in StrongSlot, i \in Int : EmptyBy(E, c, s, i) => EmptyBy(E2, c, s, i)
  <1>1. \A s \in StrongSlot, i \in Int : EmptyBy(E, c, s, i) => EmptyBy(E2, c, s, i)
    BY DEF EmptyBy
  <1>2. \A s \in Temps, i \in Int : HeldBy(H, c, s, i) => HeldBy(H2, c, s, i)
    BY DEF HeldBy
  <1>3. ASSUME SafeCode(E, H, c), NEW i \in 1 .. Len(c)
        PROVE  SafeInstr(E2, H2, c, i)
    <2>1. SafeInstr(E, H, c, i)
      BY <1>3 DEF SafeCode
    <2> QED
      BY <1>1, <1>2, <2>1, SafeFrom
  <1> QED
    BY <1>1, <1>3 DEF SafeCode

\* What is known when all of c has run.
EmptyAfter(E, c) == {s \in StrongSlot : EmptyBy(E, c, s, Len(c) + 1)}
HeldAfter(H, c)  == {s \in Temps : HeldBy(H, c, s, Len(c) + 1)}

\* Code may be checked piece by piece.
LEMMA Concat ==
    ASSUME NEW E, NEW H, NEW a \in Seq(Instr), NEW b \in Seq(Instr),
           SafeCode(E, H, a), SafeCode(EmptyAfter(E, a), HeldAfter(H, a), b)
    PROVE  /\ SafeCode(E, H, a \o b)
           /\ EmptyAfter(EmptyAfter(E, a), b) \subseteq EmptyAfter(E, a \o b)
           /\ HeldAfter(HeldAfter(H, a), b) \subseteq HeldAfter(H, a \o b)
  <1> DEFINE c == a \o b
             n == Len(a)
             E2 == EmptyAfter(E, a)
             H2 == HeldAfter(H, a)
  <1>1. /\ c \in Seq(Instr) /\ n \in Nat /\ Len(b) \in Nat /\ Len(c) = n + Len(b)
        /\ \A m \in 1 .. n : c[m] = a[m]
        /\ \A m \in 1 .. Len(b) : c[n + m] = b[m]
    BY ConcatProperties
  <1>2. ASSUME NEW s, s \in E2 PROVE EmptyBy(E, a, s, n + 1)
    BY <1>2 DEF EmptyAfter
  <1>3. ASSUME NEW s, s \in H2 PROVE HeldBy(H, a, s, n + 1)
    BY <1>3 DEF HeldAfter
  <1> HIDE DEF c, n, E2, H2
  <1>4. ASSUME NEW s, NEW i \in 1 .. n + 1, EmptyBy(E, a, s, i)
        PROVE  EmptyBy(E, c, s, i)
    <2>1. \A m \in 1 .. i - 1 : c[m] = a[m]
      BY <1>1
    <2>2. \A j \in 1 .. i - 1 : \A m \in j + 1 .. i - 1 : m \in 1 .. i - 1
      BY <1>1
    <2> QED
      BY <2>1, <2>2, <1>4 DEF EmptyBy
  <1>5. ASSUME NEW s, NEW i \in 1 .. n + 1, HeldBy(H, a, s, i)
        PROVE  HeldBy(H, c, s, i)
    <2>1. \A m \in 1 .. i - 1 : c[m] = a[m]
      BY <1>1
    <2>2. \A j \in 1 .. i - 1 : \A m \in j + 1 .. i - 1 : m \in 1 .. i - 1
      BY <1>1
    <2> QED
      BY <2>1, <2>2, <1>5 DEF HeldBy
  <1>6. ASSUME NEW s, NEW i \in 1 .. Len(b) + 1, EmptyBy(E2, b, s, i)
        PROVE  EmptyBy(E, c, s, n + i)
    <2>1. ASSUME NEW j \in 1 .. i - 1, Empties(b[j], s),
                 \A m \in j + 1 .. i - 1 : ~Fills(b[m], s)
          PROVE  EmptyBy(E, c, s, n + i)
      <3>1. n + j \in 1 .. (n + i) - 1 /\ Empties(c[n + j], s)
        BY <1>1, <2>1
      <3>2. ASSUME NEW m \in (n + j) + 1 .. (n + i) - 1
            PROVE  ~Fills(c[m], s)
        <4>1. m - n \in j + 1 .. i - 1 /\ m - n \in 1 .. Len(b) /\ m = n + (m - n)
          BY <1>1
        <4> QED
          BY <4>1, <1>1, <2>1
      <3> QED
        BY <3>1, <3>2 DEF EmptyBy
    <2>2. ASSUME s \in E2, \A m \in 1 .. i - 1 : ~Fills(b[m], s)
          PROVE  EmptyBy(E, c, s, n + i)
      <3>1. ASSUME NEW m \in n + 1 .. (n + i) - 1
            PROVE  ~Fills(c[m], s)
        <4>1. m - n \in 1 .. i - 1 /\ m - n \in 1 .. Len(b) /\ m = n + (m - n)
          BY <1>1
        <4> QED
          BY <4>1, <1>1, <2>2
      <3>2. EmptyBy(E, c, s, n + 1)
        BY <1>1, <1>2, <1>4, <2>2
      <3>3. ASSUME NEW j \in 1 .. n, Empties(c[j], s),
                   \A m \in j + 1 .. n : ~Fills(c[m], s)
            PROVE  EmptyBy(E, c, s, n + i)
        <4>1. j \in 1 .. (n + i) - 1
          BY <1>1
        <4>2. \A m \in j + 1 .. (n + i) - 1 : ~Fills(c[m], s)
          BY <1>1, <3>1, <3>3
        <4> QED
          BY <3>3, <4>1, <4>2 DEF EmptyBy
      <3>4. ASSUME s \in E, \A m \in 1 .. n : ~Fills(c[m], s)
            PROVE  EmptyBy(E, c, s, n + i)
        <4>1. \A m \in 1 .. (n + i) - 1 : ~Fills(c[m], s)
          BY <1>1, <3>1, <3>4
        <4> QED
          BY <3>4, <4>1 DEF EmptyBy
      <3>5. (n + 1) - 1 = n
        BY <1>1
      <3> QED
        BY <3>2, <3>3, <3>4, <3>5 DEF EmptyBy
    <2> QED
      BY <1>6, <2>1, <2>2 DEF EmptyBy
  <1>7. ASSUME NEW s, NEW i \in 1 .. Len(b) + 1, HeldBy(H2, b, s, i)
        PROVE  HeldBy(H, c, s, n + i)
    <2>1. ASSUME NEW j \in 1 .. i - 1, Fills(b[j], s),
                 \A m \in j + 1 .. i - 1 : ~Empties(b[m], s)
          PROVE  HeldBy(H, c, s, n + i)
      <3>1. n + j \in 1 .. (n + i) - 1 /\ Fills(c[n + j], s)
        BY <1>1, <2>1
      <3>2. ASSUME NEW m \in (n + j) + 1 .. (n + i) - 1
            PROVE  ~Empties(c[m], s)
        <4>1. m - n \in j + 1 .. i - 1 /\ m - n \in 1 .. Len(b) /\ m = n + (m - n)
          BY <1>1
        <4> QED
          BY <4>1, <1>1, <2>1
      <3> QED
        BY <3>1, <3>2 DEF HeldBy
    <2>2. ASSUME s \in H2, \A m \in 1 .. i - 1 : ~Empties(b[m], s)
          PROVE  HeldBy(H, c, s, n + i)
      <3>1. ASSUME NEW m \in n + 1 .. (n + i) - 1
            PROVE  ~Empties(c[m], s)
        <4>1. m - n \in 1 .. i - 1 /\ m - n \in 1 .. Len(b) /\ m = n + (m - n)
          BY <1>1
        <4> QED
          BY <4>1, <1>1, <2>2
      <3>2. HeldBy(H, c, s, n + 1)
        BY <1>1, <1>3, <1>5, <2>2
      <3>3. ASSUME NEW j \in 1 .. n, Fills(c[j], s),
                   \A m \in j + 1 .. n : ~Empties(c[m], s)
            PROVE  HeldBy(H, c, s, n + i)
        <4>1. j \in 1 .. (n + i) - 1
          BY <1>1
        <4>2. \A m \in j + 1 .. (n + i) - 1 : ~Empties(c[m], s)
          BY <1>1, <3>1, <3>3
        <4> QED
          BY <3>3, <4>1, <4>2 DEF HeldBy
      <3>4. ASSUME s \in H, \A m \in 1 .. n : ~Empties(c[m], s)
            PROVE  HeldBy(H, c, s, n + i)
        <4>1. \A m \in 1 .. (n + i) - 1 : ~Empties(c[m], s)
          BY <1>1, <3>1, <3>4
        <4> QED
          BY <3>4, <4>1 DEF HeldBy
      <3>5. (n + 1) - 1 = n
        BY <1>1
      <3> QED
        BY <3>2, <3>3, <3>4, <3>5 DEF HeldBy
    <2> QED
      BY <1>7, <2>1, <2>2 DEF HeldBy
  <1>8. ASSUME NEW i \in 1 .. Len(c)
        PROVE  SafeInstr(E, H, c, i)
    <2>1. CASE i <= n
      <3>1. i \in 1 .. n /\ c[i] = a[i] /\ SafeInstr(E, H, a, i)
        BY <1>1, <2>1 DEF SafeCode, n
      <3> QED
        BY <3>1, <1>4, <1>5, SafeFrom DEF n
    <2>2. CASE i > n
      <3> DEFINE k == i - n
      <3>1. k \in 1 .. Len(b) /\ n + k = i /\ c[i] = b[k]
        BY <1>1, <2>2
      <3>2. SafeInstr(E2, H2, b, k)
        BY <3>1 DEF SafeCode, E2, H2
      <3> HIDE DEF k
      <3>3. /\ \A s \in StrongSlot : EmptyBy(E2, b, s, k) => EmptyBy(E, c, s, i)
            /\ \A s \in Temps : HeldBy(H2, b, s, k) => HeldBy(H, c, s, i)
        BY <3>1, <1>6, <1>7
      <3> QED
        BY <3>1, <3>2, <3>3, SafeFrom
    <2> QED
      BY <1>1, <2>1, <2>2
  <1>9. EmptyAfter(E2, b) \subseteq EmptyAfter(E, c)
    <2>1. Len(c) + 1 = n + (Len(b) + 1) /\ Len(b) + 1 \in 1 .. Len(b) + 1
      BY <1>1
    <2> QED
      BY <1>6, <2>1 DEF EmptyAfter
  <1>10. HeldAfter(H2, b) \subseteq HeldAfter(H, c)
    <2>1. Len(c) + 1 = n + (Len(b) + 1) /\ Len(b) + 1 \in 1 .. Len(b) + 1
      BY <1>1
    <2> QED
      BY <1>7, <2>1 DEF HeldAfter
  <1>11. SafeCode(E, H, c)
    BY <1>8 DEF SafeCode
  <1> QED
    BY <1>9, <1>10, <1>11 DEF c, E2, H2

\* EmptyAfter and HeldAfter, spelled out.
LEMMA After ==
    ASSUME NEW E, NEW H, NEW c \in Seq(Instr), NEW s
    PROVE  /\ s \in EmptyAfter(E, c) <=>
                /\ s \in StrongSlot
                /\ \/ \E j \in 1 .. Len(c) : /\ Empties(c[j], s)
                                             /\ \A m \in j + 1 .. Len(c) : ~Fills(c[m], s)
                   \/ s \in E /\ \A m \in 1 .. Len(c) : ~Fills(c[m], s)
           /\ s \in HeldAfter(H, c) <=>
                /\ s \in Temps
                /\ \/ \E j \in 1 .. Len(c) : /\ Fills(c[j], s)
                                             /\ \A m \in j + 1 .. Len(c) : ~Empties(c[m], s)
                   \/ s \in H /\ \A m \in 1 .. Len(c) : ~Empties(c[m], s)
  <1>1. (Len(c) + 1) - 1 = Len(c)
    OBVIOUS
  <1>2. s \in EmptyAfter(E, c) <=> s \in StrongSlot /\ EmptyBy(E, c, s, Len(c) + 1)
    BY DEF EmptyAfter
  <1>3. s \in HeldAfter(H, c) <=> s \in Temps /\ HeldBy(H, c, s, Len(c) + 1)
    BY DEF HeldAfter
  <1>4. EmptyBy(E, c, s, Len(c) + 1) <=>
                   \/ \E j \in 1 .. Len(c) : /\ Empties(c[j], s)
                                             /\ \A m \in j + 1 .. Len(c) : ~Fills(c[m], s)
                   \/ s \in E /\ \A m \in 1 .. Len(c) : ~Fills(c[m], s)
    BY <1>1 DEF EmptyBy
  <1>5. HeldBy(H, c, s, Len(c) + 1) <=>
                   \/ \E j \in 1 .. Len(c) : /\ Fills(c[j], s)
                                             /\ \A m \in j + 1 .. Len(c) : ~Empties(c[m], s)
                   \/ s \in H /\ \A m \in 1 .. Len(c) : ~Empties(c[m], s)
    BY <1>1 DEF HeldBy
  <1> QED
    BY <1>2, <1>3, <1>4, <1>5

\* A slot the code never fills stays empty.
LEMMA StaysEmpty ==
    ASSUME NEW E, NEW c \in Seq(Instr), NEW s \in StrongSlot, s \in E,
           \A m \in 1 .. Len(c) : ~Fills(c[m], s)
    PROVE  s \in EmptyAfter(E, c)
  BY After

\* A slot emptied and not filled again is empty at the end.
LEMMA Emptied ==
    ASSUME NEW E, NEW c \in Seq(Instr), NEW s \in StrongSlot,
           NEW j \in 1 .. Len(c), Empties(c[j], s),
           \A m \in j + 1 .. Len(c) : ~Fills(c[m], s)
    PROVE  s \in EmptyAfter(E, c)
  BY After

\* Instructions that fill distinct empty slots.
LEMMA FillBlock ==
    ASSUME NEW E, NEW H, NEW c \in Seq(Instr),
           \A k \in 1 .. Len(c) : /\ c[k].op \in {"retain", "clear"}
                                  /\ c[k].slot \in Root /\ c[k].slot \in E,
           \A k, m \in 1 .. Len(c) : c[k].slot = c[m].slot => k = m
    PROVE  /\ SafeCode(E, H, c)
           /\ \A s \in StrongSlot : s \in E /\ (\A k \in 1 .. Len(c) : c[k].slot # s)
                 => s \in EmptyAfter(E, c)
           /\ \A k \in 1 .. Len(c) : c[k].slot \in Temps => c[k].slot \in HeldAfter(H, c)
           /\ \A s \in Temps : s \in H => s \in HeldAfter(H, c)
  <1>1. ASSUME NEW k \in 1 .. Len(c), NEW s
        PROVE  ~Empties(c[k], s) /\ (Fills(c[k], s) <=> c[k].slot = s)
    BY DEF Empties, Fills
  <1>2. ASSUME NEW i \in 1 .. Len(c)
        PROVE  SafeInstr(E, H, c, i)
    <2>1. ASSUME NEW m \in 1 .. i - 1
          PROVE  ~Fills(c[m], c[i].slot)
      <3>1. m \in 1 .. Len(c) /\ m # i
        OBVIOUS
      <3> QED
        BY <3>1, <1>1
    <2>2. EmptyBy(E, c, c[i].slot, i)
      BY <2>1 DEF EmptyBy
    <2> QED
      BY <2>2 DEF SafeInstr
  <1>3. ASSUME NEW s \in StrongSlot, s \in E, \A k \in 1 .. Len(c) : c[k].slot # s
        PROVE  s \in EmptyAfter(E, c)
    BY <1>1, <1>3, After
  <1>4. ASSUME NEW k \in 1 .. Len(c), c[k].slot \in Temps
        PROVE  c[k].slot \in HeldAfter(H, c)
    <2>1. ASSUME NEW m \in k + 1 .. Len(c)
          PROVE  ~Empties(c[m], c[k].slot)
      <3>1. m \in 1 .. Len(c)
        OBVIOUS
      <3> QED
        BY <3>1, <1>1
    <2>2. Fills(c[k], c[k].slot)
      BY <1>1
    <2> QED
      BY <1>4, <2>1, <2>2, After
  <1>5. ASSUME NEW s \in Temps, s \in H
        PROVE  s \in HeldAfter(H, c)
    BY <1>1, <1>5, After
  <1> QED
    BY <1>2, <1>3, <1>4, <1>5 DEF SafeCode

\* Releases.
LEMMA DropBlock ==
    ASSUME NEW E, NEW H, NEW c \in Seq(Instr),
           \A k \in 1 .. Len(c) : c[k].op = "release" /\ c[k].slot \in StrongSlot
    PROVE  /\ SafeCode(E, H, c)
           /\ \A s \in StrongSlot : s \in E => s \in EmptyAfter(E, c)
           /\ \A k \in 1 .. Len(c) : c[k].slot \in EmptyAfter(E, c)
           /\ \A s \in Temps : s \in H /\ (\A k \in 1 .. Len(c) : c[k].slot # s)
                 => s \in HeldAfter(H, c)
  <1>1. ASSUME NEW k \in 1 .. Len(c), NEW s
        PROVE  ~Fills(c[k], s) /\ (Empties(c[k], s) <=> c[k].slot = s)
    BY DEF Empties, Fills
  <1>2. SafeCode(E, H, c)
    BY DEF SafeCode, SafeInstr
  <1>3. ASSUME NEW s \in StrongSlot, s \in E
        PROVE  s \in EmptyAfter(E, c)
    BY <1>1, <1>3, After
  <1>4. ASSUME NEW k \in 1 .. Len(c)
        PROVE  c[k].slot \in EmptyAfter(E, c)
    <2>1. ASSUME NEW m \in k + 1 .. Len(c)
          PROVE  ~Fills(c[m], c[k].slot)
      <3>1. m \in 1 .. Len(c)
        OBVIOUS
      <3> QED
        BY <3>1, <1>1
    <2>2. Empties(c[k], c[k].slot) /\ c[k].slot \in StrongSlot
      BY <1>1
    <2> QED
      BY <2>1, <2>2, After
  <1>5. ASSUME NEW s \in Temps, s \in H, \A k \in 1 .. Len(c) : c[k].slot # s
        PROVE  s \in HeldAfter(H, c)
    BY <1>1, <1>5, After
  <1> QED
    BY <1>2, <1>3, <1>4, <1>5

\* Moves from distinct registers to distinct empty slots.
LEMMA MoveBlock ==
    ASSUME NEW E, NEW H, NEW c \in Seq(Instr),
           \A k \in 1 .. Len(c) : /\ c[k].op = "move"
                                  /\ c[k].slot \in StrongSlot \ Temps /\ c[k].slot \in E
                                  /\ c[k].from \in Temps /\ c[k].from \in H,
           \A k, m \in 1 .. Len(c) : c[k].slot = c[m].slot \/ c[k].from = c[m].from => k = m
    PROVE  /\ SafeCode(E, H, c)
           /\ \A s \in StrongSlot : s \in E /\ (\A k \in 1 .. Len(c) : c[k].slot # s)
                 => s \in EmptyAfter(E, c)
           /\ \A k \in 1 .. Len(c) : c[k].from \in EmptyAfter(E, c)
  <1>0. Temps \subseteq StrongSlot
    BY SlotFacts
  <1>1. ASSUME NEW k \in 1 .. Len(c), NEW s
        PROVE  /\ Fills(c[k], s) <=> c[k].slot = s
               /\ Empties(c[k], s) <=> c[k].from = s
    BY DEF Empties, Fills
  <1>2. ASSUME NEW i \in 1 .. Len(c)
        PROVE  SafeInstr(E, H, c, i)
    <2>1. ASSUME NEW m \in 1 .. i - 1
          PROVE  ~Fills(c[m], c[i].slot) /\ ~Empties(c[m], c[i].from)
      <3>1. m \in 1 .. Len(c) /\ m # i
        OBVIOUS
      <3> QED
        BY <3>1, <1>1
    <2>2. EmptyBy(E, c, c[i].slot, i) /\ HeldBy(H, c, c[i].from, i)
      BY <2>1 DEF EmptyBy, HeldBy
    <2> QED
      BY <2>2 DEF SafeInstr
  <1>3. ASSUME NEW s \in StrongSlot, s \in E, \A k \in 1 .. Len(c) : c[k].slot # s
        PROVE  s \in EmptyAfter(E, c)
    BY <1>1, <1>3, After
  <1>4. ASSUME NEW k \in 1 .. Len(c)
        PROVE  c[k].from \in EmptyAfter(E, c)
    <2>1. ASSUME NEW m \in k + 1 .. Len(c)
          PROVE  ~Fills(c[m], c[k].from)
      <3>1. m \in 1 .. Len(c) /\ c[m].slot \notin Temps /\ c[k].from \in Temps
        OBVIOUS
      <3> QED
        BY <3>1, <1>1
    <2>2. Empties(c[k], c[k].from) /\ c[k].from \in StrongSlot
      BY <1>0, <1>1
    <2> QED
      BY <2>1, <2>2, After
  <1> QED
    BY <1>2, <1>3, <1>4 DEF SafeCode

-----------------------------------------------------------------------------
(* Slots. *)

\* Registers, frame words, globals and fields are different words.
LEMMA SlotKinds ==
    /\ \A s \in Temps : s[1] \in Int /\ s[1] < 0
    /\ \A s \in Frames : s[1] \in 1 .. MaxDepth
    /\ \A s \in Root : s[1] \in Int /\ s[1] \notin Obj
    /\ \A s \in StrongSlot : s \in Root \/ s \in Obj \X StrongField
    /\ \A s \in Slot : IsWeak(s) => s \notin StrongSlot
    /\ \A s \in Slot : ~IsWeak(s) => s \in StrongSlot
    /\ Temps \cap Frames = {}
  <1>1. \A s \in Temps : s[1] \in Int /\ s[1] < 0
    BY ArcAssumption DEF Temps, Temp
  <1>2. \A s \in Frames : s[1] \in 1 .. MaxDepth
    BY DEF Frames, FrameSlots
  <1>3. \A s \in Root : s[1] \in Int
    <2>1. \A s \in Globals : s[1] = 0
      BY DEF Globals
    <2> QED
      BY <1>1, <1>2, <2>1, ArcAssumption DEF Root
  <1>4. \A s \in Root : s[1] \notin Obj
    BY <1>3, ArcAssumption
  <1>5. \A s \in StrongSlot : s \in Root \/ s \in Obj \X StrongField
    BY DEF StrongSlot
  <1>6. \A f \in StrongField : f \notin WeakField
    BY ArcAssumption DEF StrongField
  <1>7. \A s \in Slot : IsWeak(s) => s \notin StrongSlot
    BY <1>4, <1>5, <1>6 DEF IsWeak, Heap
  <1>8. \A s \in Slot : ~IsWeak(s) => s \in StrongSlot
    BY DEF Slot, IsWeak, Heap
  <1>9. Temps \cap Frames = {}
    BY <1>1, <1>2, ArcAssumption
  <1> QED
    BY <1>1, <1>2, <1>3, <1>4, <1>5, <1>7, <1>8, <1>9

\* Registers have one name each.
LEMMA TempInjective ==
    ASSUME NEW i \in Int, NEW j \in Int, NEW k \in Int, NEW m \in Int, Temp(i, k) = Temp(j, m)
    PROVE  i = j /\ k = m
  BY DEF Temp

-----------------------------------------------------------------------------
(* What the statements emit. *)

\* NEW, and a store of a borrowed value: retain, release the displaced value,
\* store.
LEMMA StoreRetained ==
    ASSUME NEW E, NEW H, NEW v, NEW t \in Temps, t \in E, NEW x \in StrongSlot \ Temps,
           NEW c \in Seq(Instr), Len(c) = 3, c[1] = Retain(v, t), c[2] = Drop(x), c[3] = Move(x, t)
    PROVE  /\ SafeCode(E, H, c)
           /\ \A s \in StrongSlot : s \in E /\ s # x => s \in EmptyAfter(E, c)
  <1>1. /\ Len(c) = 3
        /\ c[1].op = "retain" /\ c[1].slot = t
        /\ c[2].op = "release" /\ c[2].slot = x
        /\ c[3].op = "move" /\ c[3].slot = x /\ c[3].from = t
    BY DEF Retain, Drop, Move
  <1>2. t \in Root /\ t \in StrongSlot /\ t # x
    BY SlotFacts
  <1>3. EmptyBy(E, c, t, 1)
    BY DEF EmptyBy
  <1>4. EmptyBy(E, c, x, 3)
    <2>1. 2 \in 1 .. 3 - 1 /\ Empties(c[2], x) /\ \A m \in 2 + 1 .. 3 - 1 : ~Fills(c[m], x)
      BY <1>1 DEF Empties
    <2> QED
      BY <2>1 DEF EmptyBy
  <1>5. HeldBy(H, c, t, 3)
    <2>1. 1 \in 1 .. 3 - 1 /\ Fills(c[1], t) /\ ~Empties(c[2], t)
      BY <1>1, <1>2 DEF Empties, Fills
    <2>2. \A m \in 1 + 1 .. 3 - 1 : m = 2
      OBVIOUS
    <2> QED
      BY <2>1, <2>2 DEF HeldBy
  <1>6. SafeCode(E, H, c)
    <2>1. SafeInstr(E, H, c, 1)
      BY <1>1, <1>2, <1>3 DEF SafeInstr
    <2>2. SafeInstr(E, H, c, 2)
      BY <1>1 DEF SafeInstr
    <2>3. SafeInstr(E, H, c, 3)
      BY <1>1, <1>4, <1>5 DEF SafeInstr
    <2> QED
      BY <1>1, <2>1, <2>2, <2>3 DEF SafeCode
  <1>7. t \in EmptyAfter(E, c)
    <2>1. 3 \in 1 .. Len(c) /\ Empties(c[3], t) /\ \A m \in 3 + 1 .. Len(c) : ~Fills(c[m], t)
      BY <1>1 DEF Empties
    <2> QED
      BY <1>2, <2>1, Emptied
  <1>8. ASSUME NEW s \in StrongSlot, s \in E, s # x, s # t
        PROVE  s \in EmptyAfter(E, c)
    <2>1. \A m \in 1 .. Len(c) : m = 1 \/ m = 2 \/ m = 3
      BY <1>1
    <2>2. ~Fills(c[1], s) /\ ~Fills(c[2], s) /\ ~Fills(c[3], s)
      BY <1>1, <1>8 DEF Fills
    <2>3. \A m \in 1 .. Len(c) : ~Fills(c[m], s)
      BY <2>1, <2>2
    <2> QED
      BY <2>3, <1>8, StaysEmpty
  <1> QED
    BY <1>6, <1>7, <1>8

\* A store of an owned value.
LEMMA StoreOwned ==
    ASSUME NEW E, NEW H, NEW t \in Temps, t \in H, NEW x \in StrongSlot \ Temps,
           NEW c \in Seq(Instr), Len(c) = 2, c[1] = Drop(x), c[2] = Move(x, t)
    PROVE  /\ SafeCode(E, H, c)
           /\ \A s \in StrongSlot : s \in E /\ s # x => s \in EmptyAfter(E, c)
           /\ t \in EmptyAfter(E, c)
  <1>1. /\ Len(c) = 2
        /\ c[1].op = "release" /\ c[1].slot = x
        /\ c[2].op = "move" /\ c[2].slot = x /\ c[2].from = t
    BY DEF Drop, Move
  <1>2. t \in StrongSlot /\ t # x
    BY SlotFacts
  <1>3. EmptyBy(E, c, x, 2)
    <2>1. 1 \in 1 .. 2 - 1 /\ Empties(c[1], x) /\ \A m \in 1 + 1 .. 2 - 1 : ~Fills(c[m], x)
      BY <1>1 DEF Empties
    <2> QED
      BY <2>1 DEF EmptyBy
  <1>4. HeldBy(H, c, t, 2)
    <2>1. \A m \in 1 .. 2 - 1 : m = 1
      OBVIOUS
    <2>2. ~Empties(c[1], t)
      BY <1>1, <1>2 DEF Empties
    <2> QED
      BY <2>1, <2>2 DEF HeldBy
  <1>5. SafeCode(E, H, c)
    <2>1. SafeInstr(E, H, c, 1)
      BY <1>1 DEF SafeInstr
    <2>2. SafeInstr(E, H, c, 2)
      BY <1>1, <1>3, <1>4 DEF SafeInstr
    <2> QED
      BY <1>1, <2>1, <2>2 DEF SafeCode
  <1>6. t \in EmptyAfter(E, c)
    <2>1. 2 \in 1 .. Len(c) /\ Empties(c[2], t) /\ \A m \in 2 + 1 .. Len(c) : ~Fills(c[m], t)
      BY <1>1 DEF Empties
    <2> QED
      BY <1>2, <2>1, Emptied
  <1>7. ASSUME NEW s \in StrongSlot, s \in E, s # x
        PROVE  s \in EmptyAfter(E, c)
    <2>1. \A m \in 1 .. Len(c) : m = 1 \/ m = 2
      BY <1>1
    <2>2. ~Fills(c[1], s) /\ ~Fills(c[2], s)
      BY <1>1, <1>7 DEF Fills
    <2> QED
      BY <2>1, <2>2, <1>7, After
  <1> QED
    BY <1>5, <1>6, <1>7

\* A store to a weak field.
LEMMA StoreWeak ==
    ASSUME NEW E, NEW H, NEW v, NEW t \in StrongSlot, Exact => t \in E,
           NEW x \in Slot, IsWeak(x),
           NEW c \in Seq(Instr), Len(c) = 2, c[1] = Poke(x, v), c[2] = Forget({t})
    PROVE  /\ SafeCode(E, H, c)
           /\ \A s \in StrongSlot : s \in E => s \in EmptyAfter(E, c)
           /\ t \in EmptyAfter(E, c)
  <1>1. /\ Len(c) = 2
        /\ c[1].op = "poke" /\ c[1].slot = x
        /\ c[2].op = "forget" /\ c[2].slots = {t}
    BY DEF Poke, Forget
  <1>2. ASSUME NEW s \in StrongSlot
        PROVE  ~Fills(c[1], s) /\ ~Fills(c[2], s)
    BY <1>1, SlotKinds DEF Fills
  <1>3. t \in E => EmptyBy(E, c, t, 2)
    <2>1. \A m \in 1 .. 2 - 1 : m = 1
      OBVIOUS
    <2> QED
      BY <1>2, <2>1 DEF EmptyBy
  <1>4. SafeCode(E, H, c)
    <2>1. SafeInstr(E, H, c, 1)
      BY <1>1 DEF SafeInstr
    <2>2. SafeInstr(E, H, c, 2)
      BY <1>1, <1>3 DEF SafeInstr
    <2> QED
      BY <1>1, <2>1, <2>2 DEF SafeCode
  <1>5. ASSUME NEW s \in StrongSlot, s \in E
        PROVE  s \in EmptyAfter(E, c)
    <2>1. \A m \in 1 .. Len(c) : m = 1 \/ m = 2
      BY <1>1
    <2>2. \A m \in 1 .. Len(c) : ~Fills(c[m], s)
      BY <2>1, <1>2
    <2> QED
      BY <2>2, <1>5, StaysEmpty
  <1>6. t \in EmptyAfter(E, c)
    <2>1. c[2].op = "forget" /\ t \in c[2].slots
      BY <1>1, Zenon
    <2>2. Empties(c[2], t) /\ ~Fills(c[2], t)
      BY <2>1 DEF Empties, Fills
    <2>3. 2 \in 1 .. Len(c) /\ \A m \in 2 + 1 .. Len(c) : FALSE
      BY <1>1
    <2> QED
      BY <2>2, <2>3, Emptied
  <1> QED
    BY <1>4, <1>5, <1>6

\* The value of a RETURN: retained, its operand register given up.
LEMMA ResultSafe ==
    ASSUME NEW E, NEW H, NEW v, NEW r \in Temps, r \in E, NEW t \in Temps, Exact => t \in E, t # r,
           NEW c \in Seq(Instr), Len(c) = 2, c[1] = Retain(v, r), c[2] = Forget({t})
    PROVE  /\ SafeCode(E, H, c)
           /\ \A s \in StrongSlot : s \in E /\ s # r => s \in EmptyAfter(E, c)
           /\ t \in EmptyAfter(E, c)
  <1>1. /\ Len(c) = 2
        /\ c[1].op = "retain" /\ c[1].slot = r
        /\ c[2].op = "forget" /\ c[2].slots = {t}
    BY DEF Retain, Forget
  <1>2. t \in StrongSlot /\ r \in Root
    BY SlotFacts
  <1>3. ASSUME NEW s \in StrongSlot, s # r
        PROVE  ~Fills(c[1], s) /\ ~Fills(c[2], s)
    BY <1>1, <1>3 DEF Fills
  <1>4. EmptyBy(E, c, r, 1)
    BY DEF EmptyBy
  <1>5. t \in E => EmptyBy(E, c, t, 2)
    <2>1. \A m \in 1 .. 2 - 1 : m = 1
      OBVIOUS
    <2> QED
      BY <1>2, <1>3, <2>1 DEF EmptyBy
  <1>6. SafeCode(E, H, c)
    <2>1. SafeInstr(E, H, c, 1)
      BY <1>1, <1>2, <1>4 DEF SafeInstr
    <2>2. SafeInstr(E, H, c, 2)
      BY <1>1, <1>5 DEF SafeInstr
    <2> QED
      BY <1>1, <2>1, <2>2 DEF SafeCode
  <1>7. ASSUME NEW s \in StrongSlot, s \in E, s # r
        PROVE  s \in EmptyAfter(E, c)
    <2>1. \A m \in 1 .. Len(c) : m = 1 \/ m = 2
      BY <1>1
    <2>2. \A m \in 1 .. Len(c) : ~Fills(c[m], s)
      BY <2>1, <1>3, <1>7
    <2> QED
      BY <2>2, <1>7, StaysEmpty
  <1>8. t \in EmptyAfter(E, c)
    <2>1. c[2].op = "forget" /\ t \in c[2].slots
      BY <1>1, Zenon
    <2>2. Empties(c[2], t) /\ ~Fills(c[2], t)
      BY <2>1 DEF Empties, Fills
    <2>3. 2 \in 1 .. Len(c) /\ \A m \in 2 + 1 .. Len(c) : FALSE
      BY <1>1
    <2> QED
      BY <1>2, <2>2, <2>3, Emptied
  <1> QED
    BY <1>6, <1>7, <1>8

\* Storage whose slots are all empty ends.
LEMMA ForgetBlock ==
    ASSUME NEW E, NEW H, NEW S \in SUBSET StrongSlot, S \subseteq E,
           NEW c \in Seq(Instr), c = <<Forget(S)>>
    PROVE  /\ SafeCode(E, H, c)
           /\ \A s \in StrongSlot : s \in E => s \in EmptyAfter(E, c)
  <1>1. Len(c) = 1 /\ c[1].op = "forget" /\ c[1].slots = S
    BY DEF Forget
  <1>2. \A s \in S : EmptyBy(E, c, s, 1)
    BY DEF EmptyBy
  <1>3. SafeInstr(E, H, c, 1)
    BY <1>1, <1>2 DEF SafeInstr
  <1>4. SafeCode(E, H, c)
    BY <1>1, <1>3 DEF SafeCode
  <1>5. ASSUME NEW s \in StrongSlot, s \in E
        PROVE  s \in EmptyAfter(E, c)
    <2>1. \A m \in 1 .. Len(c) : ~Fills(c[m], s)
      BY <1>1 DEF Fills
    <2> QED
      BY <2>1, <1>5, StaysEmpty
  <1> QED
    BY <1>4, <1>5

\* Releases of a set of slots, whose storage then ends.
LEMMA DropForget ==
    ASSUME NEW E, NEW H, NEW S \in SUBSET StrongSlot,
           NEW a \in Seq(Instr), NEW b \in Seq(Instr), b = <<Forget(S)>>,
           \A k \in 1 .. Len(a) : a[k].op = "release" /\ a[k].slot \in StrongSlot,
           \A s \in S : \E k \in 1 .. Len(a) : a[k].slot = s
    PROVE  /\ SafeCode(E, H, a \o b)
           /\ \A s \in StrongSlot : s \in E => s \in EmptyAfter(E, a \o b)
           /\ S \subseteq EmptyAfter(E, a \o b)
  <1> DEFINE E2 == EmptyAfter(E, a)
             H2 == HeldAfter(H, a)
  <1>1. /\ SafeCode(E, H, a)
        /\ \A s \in StrongSlot : s \in E => s \in E2
        /\ S \subseteq E2
    BY DropBlock
  <1>2. /\ SafeCode(E2, H2, b)
        /\ \A s \in StrongSlot : s \in E2 => s \in EmptyAfter(E2, b)
    <2> HIDE DEF E2, H2
    <2> QED
      BY <1>1, ForgetBlock
  <1>3. /\ SafeCode(E, H, a \o b)
        /\ EmptyAfter(E2, b) \subseteq EmptyAfter(E, a \o b)
    BY <1>1, <1>2, Concat
  <1> HIDE DEF E2, H2
  <1> QED
    BY <1>1, <1>2, <1>3

\* The epilogue, when every pointer of the frame is tracked.
LEMMA LeaveSafe ==
    ASSUME NEW E, NEW H, NEW d \in 1 .. MaxDepth, Len(Params \o Locals) <= MaxLocalPtrs
    PROVE  /\ SafeCode(E, H, LeaveCode(d))
           /\ \A s \in StrongSlot : s \in E => s \in EmptyAfter(E, LeaveCode(d))
           /\ FrameSlots(d) \subseteq EmptyAfter(E, LeaveCode(d))
  <1> DEFINE all == Params \o Locals
             n == Len(all)
             a == [k \in 1 .. n |-> Drop(<<d, all[k]>>)]
             b == <<Forget(FrameSlots(d))>>
  <1>1. n \in Nat
    BY ArcAssumption
  <1>2. LeaveCode(d) = a \o b
    BY DEF LeaveCode, ForEach
  <1>3. FrameSlots(d) \in SUBSET StrongSlot
    BY FrameWord, SlotFacts
  <1>4. \A k \in 1 .. n : <<d, all[k]>> \in FrameSlots(d)
    BY DEF FrameSlots
  <1>5. \A s \in FrameSlots(d) : \E k \in 1 .. n : s = <<d, all[k]>>
    BY DEF FrameSlots
  <1> HIDE DEF n, all
  <1>6. a \in Seq(Instr) /\ Len(a) = n
    BY <1>1, <1>3, <1>4, SlotFacts, FcnIsSeq DEF Drop, Instr
  <1>7. \A k \in 1 .. Len(a) : a[k].op = "release" /\ a[k].slot = <<d, all[k]>>
    BY <1>6 DEF Drop
  <1>8. b \in Seq(Instr)
    BY FrameWord DEF Forget, Instr
  <1> HIDE DEF a, b
  <1>9. \A k \in 1 .. Len(a) : a[k].op = "release" /\ a[k].slot \in StrongSlot
    BY <1>3, <1>4, <1>6, <1>7
  <1>10. \A s \in FrameSlots(d) : \E k \in 1 .. Len(a) : a[k].slot = s
    BY <1>5, <1>6, <1>7
  <1> QED
    BY <1>2, <1>3, <1>6, <1>8, <1>9, <1>10, DropForget DEF b

\* The operands of expression i.
LEMMA DropArgsSafe ==
    ASSUME NEW E, NEW H, NEW i \in 1 .. MaxCtx
    PROVE  /\ SafeCode(E, H, DropArgs(i))
           /\ \A s \in StrongSlot : s \in E => s \in EmptyAfter(E, DropArgs(i))
           /\ \A k \in 1 .. Arity(ctx[i].kind) : Temp(i, k) \in EmptyAfter(E, DropArgs(i))
  <1> DEFINE n == Arity(ctx[i].kind)
             S == {Temp(i, k) : k \in 1 .. n}
             a == [k \in 1 .. n |-> Drop(Temp(i, k))]
             b == <<Forget(S)>>
  <1>1. n \in Nat /\ \A k \in 1 .. n : Temp(i, k) \in Root
    BY TempFacts, SlotFacts
  <1>2. DropArgs(i) = a \o b
    BY DEF DropArgs, ForEach
  <1> HIDE DEF n
  <1>3. S \in SUBSET StrongSlot /\ S \in SUBSET Root
    BY <1>1, SlotFacts
  <1>4. a \in Seq(Instr) /\ Len(a) = n
    BY <1>1, SlotFacts, FcnIsSeq DEF Drop, Instr
  <1>5. \A k \in 1 .. Len(a) : a[k].op = "release" /\ a[k].slot = Temp(i, k)
    BY <1>4 DEF Drop
  <1>6. b \in Seq(Instr)
    BY <1>3 DEF Forget, Instr
  <1>7. \A k \in 1 .. n : Temp(i, k) \in S
    OBVIOUS
  <1>8. \A s \in S : \E k \in 1 .. n : s = Temp(i, k)
    OBVIOUS
  <1> HIDE DEF a, b, S
  <1>9. \A k \in 1 .. Len(a) : a[k].op = "release" /\ a[k].slot \in StrongSlot
    BY <1>3, <1>4, <1>5, <1>7
  <1>10. \A s \in S : \E k \in 1 .. Len(a) : a[k].slot = s
    BY <1>4, <1>5, <1>8
  <1>11. /\ SafeCode(E, H, a \o b)
         /\ \A s \in StrongSlot : s \in E => s \in EmptyAfter(E, a \o b)
         /\ S \subseteq EmptyAfter(E, a \o b)
    BY <1>3, <1>4, <1>6, <1>9, <1>10, DropForget DEF b
  <1> QED
    BY <1>2, <1>7, <1>11 DEF n

\* The prologue fills the words of a new frame.
LEMMA EnterSafe ==
    ASSUME NEW E, NEW H, NEW d \in 1 .. MaxDepth, NEW vals \in Seq(Value),
           Len(vals) = Len(Params), FrameSlots(d) \subseteq E
    PROVE  /\ SafeCode(E, H, EnterCode(d, vals))
           /\ \A s \in StrongSlot : s \in E /\ s \notin FrameSlots(d)
                 => s \in EmptyAfter(E, EnterCode(d, vals))
  <1> DEFINE all == Params \o Locals
             p == Len(Params)
             q == Len(Locals)
             a == [k \in 1 .. p |-> Retain(vals[k], <<d, Params[k]>>)]
             b == [k \in 1 .. q |-> Clear(<<d, Locals[k]>>)]
             c == EnterCode(d, vals)
  <1>1. c = a \o b
    BY DEF EnterCode, ForEach
  <1>2. p \in Nat /\ q \in Nat /\ Len(all) = p + q
        /\ (\A k \in 1 .. p : all[k] = Params[k])
        /\ (\A k \in 1 .. q : all[p + k] = Locals[k])
        /\ \A j, k \in 1 .. Len(all) : all[j] = all[k] => j = k
    BY ArcAssumption
  <1>3. \A k \in 1 .. Len(all) : <<d, all[k]>> \in FrameSlots(d)
    BY DEF FrameSlots
  <1>4. FrameSlots(d) \subseteq Root
    BY FrameWord
  <1>5. c \in Seq(Instr)
    BY EnterCodeType
  <1>6. a \in Seq(Instr) /\ Len(a) = p
    BY <1>2, FrameWord, FcnIsSeq DEF Retain, Instr
  <1>7. b \in Seq(Instr) /\ Len(b) = q
    BY <1>2, FrameWord, SlotFacts, FcnIsSeq DEF Clear, Instr
  <1>8. \A k \in 1 .. p : a[k].op = "retain" /\ a[k].slot = <<d, Params[k]>>
    BY DEF Retain
  <1>9. \A k \in 1 .. q : b[k].op = "clear" /\ b[k].slot = <<d, Locals[k]>>
    BY DEF Clear
  <1> HIDE DEF all, p, q, a, b, c
  <1>10. Len(c) = p + q /\ (\A k \in 1 .. p : c[k] = a[k])
                        /\ (\A k \in 1 .. q : c[p + k] = b[k])
    BY <1>1, <1>6, <1>7, ConcatProperties
  <1>0. p \in Nat /\ q \in Nat /\ Len(c) = p + q /\ Len(all) = Len(c)
    BY <1>2, <1>10
  <1>11. ASSUME NEW k \in 1 .. Len(c)
         PROVE  c[k].op \in {"retain", "clear"} /\ c[k].slot = <<d, all[k]>>
    <2>1. CASE k <= p
      <3>1. k \in 1 .. p
        BY <1>2, <1>10, <2>1
      <3> QED
        BY <3>1, <1>2, <1>8, <1>10
    <2>2. CASE k > p
      <3> DEFINE m == k - p
      <3>1. m \in 1 .. q /\ k = p + m
        BY <1>0, <2>2
      <3> HIDE DEF m
      <3>2. c[p + m] = b[m] /\ all[p + m] = Locals[m]
        BY <3>1, <1>2, <1>10
      <3>3. c[k] = b[m] /\ all[k] = Locals[m]
        BY <3>1, <3>2
      <3> QED
        BY <3>1, <3>3, <1>9
    <2> QED
      BY <1>2, <1>10, <2>1, <2>2
  <1>12. \A k \in 1 .. Len(c) : /\ c[k].op \in {"retain", "clear"}
                                /\ c[k].slot \in Root /\ c[k].slot \in E
                                /\ c[k].slot \in FrameSlots(d)
    <2> TAKE k \in 1 .. Len(c)
    <2>1. c[k].op \in {"retain", "clear"} /\ c[k].slot = <<d, all[k]>>
      BY <1>11
    <2>2. <<d, all[k]>> \in FrameSlots(d)
      BY <1>0, <1>3
    <2> QED
      BY <2>1, <2>2, <1>4
  <1>13. \A k, m \in 1 .. Len(c) : c[k].slot = c[m].slot => k = m
    BY <1>0, <1>2, <1>11
  <1>14. /\ SafeCode(E, H, c)
         /\ \A s \in StrongSlot : s \in E /\ (\A k \in 1 .. Len(c) : c[k].slot # s)
                 => s \in EmptyAfter(E, c)
    BY <1>5, <1>12, <1>13, FillBlock
  <1> QED
    BY <1>12, <1>14 DEF c

\* The copy of a record body fills and empties no strong slot.
LEMMA CopyBlock ==
    ASSUME NEW E, NEW H, NEW o, NEW q, NEW c \in Seq(Instr), c = <<Copy(o, q)>>
    PROVE  /\ SafeCode(E, H, c)
           /\ \A s \in StrongSlot : s \in E => s \in EmptyAfter(E, c)
           /\ \A s \in Temps : s \in H => s \in HeldAfter(H, c)
  <1>1. Len(c) = 1 /\ c[1].op = "copy"
    BY DEF Copy
  <1>2. SafeCode(E, H, c)
    BY <1>1 DEF SafeCode, SafeInstr
  <1>3. ASSUME NEW s \in StrongSlot, s \in E
        PROVE  s \in EmptyAfter(E, c)
    <2>1. \A m \in 1 .. Len(c) : ~Fills(c[m], s)
      BY <1>1 DEF Fills
    <2> QED
      BY <2>1, <1>3, StaysEmpty
  <1>4. ASSUME NEW s \in Temps, s \in H
        PROVE  s \in HeldAfter(H, c)
    <2>1. \A m \in 1 .. Len(c) : ~Empties(c[m], s)
      BY <1>1 DEF Empties
    <2> QED
      BY <2>1, <1>4, After
  <1> QED
    BY <1>2, <1>3, <1>4

\* Record assignment: the fields of the source are retained in registers, the
\* fields of the destination released and then filled from the registers.
LEMMA RecordSafe ==
    ASSUME TypeOK, NEW E, NEW H, NEW o \in Obj, NEW q \in Obj,
           \A k \in 1 .. Len(PtrOffsets) : Flight(k) \in E
    PROVE  /\ SafeCode(E, H, RecordAssignCode(o, q))
           /\ \A s \in StrongSlot : s \in E /\ s[1] \notin Obj
                 => s \in EmptyAfter(E, RecordAssignCode(o, q))
  <1> DEFINE n == Len(PtrOffsets)
             F(k) == Flight(k)
             P(k) == PtrField(o, k)
             a == [k \in 1 .. n |-> Retain(mem[PtrField(q, k)], F(k))]
             b == [k \in 1 .. n |-> Drop(P(k))]
             c == <<Copy(o, q)>>
             d == [k \in 1 .. n |-> Move(P(k), F(k))]
  <1>1. n \in Nat
    BY ArcAssumption
  <1>2. \A k \in 1 .. n : F(k) \in Temps /\ F(k) \in Root /\ F(k) \in StrongSlot /\ F(k) \in E
                          /\ F(k)[1] \notin Obj
    BY SlotFacts, SlotKinds, TempFacts, ArcAssumption DEF Flight
  <1>3. \A k, m \in 1 .. n : F(k) = F(m) => k = m
    BY DEF Flight, Temp
  <1>4. \A k, m \in 1 .. n : P(k) = P(m) => k = m
    BY ArcAssumption DEF PtrField
  <1>5. \A k \in 1 .. n : P(k) \in StrongSlot /\ P(k) \in Slot /\ P(k)[1] \in Obj
    BY SlotFacts DEF PtrField, StrongField, StrongSlot
  <1>6. \A k \in 1 .. n : P(k) \notin Temps
    BY <1>5, SlotKinds, SlotFacts
  <1>7. \A k \in 1 .. n : mem[PtrField(q, k)] \in Value
    BY SlotFacts DEF PtrField, StrongField, TypeOK
  <1>8. RecordAssignCode(o, q) = a \o b \o c \o d
    BY DEF RecordAssignCode, ForEach
  <1> HIDE DEF n, F, P
  <1>9. a \in Seq(Instr) /\ Len(a) = n
        /\ \A k \in 1 .. n : a[k].op = "retain" /\ a[k].slot = F(k)
    BY <1>1, <1>2, <1>7, FcnIsSeq DEF Retain, Instr
  <1>10. b \in Seq(Instr) /\ Len(b) = n
         /\ \A k \in 1 .. n : b[k].op = "release" /\ b[k].slot = P(k)
    BY <1>1, <1>5, FcnIsSeq DEF Drop, Instr
  <1>11. c \in Seq(Instr)
    BY DEF Copy, Instr
  <1>12. d \in Seq(Instr) /\ Len(d) = n
         /\ \A k \in 1 .. n : d[k].op = "move" /\ d[k].slot = P(k) /\ d[k].from = F(k)
    BY <1>1, <1>2, <1>5, FcnIsSeq DEF Move, Instr
  <1> HIDE DEF a, b, d
  <1> DEFINE E1 == EmptyAfter(E, a)
             H1 == HeldAfter(H, a)
             E2 == EmptyAfter(E, a \o b)
             H2 == HeldAfter(H, a \o b)
             E3 == EmptyAfter(E, a \o b \o c)
             H3 == HeldAfter(H, a \o b \o c)
  <1>13. /\ SafeCode(E, H, a)
         /\ \A s \in StrongSlot : s \in E /\ (\A k \in 1 .. n : F(k) # s) => s \in E1
         /\ \A k \in 1 .. n : F(k) \in H1
    <2>1. \A k \in 1 .. Len(a) : /\ a[k].op \in {"retain", "clear"}
                                 /\ a[k].slot \in Root /\ a[k].slot \in E
      BY <1>2, <1>9
    <2>2. \A k, m \in 1 .. Len(a) : a[k].slot = a[m].slot => k = m
      BY <1>3, <1>9
    <2>3. /\ SafeCode(E, H, a)
          /\ \A s \in StrongSlot : s \in E /\ (\A k \in 1 .. Len(a) : a[k].slot # s) => s \in E1
          /\ \A k \in 1 .. Len(a) : a[k].slot \in Temps => a[k].slot \in H1
      BY <1>9, <2>1, <2>2, FillBlock
    <2> HIDE DEF E1, H1
    <2> QED
      BY <2>3, <1>2, <1>9
  <1>14. /\ SafeCode(E, H, a \o b) /\ a \o b \in Seq(Instr)
         /\ \A s \in StrongSlot : s \in E1 => s \in E2
         /\ \A k \in 1 .. n : P(k) \in E2 /\ F(k) \in H2
    <2> HIDE DEF E1, H1
    <2>1. \A k \in 1 .. Len(b) : b[k].op = "release" /\ b[k].slot \in StrongSlot
      BY <1>5, <1>10
    <2>2. /\ SafeCode(E1, H1, b)
          /\ \A s \in StrongSlot : s \in E1 => s \in EmptyAfter(E1, b)
          /\ \A k \in 1 .. Len(b) : b[k].slot \in EmptyAfter(E1, b)
          /\ \A s \in Temps : s \in H1 /\ (\A k \in 1 .. Len(b) : b[k].slot # s)
                 => s \in HeldAfter(H1, b)
      BY <1>10, <2>1, DropBlock
    <2>3. \A k \in 1 .. n : P(k) \in EmptyAfter(E1, b) /\ F(k) \in HeldAfter(H1, b)
      BY <1>2, <1>6, <1>10, <1>13, <2>2
    <2>4. /\ SafeCode(E, H, a \o b) /\ EmptyAfter(E1, b) \subseteq E2
          /\ HeldAfter(H1, b) \subseteq H2
      BY <1>9, <1>10, <1>13, <2>2, Concat DEF E1, H1
    <2> HIDE DEF E2, H2
    <2> QED
      BY <1>9, <1>10, <2>2, <2>3, <2>4
  <1>15. /\ SafeCode(E, H, a \o b \o c) /\ a \o b \o c \in Seq(Instr)
         /\ \A s \in StrongSlot : s \in E2 => s \in E3
         /\ \A k \in 1 .. n : F(k) \in H3
    <2> HIDE DEF E1, H1, E2, H2
    <2>1. /\ SafeCode(E2, H2, c)
          /\ \A s \in StrongSlot : s \in E2 => s \in EmptyAfter(E2, c)
          /\ \A s \in Temps : s \in H2 => s \in HeldAfter(H2, c)
      BY <1>11, CopyBlock
    <2> HIDE DEF c
    <2>2. /\ SafeCode(E, H, a \o b \o c) /\ EmptyAfter(E2, c) \subseteq E3
          /\ HeldAfter(H2, c) \subseteq H3
      BY <1>11, <1>14, <2>1, Concat DEF E2, H2
    <2> HIDE DEF E3, H3
    <2> QED
      BY <1>2, <1>11, <1>14, <2>1, <2>2
  <1> HIDE DEF c
  <1>16. /\ SafeCode(E, H, a \o b \o c \o d)
         /\ \A s \in StrongSlot : s \in E3 /\ s[1] \notin Obj
               => s \in EmptyAfter(E, a \o b \o c \o d)
         /\ \A k \in 1 .. n : F(k) \in EmptyAfter(E, a \o b \o c \o d)
    <2> HIDE DEF E1, H1, E2, H2, E3, H3
    <2>1. \A k \in 1 .. Len(d) : /\ d[k].op = "move"
                                 /\ d[k].slot \in StrongSlot \ Temps /\ d[k].slot \in E3
                                 /\ d[k].from \in Temps /\ d[k].from \in H3
      BY <1>2, <1>5, <1>6, <1>12, <1>14, <1>15
    <2>2. \A k, m \in 1 .. Len(d) : d[k].slot = d[m].slot \/ d[k].from = d[m].from => k = m
      BY <1>3, <1>4, <1>12
    <2>3. /\ SafeCode(E3, H3, d)
          /\ \A s \in StrongSlot : s \in E3 /\ (\A k \in 1 .. Len(d) : d[k].slot # s)
                 => s \in EmptyAfter(E3, d)
          /\ \A k \in 1 .. Len(d) : d[k].from \in EmptyAfter(E3, d)
      BY <1>12, <2>1, <2>2, MoveBlock
    <2>4. /\ SafeCode(E, H, a \o b \o c \o d)
          /\ EmptyAfter(E3, d) \subseteq EmptyAfter(E, a \o b \o c \o d)
      BY <1>12, <1>15, <2>3, Concat DEF E3, H3
    <2>5. \A s \in StrongSlot : s[1] \notin Obj => \A k \in 1 .. Len(d) : d[k].slot # s
      BY <1>5, <1>12
    <2>6. \A k \in 1 .. n : F(k) \in EmptyAfter(E3, d)
      BY <1>12, <2>3
    <2> QED
      BY <2>3, <2>4, <2>5, <2>6
  <1>17. ASSUME NEW s \in StrongSlot, s \in E, s[1] \notin Obj
         PROVE  s \in EmptyAfter(E, a \o b \o c \o d)
    <2> HIDE DEF E1, H1, E2, H2, E3, H3
    <2>1. CASE \E k \in 1 .. n : F(k) = s
      BY <2>1, <1>16
    <2>2. CASE \A k \in 1 .. n : F(k) # s
      BY <2>2, <1>13, <1>14, <1>15, <1>16, <1>17
    <2> QED
      BY <2>1, <2>2
  <1> QED
    BY <1>8, <1>16, <1>17

\* The epilogue of the callee and the release of the caller's arguments.
LEMMA FinishSafe ==
    ASSUME NEW E, NEW H, NEW d \in 1 .. MaxDepth, NEW i \in 1 .. MaxCtx,
           Len(Params \o Locals) <= MaxLocalPtrs
    PROVE  /\ SafeCode(E, H, LeaveCode(d) \o DropArgs(i))
           /\ \A s \in StrongSlot : s \in E => s \in EmptyAfter(E, LeaveCode(d) \o DropArgs(i))
           /\ FrameSlots(d) \subseteq EmptyAfter(E, LeaveCode(d) \o DropArgs(i))
           /\ \A k \in 1 .. Arity(ctx[i].kind) :
                 Temp(i, k) \in EmptyAfter(E, LeaveCode(d) \o DropArgs(i))
  <1> DEFINE a == LeaveCode(d)
             b == DropArgs(i)
             E1 == EmptyAfter(E, a)
             H1 == HeldAfter(H, a)
  <1>1. a \in Seq(Instr) /\ b \in Seq(Instr)
    BY LeaveCodeType, DropArgsType
  <1>2. /\ SafeCode(E, H, a)
        /\ \A s \in StrongSlot : s \in E => s \in E1
        /\ FrameSlots(d) \subseteq E1
    BY LeaveSafe
  <1>3. /\ SafeCode(E1, H1, b)
        /\ \A s \in StrongSlot : s \in E1 => s \in EmptyAfter(E1, b)
        /\ \A k \in 1 .. Arity(ctx[i].kind) : Temp(i, k) \in EmptyAfter(E1, b)
    <2> HIDE DEF E1, H1
    <2> QED
      BY DropArgsSafe
  <1> HIDE DEF a, b
  <1>4. SafeCode(E, H, a \o b) /\ EmptyAfter(E1, b) \subseteq EmptyAfter(E, a \o b)
    BY <1>1, <1>2, <1>3, Concat
  <1>5. FrameSlots(d) \subseteq StrongSlot
    BY FrameWord, SlotFacts
  <1> HIDE DEF E1, H1
  <1> QED
    BY <1>2, <1>3, <1>4, <1>5 DEF a, b

-----------------------------------------------------------------------------
(* Facts about the heap. *)

\* There are finitely many counted words.
LEMMA RangeFinite ==
    ASSUME NEW S, NEW q \in Seq(S)
    PROVE  IsFiniteSet({q[i] : i \in 1 .. Len(q)})
  <1> DEFINE D == 1 .. Len(q)
             T == {q[i] : i \in D}
  <1>1. IsFiniteSet(D)
    BY FS_Interval
  <1>2. q \in [D -> T] /\ \A t \in T : \E i \in D : q[i] = t
    OBVIOUS
  <1>3. q \in Surjection(D, T)
    BY <1>2 DEF Surjection
  <1> HIDE DEF D, T
  <1>4. IsFiniteSet(T)
    BY <1>1, <1>3, FS_Surjection DEF ExistsSurjection
  <1> QED
    BY <1>4 DEF T, D

\* So the strong slots are finitely many,
LEMMA StrongFinite == IsFiniteSet(StrongSlot)
  <1> DEFINE all == Params \o Locals
             W == {all[i] : i \in 1 .. Len(all)}
             A == (0 .. MaxDepth) \X (Global \cup W)
             m == IF MaxArity > Len(PtrOffsets) + 1 THEN MaxArity ELSE Len(PtrOffsets) + 1
             B == (-1 - MaxCtx .. -1) \X (0 .. m)
  <1>1. IsFiniteSet(W)
    <2>1. all \in Seq(STRING)
      BY ArcAssumption
    <2> HIDE DEF all
    <2> QED
      BY <2>1, RangeFinite
  <1>2. IsFiniteSet(StrongField)
    BY ArcAssumption, RangeFinite DEF StrongField
  <1>3. IsFiniteSet(A)
    <2>1. IsFiniteSet(Global \cup W)
      <3> HIDE DEF W
      <3> QED
        BY <1>1, ArcAssumption, FS_Union
    <2>2. IsFiniteSet(0 .. MaxDepth)
      BY ArcAssumption, FS_Interval
    <2> HIDE DEF W
    <2> QED
      BY <2>1, <2>2, FS_Product
  <1>4. m \in Nat /\ MaxArity <= m /\ Len(PtrOffsets) + 1 <= m
    BY ArcAssumption, TempFacts
  <1>5. IsFiniteSet(B)
    <2> HIDE DEF m
    <2>1. IsFiniteSet(-1 - MaxCtx .. -1) /\ IsFiniteSet(0 .. m)
      BY <1>4, ArcAssumption, FS_Interval
    <2> QED
      BY <2>1, FS_Product
  <1>6. Globals \cup Frames \subseteq A
    <2>1. Globals \subseteq A
      <3>1. 0 \in 0 .. MaxDepth
        BY ArcAssumption
      <3> QED
        BY <3>1 DEF Globals
    <2>2. \A d \in 1 .. MaxDepth : d \in 0 .. MaxDepth
      BY ArcAssumption
    <2>3. \A d \in 1 .. MaxDepth : FrameSlots(d) \subseteq A
      BY <2>2 DEF FrameSlots
    <2> QED
      BY <2>1, <2>3 DEF Frames
  <1>7. Temps \subseteq B
    <2> HIDE DEF m
    <2>a. MaxArity \in Nat
      BY TempFacts
    <2>b. Len(PtrOffsets) \in Nat /\ MaxCtx \in Nat
      BY ArcAssumption
    <2>0. MaxArity \in Nat /\ Len(PtrOffsets) \in Nat /\ MaxCtx \in Nat
      BY <2>a, <2>b
    <2>1. \A k \in 0 .. Len(PtrOffsets) + 1 : -1 - 0 \in -1 - MaxCtx .. -1 /\ k \in 0 .. m
      BY <1>4, <2>0
    <2>2. \A i \in 1 .. MaxCtx, k \in 1 .. MaxArity :
             -1 - i \in -1 - MaxCtx .. -1 /\ k \in 0 .. m
      BY <1>4, <2>0
    <2> QED
      BY <2>1, <2>2 DEF Temps, Temp
  <1> HIDE DEF A, B
  <1>8. IsFiniteSet(A \cup B) /\ Root \subseteq A \cup B
    BY <1>3, <1>5, <1>6, <1>7, FS_Union DEF Root
  <1>9. IsFiniteSet(Root)
    BY <1>8, FS_Subset
  <1>10. IsFiniteSet(Obj \X StrongField)
    BY <1>2, ArcAssumption, FS_Product
  <1> QED
    BY <1>9, <1>10, FS_Union DEF StrongSlot

\* and so are the owners of an object.
LEMMA HoldersFinite ==
    /\ \A o : IsFiniteSet(Holders(o)) /\ Holders(o) \subseteq StrongSlot
    /\ \A o : IsFiniteSet(Holders(o)') /\ Holders(o)' \subseteq StrongSlot
  <1>1. \A o : Holders(o) \subseteq StrongSlot /\ Holders(o)' \subseteq StrongSlot
    BY DEF Holders, Owning
  <1> QED
    BY <1>1, StrongFinite, FS_Subset

-----------------------------------------------------------------------------
(* The instructions. *)

\* Words out of use are roots.
LEMMA UnusedStrong ==
    ASSUME TypeOK
    PROVE  Unused \subseteq StrongSlot /\ \A s \in Unused : s \in Root
  <1>1. \A k \in 1 .. Len(PtrOffsets) + 1 : Flight(k) \in Root
    BY TempFacts, SlotFacts, ArcAssumption DEF Flight
  <1>2. ctx \in Seq(Context) /\ Len(ctx) <= MaxCtx /\ Len(ctx) \in Nat /\ MaxCtx \in Nat
    BY ArcAssumption DEF TypeOK
  <1>3. \A i \in Len(ctx) + 1 .. MaxCtx, k \in 1 .. MaxArity : Temp(i, k) \in Root
    BY <1>2, TempFacts, SlotFacts
  <1>4. ASSUME NEW i \in 1 .. Len(ctx), NEW k \in Len(ctx[i].vals) + 1 .. MaxArity
        PROVE  Temp(i, k) \in Root
    <2>1. ctx[i] \in Context
      BY <1>2
    <2>2. Len(ctx[i].vals) \in Nat
      BY <2>1 DEF Context
    <2>3. i \in 1 .. MaxCtx /\ k \in 1 .. MaxArity
      BY <1>2, <2>2, TempFacts
    <2> QED
      BY <2>3, TempFacts, SlotFacts
  <1>5. Frames \subseteq Root
    BY SlotFacts
  <1>6. \A s \in Unused : s \in Root
    BY <1>1, <1>3, <1>4, <1>5 DEF Unused
  <1> QED
    BY <1>6, SlotFacts

\* The next instruction finds what it fills empty and what it moves held.
LEMMA First ==
    ASSUME CodeSafe, code \in Seq(Instr), code # <<>>
    PROVE  LET c == Head(code)
           IN  \/ c.op \in {"retain", "clear"} /\ c.slot \in Root /\ c.slot \in EmptyNow
               \/ c.op = "release" /\ c.slot \in StrongSlot
               \/ /\ c.op = "move" /\ c.slot \in StrongSlot \ Temps /\ c.from \in Temps
                  /\ c.slot \in EmptyNow /\ c.from \in HeldNow
               \/ c.op = "poke" /\ c.slot \in Slot /\ IsWeak(c.slot)
               \/ c.op = "copy"
               \/ c.op = "forget" /\ (Exact => \A s \in c.slots : s \in EmptyNow)
  <1>1. 1 \in 1 .. Len(code) /\ code[1] = Head(code)
    OBVIOUS
  <1>2. SafeInstr(EmptyNow, HeldNow, code, 1)
    BY <1>1 DEF CodeSafe, SafeCode
  <1>3. \A s : /\ EmptyBy(EmptyNow, code, s, 1) => s \in EmptyNow
               /\ HeldBy(HeldNow, code, s, 1) => s \in HeldNow
    BY DEF EmptyBy, HeldBy
  <1> QED
    BY <1>1, <1>2, <1>3 DEF SafeInstr

\* The rest of the code, after its first instruction.
LEMMA Advance ==
    ASSUME TypeOK, CodeSafe, UnusedEmpty, CtxOK,
           code # <<>>, code' = Tail(code), UNCHANGED control,
           \A s \in StrongSlot : s \in EmptyNow /\ ~Fills(Head(code), s) => s \in EmptyNow',
           \A s \in StrongSlot : Empties(Head(code), s) => s \in EmptyNow',
           \A s \in Temps : s \in HeldNow /\ ~Empties(Head(code), s) => s \in HeldNow',
           \A s \in Temps : Fills(Head(code), s) => s \in HeldNow'
    PROVE  CodeSafe' /\ UnusedEmpty' /\ CtxOK'
  <1> DEFINE E2 == EmptyNow'
             H2 == HeldNow'
  <1>1. code \in Seq(Instr)
    BY DEF TypeOK
  <1>2. SafeCode(EmptyNow, HeldNow, code)
    BY DEF CodeSafe
  <1>3. SafeCode(E2, H2, Tail(code))
    <2> HIDE DEF E2, H2
    <2>1. /\ \A s \in StrongSlot : s \in EmptyNow /\ ~Fills(Head(code), s) => s \in E2
          /\ \A s \in StrongSlot : Empties(Head(code), s) => s \in E2
          /\ \A s \in Temps : s \in HeldNow /\ ~Empties(Head(code), s) => s \in H2
          /\ \A s \in Temps : Fills(Head(code), s) => s \in H2
      BY DEF E2, H2
    <2> QED
      BY <1>1, <1>2, <2>1, ShiftSafe
  <1>4. CodeSafe'
    BY <1>3 DEF CodeSafe
  <1>5. Unused' = Unused
    BY DEF Unused, control
  <1>6. Len(code) \in 1 .. Len(code) /\ Len(Tail(code)) + 1 = Len(code)
    BY <1>1
  <1>7. ASSUME NEW s \in Unused
        PROVE  EmptyBy(E2, Tail(code), s, Len(Tail(code)) + 1)
    <2>1. s \in StrongSlot
      BY UnusedStrong
    <2>2. EmptyBy(EmptyNow, code, s, Len(code) + 1)
      BY DEF UnusedEmpty
    <2> HIDE DEF E2, H2
    <2>3. /\ \A t \in StrongSlot : t \in EmptyNow /\ ~Fills(Head(code), t) => t \in E2
          /\ \A t \in StrongSlot : Empties(Head(code), t) => t \in E2
          /\ \A t \in Temps : t \in HeldNow /\ ~Empties(Head(code), t) => t \in H2
          /\ \A t \in Temps : Fills(Head(code), t) => t \in H2
      BY DEF E2, H2
    <2>4. \A t \in StrongSlot : EmptyBy(EmptyNow, code, t, Len(code) + 1)
                                  => EmptyBy(E2, Tail(code), t, Len(code))
      BY <1>1, <1>6, <2>3, Shift
    <2> QED
      BY <2>1, <2>2, <2>4, <1>6
  <1>8. UnusedEmpty'
    BY <1>5, <1>7 DEF UnusedEmpty
  <1>9. CtxOK'
    BY DEF CtxOK, control
  <1> QED
    BY <1>4, <1>8, <1>9

\* Nothing the invariant mentions changes.
LEMMA Still ==
    ASSUME IInv, UNCHANGED <<live, rc, mem, stale, cascade, depth, bind, ctx, code>>
    PROVE  IInv'
  BY DEF IInv, Counts, CascadeSafe, SafeCascade, CodeSafe, UnusedEmpty, CtxOK, Holders, Owning,
         EmptyNow, HeldNow, Empty, Released, Unused

\* Stopping on undefined behaviour changes nothing counted.
LEMMA TrapKeeps ==
    ASSUME IInv, Trap
    PROVE  IInv'
  BY Still DEF Trap, Undefined

\* With no release running, what is empty and held is what the words say.
LEMMA Quiet ==
    /\ cascade = <<>> => /\ EmptyNow = {s \in StrongSlot : Empty(s)}
                         /\ HeldNow = {s \in Temps : s \notin stale}
                         /\ CascadeSafe
    /\ cascade' = <<>> => /\ EmptyNow' = {s \in StrongSlot : Empty(s)'}
                          /\ HeldNow' = {s \in Temps : s \notin stale'}
                          /\ CascadeSafe'
  BY DEF EmptyNow, HeldNow, Released, CascadeSafe

\* The words the invariant counts did not change.
LEMMA SameWords ==
    ASSUME UNCHANGED <<live, rc, cascade>>,
           \A s \in StrongSlot : mem'[s] = mem[s] /\ (s \in stale' <=> s \in stale),
           Counts
    PROVE  Counts' /\ EmptyNow' = EmptyNow /\ HeldNow' = HeldNow
  <1>1. \A o : Holders(o)' = Holders(o)
    BY DEF Holders, Owning
  <1>2. Counts'
    <2>1. \A o \in Obj \ live', f \in StrongField : <<o, f>> \in stale'
      BY DEF Counts, StrongSlot
    <2>2. \A s \in Owning' : s \in Owning /\ mem'[s] = mem[s]
      BY DEF Owning
    <2> QED
      BY <1>1, <2>1, <2>2 DEF Counts
  <1>3. EmptyNow' = EmptyNow
    BY DEF EmptyNow, Empty, Released
  <1>4. HeldNow' = HeldNow
    BY SlotFacts DEF HeldNow, Released
  <1> QED
    BY <1>2, <1>3, <1>4

\* A retain counts the one word that becomes an owner.
LEMMA RetainStep ==
    ASSUME TypeOK, IInv, RunRetain
    PROVE  IInv'
  <1> DEFINE v == Head(code).val
             t == Head(code).slot
  <1>1. /\ cascade = <<>> /\ cascade' = <<>> /\ code # <<>> /\ Head(code).op = "retain"
        /\ code' = Tail(code) /\ UNCHANGED control /\ live' = live
        /\ v \in live \cup {NIL}
        /\ rc' = IF Skips(v) THEN rc ELSE [rc EXCEPT ![v] = @ + 1]
        /\ mem' = [mem EXCEPT ![t] = v]
        /\ stale' = stale \ {t}
    BY DEF RunRetain, Next1, Step, oc_retain
  <1>2. t \in Root /\ t \in StrongSlot /\ Empty(t)
    <2>1. code \in Seq(Instr)
      BY DEF TypeOK
    <2>2. t \in Root /\ t \in EmptyNow
      BY <1>1, <2>1, First DEF IInv
    <2> QED
      BY <1>1, <2>2, Quiet, SlotFacts
  <1>3. Fills(Head(code), t) /\ \A s : ~Empties(Head(code), s) /\ (Fills(Head(code), s) <=> s = t)
    BY <1>1 DEF Fills, Empties
  <1>4. live \subseteq Obj /\ mem \in [Slot -> Value] /\ rc \in [Obj -> Int] /\ t \in Slot
        /\ NIL \notin Obj /\ StrongSlot \subseteq Slot
    BY <1>2, SlotFacts, ArcAssumption DEF TypeOK
  <1>5. \A s \in StrongSlot : mem'[s] = IF s = t THEN v ELSE mem[s]
    BY <1>1, <1>4
  <1>6. \A o \in Obj : t \notin Holders(o)
    BY <1>2, <1>4 DEF Holders, Owning, Empty
  <1>7. \A o \in Obj : Holders(o)' = IF o = v THEN Holders(o) \cup {t} ELSE Holders(o)
    BY <1>1, <1>2, <1>5, <1>6 DEF Holders, Owning
  <1> HIDE DEF v, t
  <1>8. Counts'
    <2>1. ASSUME NEW o \in live \ Immortal
          PROVE  Covers(rc'[o], Cardinality(Holders(o)'))
      <3>1. /\ o \in Obj /\ rc[o] \in Int /\ IsFiniteSet(Holders(o))
            /\ Covers(rc[o], Cardinality(Holders(o)))
        BY <1>4, HoldersFinite DEF IInv, Counts
      <3>2. Cardinality(Holders(o)) \in Nat
        BY <3>1, FS_CardinalityType
      <3>3. CASE o # v
        BY <1>1, <1>4, <1>7, <3>1, <3>3
      <3>4. CASE o = v
        <4>1. ~Skips(v)
          BY <1>4, <3>1, <3>2, <3>4 DEF Skips, Covers
        <4>2. rc'[o] = rc[o] + 1
          BY <1>1, <1>4, <3>1, <3>4, <4>1
        <4>3. Cardinality(Holders(o) \cup {t}) = Cardinality(Holders(o)) + 1
          BY <1>6, <3>1, FS_AddElement
        <4>4. Holders(o)' = Holders(o) \cup {t}
          BY <1>7, <3>1, <3>4
        <4> QED
          BY <3>1, <3>2, <4>2, <4>3, <4>4 DEF Covers
      <3> QED
        BY <3>3, <3>4
    <2>2. ASSUME NEW o \in Immortal
          PROVE  o \in live /\ rc'[o] < 0
      <3>1. o \in live /\ rc[o] < 0 /\ o \in Obj
        BY <1>4 DEF IInv, Counts
      <3>2. o = v => Skips(v)
        BY <3>1 DEF Skips
      <3> QED
        BY <1>1, <1>4, <3>1, <3>2
    <2>3. \A s \in Owning' : mem'[s] \in live \cup {NIL}
      BY <1>1, <1>5 DEF IInv, Counts, Owning
    <2>4. \A o \in Obj \ live, f \in StrongField : <<o, f>> \in stale'
      <3>1. t[1] \notin Obj
        BY <1>2, SlotKinds
      <3>2. \A o \in Obj, f \in StrongField : <<o, f>> # t
        BY <3>1
      <3> QED
        BY <1>1, <3>2 DEF IInv, Counts
    <2> QED
      BY <1>1, <2>1, <2>2, <2>3, <2>4 DEF Counts
  <1>9. /\ \A s \in StrongSlot : s \in EmptyNow /\ ~Fills(Head(code), s) => s \in EmptyNow'
        /\ \A s \in StrongSlot : Empties(Head(code), s) => s \in EmptyNow'
        /\ \A s \in Temps : s \in HeldNow /\ ~Empties(Head(code), s) => s \in HeldNow'
        /\ \A s \in Temps : Fills(Head(code), s) => s \in HeldNow'
    BY <1>1, <1>3, <1>5, Quiet DEF Empty
  <1>10. CodeSafe' /\ UnusedEmpty' /\ CtxOK'
    BY <1>1, <1>9, Advance DEF IInv
  <1> QED
    BY <1>1, <1>8, <1>10, Quiet DEF IInv

\* A release starts a cascade.
LEMMA DropStep ==
    ASSUME TypeOK, IInv, RunDrop
    PROVE  IInv'
  <1> DEFINE x == Head(code).slot
  <1>1. /\ cascade = <<>> /\ cascade' = <<Release(x)>> /\ code # <<>> /\ Head(code).op = "release"
        /\ code' = Tail(code) /\ UNCHANGED control /\ UNCHANGED <<live, rc, mem, stale>>
    BY DEF RunDrop, Next1, Step
  <1>2. x \in StrongSlot
    <2>1. code \in Seq(Instr)
      BY DEF TypeOK
    <2> QED
      BY <1>1, <2>1, First DEF IInv
  <1>3. \A s : ~Fills(Head(code), s) /\ (Empties(Head(code), s) <=> s = x)
    BY <1>1 DEF Fills, Empties
  <1> HIDE DEF x
  <1>4. Counts'
    BY <1>1 DEF IInv, Counts, Holders, Owning
  <1>5. \A s : Released(s)' <=> s = x
    BY <1>1 DEF Released, Release
  <1>6. \A s : ~Released(s)
    BY <1>1 DEF Released
  <1>7. /\ \A s \in StrongSlot : s \in EmptyNow => s \in EmptyNow'
        /\ \A s \in StrongSlot : s = x => s \in EmptyNow'
        /\ \A s \in Temps : s \in HeldNow /\ s # x => s \in HeldNow'
    BY <1>1, <1>5, <1>6 DEF EmptyNow, HeldNow, Empty
  <1>8. CodeSafe' /\ UnusedEmpty' /\ CtxOK'
    BY <1>1, <1>3, <1>7, Advance DEF IInv
  <1>9. CascadeSafe'
    <2>1. Len(cascade') = 1 /\ cascade'[1].op = "release" /\ cascade'[1].slot = x
      BY <1>1 DEF Release
    <2> QED
      BY <1>2, <2>1 DEF CascadeSafe, SafeCascade
  <1> QED
    BY <1>4, <1>8, <1>9 DEF IInv

\* A register hands its reference to an empty word that exists.
LEMMA HandOver ==
    ASSUME TypeOK, Counts, NEW x \in StrongSlot, NEW t \in Temps, x # t,
           Empty(x), t \notin stale, x[1] \in Obj => x[1] \in live,
           UNCHANGED <<live, rc>>,
           mem' = [mem EXCEPT ![x] = mem[t], ![t] = NIL],
           stale' = (stale \cup {t}) \ {x}
    PROVE  /\ Counts'
           /\ \A s \in StrongSlot : mem'[s] = IF s = t THEN NIL ELSE IF s = x THEN mem[t] ELSE mem[s]
  <1>1. /\ t \in StrongSlot /\ t \in Root /\ StrongSlot \subseteq Slot /\ NIL \notin Obj
        /\ live \subseteq Obj
    BY SlotFacts, ArcAssumption DEF TypeOK
  <1>2. \A s \in StrongSlot : mem'[s] = IF s = t THEN NIL ELSE IF s = x THEN mem[t] ELSE mem[s]
    BY <1>1 DEF TypeOK
  <1>3. t[1] \notin Obj
    BY <1>1, SlotKinds
  <1>4. ASSUME NEW o \in Obj
        PROVE  Cardinality(Holders(o)') = Cardinality(Holders(o))
    <2>1. IsFiniteSet(Holders(o)) /\ x \notin Holders(o)
      BY <1>1, HoldersFinite DEF Holders, Owning, Empty
    <2>2. CASE mem[t] = o
      <3>1. t \in Holders(o) /\ Holders(o)' = (Holders(o) \ {t}) \cup {x}
        BY <1>1, <1>2, <2>2 DEF Holders, Owning
      <3> DEFINE G == Holders(o) \ {t}
      <3>2. IsFiniteSet(G) /\ Cardinality(G) = Cardinality(Holders(o)) - 1
        BY <2>1, <3>1, FS_RemoveElement
      <3>3. x \notin G
        BY <2>1
      <3>4. Cardinality(Holders(o)) \in Nat
        BY <2>1, FS_CardinalityType
      <3> HIDE DEF G
      <3>5. Cardinality(G \cup {x}) = Cardinality(G) + 1
        BY <3>2, <3>3, FS_AddElement
      <3> QED
        BY <3>1, <3>2, <3>4, <3>5 DEF G
    <2>3. CASE mem[t] # o
      <3>1. Holders(o)' = Holders(o)
        BY <1>1, <1>2, <2>1, <2>3 DEF Holders, Owning
      <3> QED
        BY <3>1
    <2> QED
      BY <2>2, <2>3
  <1>5. Counts'
    <2>1. \A o \in live \ Immortal : Covers(rc[o], Cardinality(Holders(o)'))
      BY <1>1, <1>4 DEF Counts
    <2>2. ASSUME NEW s \in Owning'
          PROVE  mem'[s] \in live \cup {NIL}
      <3>1. s \in StrongSlot /\ s # t /\ (s = x \/ s \in Owning)
        BY <1>1 DEF Owning
      <3>2. t \in Owning
        BY <1>1 DEF Owning
      <3> QED
        BY <1>2, <3>1, <3>2 DEF Counts
    <2>3. ASSUME NEW o \in Obj \ live, NEW f \in StrongField
          PROVE  <<o, f>> \in stale'
      <3>1. <<o, f>> # t /\ <<o, f>> # x
        BY <1>3
      <3> QED
        BY <3>1 DEF Counts
    <2> QED
      BY <2>1, <2>2, <2>3 DEF Counts
  <1> QED
    BY <1>2, <1>5

\* A move hands over a reference and counts nothing.
LEMMA MoveStep ==
    ASSUME TypeOK, IInv, RunMove
    PROVE  IInv'
  <1> DEFINE x == Head(code).slot
             t == Head(code).from
  <1>1. cascade = <<>> /\ code # <<>> /\ Head(code).op = "move" /\ code \in Seq(Instr)
    BY DEF RunMove, Next1, TypeOK
  <1>2. /\ x \in StrongSlot \ Temps /\ t \in Temps /\ Empty(x) /\ t \notin stale
    BY <1>1, First, Quiet, SlotFacts DEF IInv
  <1>3. CASE Gone(x)
    <2>1. Trap
      BY <1>3 DEF RunMove
    <2> QED
      BY <2>1, TrapKeeps
  <1>4. CASE ~Gone(x)
    <2>1. /\ mem' = [mem EXCEPT ![x] = mem[t], ![t] = NIL]
          /\ stale' = (stale \cup {t}) \ {x}
          /\ code' = Tail(code) /\ UNCHANGED control
          /\ UNCHANGED <<live, rc>> /\ cascade' = <<>>
      BY <1>1, <1>4 DEF RunMove, Step
    <2>2. x # t /\ (x[1] \in Obj => x[1] \in live) /\ t \in StrongSlot
      BY <1>2, <1>4, SlotFacts DEF Gone
    <2>3. \A s : /\ Fills(Head(code), s) <=> s = x
                 /\ Empties(Head(code), s) <=> s = t
      BY <1>1 DEF Fills, Empties
    <2> HIDE DEF x, t
    <2>4. /\ Counts'
          /\ \A s \in StrongSlot : mem'[s] = IF s = t THEN NIL
                                             ELSE IF s = x THEN mem[t] ELSE mem[s]
      BY <1>2, <2>1, <2>2, HandOver DEF IInv
    <2>5. /\ \A s \in StrongSlot : s \in EmptyNow /\ s # x => s \in EmptyNow'
          /\ t \in EmptyNow'
          /\ \A s \in Temps : s \in HeldNow /\ s # t => s \in HeldNow'
          /\ x \notin Temps
      BY <1>1, <1>2, <2>1, <2>2, <2>4, Quiet DEF Empty
    <2>6. CodeSafe' /\ UnusedEmpty' /\ CtxOK'
      BY <1>1, <2>1, <2>3, <2>5, Advance DEF IInv
    <2> QED
      BY <2>1, <2>4, <2>6, Quiet DEF IInv
  <1> QED
    BY <1>3, <1>4

\* A plain store reaches weak slots only.
LEMMA PokeStep ==
    ASSUME TypeOK, IInv, RunPoke
    PROVE  IInv'
  <1> DEFINE x == Head(code).slot
  <1>1. cascade = <<>> /\ code # <<>> /\ Head(code).op = "poke" /\ code \in Seq(Instr)
    BY DEF RunPoke, Next1, TypeOK
  <1>2. x \in Slot /\ x \notin StrongSlot
    BY <1>1, First, SlotKinds DEF IInv
  <1>3. CASE Gone(x)
    <2>1. Trap
      BY <1>3 DEF RunPoke
    <2> QED
      BY <2>1, TrapKeeps
  <1>4. CASE ~Gone(x)
    <2>1. /\ mem' = [mem EXCEPT ![x] = Head(code).val]
          /\ stale' = stale \ {x}
          /\ code' = Tail(code) /\ UNCHANGED control
          /\ UNCHANGED <<live, rc>> /\ cascade' = <<>> /\ cascade' = cascade
      BY <1>1, <1>4 DEF RunPoke, Step
    <2>2. \A s : ~Empties(Head(code), s) /\ (Fills(Head(code), s) <=> s = x)
      BY <1>1 DEF Fills, Empties
    <2> HIDE DEF x
    <2>3. \A s \in StrongSlot : mem'[s] = mem[s] /\ (s \in stale' <=> s \in stale)
      BY <1>2, <2>1, SlotFacts DEF TypeOK
    <2>4. Counts' /\ EmptyNow' = EmptyNow /\ HeldNow' = HeldNow
      BY <2>1, <2>3, SameWords DEF IInv
    <2>5. x \notin Temps
      BY <1>2, SlotFacts
    <2>6. CodeSafe' /\ UnusedEmpty' /\ CtxOK'
      BY <1>1, <2>1, <2>2, <2>4, <2>5, Advance DEF IInv
    <2> QED
      BY <2>1, <2>4, <2>6, Quiet DEF IInv
  <1> QED
    BY <1>3, <1>4

\* A record copy writes weak fields only.
LEMMA CopyStep ==
    ASSUME TypeOK, IInv, RunCopy
    PROVE  IInv'
  <1> DEFINE o == Head(code).obj
             q == Head(code).from
  <1>1. /\ cascade = <<>> /\ cascade' = cascade /\ code # <<>> /\ Head(code).op = "copy"
        /\ code' = Tail(code) /\ UNCHANGED control
        /\ mem' = [s \in Slot |-> IF s[1] = o /\ IsWeak(s) THEN mem[<<q, s[2]>>] ELSE mem[s]]
        /\ UNCHANGED <<live, rc, stale>>
    BY DEF RunCopy, Next1, Step
  <1>2. \A s : ~Empties(Head(code), s) /\ ~Fills(Head(code), s)
    BY <1>1 DEF Fills, Empties
  <1> HIDE DEF o, q
  <1>3. \A s \in StrongSlot : mem'[s] = mem[s]
    BY <1>1, SlotFacts, SlotKinds
  <1>4. Counts' /\ EmptyNow' = EmptyNow /\ HeldNow' = HeldNow
    BY <1>1, <1>3, SameWords DEF IInv
  <1>5. CodeSafe' /\ UnusedEmpty' /\ CtxOK'
    BY <1>1, <1>2, <1>4, Advance DEF IInv
  <1> QED
    BY <1>1, <1>4, <1>5, Quiet DEF IInv

\* Slots are cleared.  When no form leaks they hold no reference.
LEMMA ClearWords ==
    ASSUME TypeOK, Counts, UNCHANGED <<live, rc>>,
           NEW S \in SUBSET Root, Exact => \A s \in S : Empty(s),
           \A s \in StrongSlot : mem'[s] = IF s \in S THEN NIL ELSE mem[s],
           \A s \in StrongSlot : s \notin S => (s \in stale' <=> s \in stale)
    PROVE  Counts'
  <1>1. NIL \notin Obj /\ live \subseteq Obj
    BY ArcAssumption DEF TypeOK
  <1>2. ASSUME NEW o \in live \ Immortal
        PROVE  Covers(rc[o], Cardinality(Holders(o)'))
    <2>1. o \in Obj /\ rc[o] \in Int /\ Covers(rc[o], Cardinality(Holders(o)))
      BY <1>1 DEF Counts, TypeOK
    <2>2. Exact => Holders(o)' = Holders(o)
      BY <1>1, <2>1 DEF Holders, Owning, Empty
    <2>3. Holders(o)' \subseteq Holders(o)
      BY <1>1, <2>1 DEF Holders, Owning
    <2>4. IsFiniteSet(Holders(o)) /\ IsFiniteSet(Holders(o)')
      BY HoldersFinite
    <2>5. /\ Cardinality(Holders(o)') <= Cardinality(Holders(o))
          /\ Cardinality(Holders(o)) \in Nat /\ Cardinality(Holders(o)') \in Nat
      BY <2>3, <2>4, FS_Subset, FS_CardinalityType
    <2> QED
      BY <2>1, <2>2, <2>5 DEF Covers
  <1>3. ASSUME NEW s \in Owning'
        PROVE  mem'[s] \in live \cup {NIL}
    <2>1. s \in StrongSlot /\ (mem'[s] = NIL \/ (mem'[s] = mem[s] /\ s \in Owning))
      BY DEF Owning
    <2> QED
      BY <2>1 DEF Counts
  <1>4. ASSUME NEW o \in Obj \ live, NEW f \in StrongField
        PROVE  <<o, f>> \in stale'
    <2>1. <<o, f>> \notin S
      <3>1. \A s \in S : s[1] \notin Obj
        BY SlotKinds
      <3>2. <<o, f>>[1] = o
        OBVIOUS
      <3> QED
        BY <3>1, <3>2
    <2>2. <<o, f>> \in StrongSlot
      BY DEF StrongSlot
    <2> QED
      BY <2>1, <2>2 DEF Counts
  <1> QED
    BY <1>1, <1>2, <1>3, <1>4 DEF Counts

\* NIL is stored in a word that was empty.
LEMMA ClearStep ==
    ASSUME TypeOK, IInv, RunClear
    PROVE  IInv'
  <1> DEFINE x == Head(code).slot
  <1>1. /\ cascade = <<>> /\ cascade' = <<>> /\ code # <<>> /\ Head(code).op = "clear"
        /\ code' = Tail(code) /\ UNCHANGED control /\ code \in Seq(Instr)
        /\ mem' = [mem EXCEPT ![x] = NIL] /\ stale' = stale \ {x}
        /\ UNCHANGED <<live, rc>>
    BY DEF RunClear, Next1, Step, TypeOK
  <1>2. x \in Root /\ Empty(x)
    BY <1>1, First, Quiet DEF IInv
  <1>3. \A s : ~Empties(Head(code), s) /\ (Fills(Head(code), s) <=> s = x)
    BY <1>1 DEF Fills, Empties
  <1> HIDE DEF x
  <1>4. \A s \in StrongSlot : mem'[s] = IF s \in {x} THEN NIL ELSE mem[s]
    BY <1>1, SlotFacts DEF TypeOK
  <1>5. Counts'
    <2> DEFINE S == {x}
    <2>1. S \in SUBSET Root /\ \A s \in S : Empty(s)
      BY <1>2
    <2>2. \A s \in StrongSlot : s \notin S => (s \in stale' <=> s \in stale)
      BY <1>1
    <2>3. \A s \in StrongSlot : mem'[s] = IF s \in S THEN NIL ELSE mem[s]
      BY <1>4
    <2> HIDE DEF S
    <2> QED
      BY <1>1, <2>1, <2>2, <2>3, ClearWords DEF IInv
  <1>6. /\ \A s \in StrongSlot : s \in EmptyNow => s \in EmptyNow'
        /\ \A s \in Temps : s \in HeldNow \/ s = x => s \in HeldNow'
    BY <1>1, <1>4, Quiet DEF Empty
  <1>7. CodeSafe' /\ UnusedEmpty' /\ CtxOK'
    BY <1>1, <1>3, <1>6, Advance DEF IInv
  <1> QED
    BY <1>1, <1>5, <1>7, Quiet DEF IInv

\* Storage ends, and the words in it hold nothing when no form leaks.
LEMMA ForgetStep ==
    ASSUME TypeOK, IInv, RunForget
    PROVE  IInv'
  <1> DEFINE S == Head(code).slots
  <1>1. /\ cascade = <<>> /\ cascade' = <<>> /\ code # <<>> /\ Head(code).op = "forget"
        /\ code' = Tail(code) /\ UNCHANGED control /\ code \in Seq(Instr)
        /\ mem' = [s \in Slot |-> IF s \in S THEN NIL ELSE mem[s]] /\ stale' = stale \cup S
        /\ UNCHANGED <<live, rc>>
    BY DEF RunForget, Next1, Step, TypeOK
  <1>2. S \in SUBSET Root
    <2>1. Head(code) \in Instr
      BY <1>1
    <2> QED
      BY <1>1, <2>1 DEF Instr
  <1>3. Exact => \A s \in S : Empty(s)
    BY <1>1, First, Quiet DEF IInv
  <1>4. \A s : (Empties(Head(code), s) <=> s \in S) /\ ~Fills(Head(code), s)
    BY <1>1 DEF Fills, Empties
  <1> HIDE DEF S
  <1>5. \A s \in StrongSlot : mem'[s] = IF s \in S THEN NIL ELSE mem[s]
    BY <1>1, SlotFacts
  <1>6. \A s \in StrongSlot : s \notin S => (s \in stale' <=> s \in stale)
    BY <1>1
  <1>7. Counts'
    BY <1>1, <1>2, <1>3, <1>5, <1>6, ClearWords DEF IInv
  <1>8. /\ \A s \in StrongSlot : s \in EmptyNow \/ s \in S => s \in EmptyNow'
        /\ \A s \in Temps : s \in HeldNow /\ s \notin S => s \in HeldNow'
    BY <1>1, <1>5, Quiet DEF Empty
  <1>9. CodeSafe' /\ UnusedEmpty' /\ CtxOK'
    BY <1>1, <1>4, <1>8, Advance DEF IInv
  <1> QED
    BY <1>1, <1>7, <1>9, Quiet DEF IInv

-----------------------------------------------------------------------------
(* The release cascade. *)

\* While releases run, the code waits and only gains empty words.
LEMMA Waiting ==
    ASSUME TypeOK, CodeSafe, UnusedEmpty, CtxOK, UNCHANGED <<depth, bind, ctx, code>>,
           EmptyNow \subseteq EmptyNow', HeldNow \subseteq HeldNow'
    PROVE  CodeSafe' /\ UnusedEmpty' /\ CtxOK'
  <1> DEFINE E2 == EmptyNow'
             H2 == HeldNow'
  <1>1. code \in Seq(Instr) /\ Len(code) + 1 \in Int
    BY DEF TypeOK
  <1>2. /\ \A s \in StrongSlot : s \in EmptyNow => s \in E2
        /\ \A s \in Temps : s \in HeldNow => s \in H2
    OBVIOUS
  <1>3. SafeCode(EmptyNow, HeldNow, code)
    BY DEF CodeSafe
  <1> HIDE DEF E2, H2
  <1>4. /\ SafeCode(E2, H2, code)
        /\ \A s \in StrongSlot, i \in Int :
              EmptyBy(EmptyNow, code, s, i) => EmptyBy(E2, code, s, i)
    BY <1>1, <1>2, <1>3, Grow
  <1>5. Unused' = Unused
    BY DEF Unused
  <1>6. \A s \in Unused : EmptyBy(E2, code, s, Len(code) + 1)
    BY <1>1, <1>4, UnusedStrong DEF UnusedEmpty
  <1>7. CodeSafe' /\ UnusedEmpty'
    BY <1>4, <1>5, <1>6 DEF CodeSafe, UnusedEmpty, E2, H2
  <1>8. CtxOK'
    BY DEF CtxOK
  <1> QED
    BY <1>7, <1>8

\* A cascade holds releases and frees.
LEMMA EntryKinds ==
    ASSUME NEW e \in CascadeOp
    PROVE  /\ e.op = "release" => e = Release(e.slot) /\ e.slot \in Slot
           /\ e.op = "free" => e = Free(e.obj) /\ e.obj \in Obj
           /\ e.op = "release" \/ e.op = "free"
  <1>1. CASE \E s \in Slot : e = Release(s)
    BY <1>1 DEF Release
  <1>2. CASE \E o \in Obj : e = Free(o)
    BY <1>2 DEF Free
  <1> QED
    BY <1>1, <1>2 DEF CascadeOp

\* What follows the first entry of the cascade stays, behind U.
LEMMA Popped ==
    ASSUME TypeOK, cascade # <<>>, NEW U \in Seq(CascadeOp), cascade' = U \o Tail(cascade)
    PROVE  /\ cascade[1] = Head(cascade) /\ cascade[1] \in CascadeOp
           /\ 1 \in 1 .. Len(cascade) /\ Len(cascade) \in Nat /\ Len(U) \in Nat
           /\ Len(cascade') = Len(U) + (Len(cascade) - 1)
           /\ \A k \in 1 .. Len(U) : cascade'[k] = U[k]
           /\ \A m \in 1 .. Len(cascade) - 1 : cascade'[Len(U) + m] = cascade[m + 1]
           /\ \A k \in 1 .. Len(cascade') :
                 k \in 1 .. Len(U) \/ \E m \in 1 .. Len(cascade) - 1 : k = Len(U) + m
           /\ \A k \in 1 .. Len(cascade) :
                 k = 1 \/ \E m \in 1 .. Len(cascade) - 1 : k = m + 1
  <1> DEFINE t == Tail(cascade)
             n == Len(cascade)
             u == Len(U)
  <1>1. cascade \in Seq(CascadeOp) /\ n \in Nat /\ n >= 1 /\ u \in Nat
        /\ cascade[1] = Head(cascade) /\ cascade[1] \in CascadeOp
    BY DEF TypeOK
  <1>2. t \in Seq(CascadeOp) /\ Len(t) = n - 1 /\ \A m \in 1 .. n - 1 : t[m] = cascade[m + 1]
    BY <1>1, HeadTailProperties
  <1> HIDE DEF t
  <1>3. Len(cascade') = u + (n - 1) /\ \A k \in 1 .. u + (n - 1) :
           cascade'[k] = IF k <= u THEN U[k] ELSE t[k - u]
    BY <1>2, ConcatProperties DEF t
  <1> HIDE DEF n, u
  <1>4. \A k \in 1 .. u : cascade'[k] = U[k]
    BY <1>1, <1>3
  <1>5. ASSUME NEW m \in 1 .. n - 1
        PROVE  cascade'[u + m] = cascade[m + 1]
    <2>1. u + m \in 1 .. u + (n - 1) /\ ~(u + m <= u) /\ (u + m) - u = m
      BY <1>1
    <2>2. cascade'[u + m] = t[(u + m) - u]
      BY <1>3, <2>1
    <2> QED
      BY <1>2, <2>1, <2>2
  <1>6. ASSUME NEW k \in 1 .. u + (n - 1), k \notin 1 .. u
        PROVE  \E m \in 1 .. n - 1 : k = u + m
    <2>1. k - u \in 1 .. n - 1 /\ k = u + (k - u)
      BY <1>1, <1>6
    <2> QED
      BY <2>1
  <1>7. ASSUME NEW k \in 1 .. n, k # 1
        PROVE  \E m \in 1 .. n - 1 : k = m + 1
    <2>1. k - 1 \in 1 .. n - 1 /\ k = (k - 1) + 1
      BY <1>1, <1>7
    <2> QED
      BY <2>1
  <1>8. 1 \in 1 .. n
    BY <1>1
  <1> QED
    BY <1>1, <1>3, <1>4, <1>5, <1>6, <1>7, <1>8 DEF n, u

\* The entries that stay are as safe as they were, when what is released now is
\* stale and what they free is untouched.
LEMMA PoppedSafe ==
    ASSUME TypeOK, CascadeSafe, cascade # <<>>,
           NEW U \in Seq(CascadeOp), cascade' = U \o Tail(cascade),
           stale \subseteq stale',
           cascade[1].op = "release" => cascade[1].slot \in stale',
           \A k \in 1 .. Len(cascade) : k # 1 /\ cascade[k].op = "free" =>
              /\ cascade[k].obj \in live' /\ rc'[cascade[k].obj] = 0
              /\ \A m \in 1 .. Len(U) : U[m] # cascade[k],
           NEW k \in 1 .. Len(cascade) - 1, NEW p, p = Len(U) + k
    PROVE  SafeCascade(p)'
  <1> DEFINE u == Len(U)
             n == Len(cascade)
             c == cascade[k + 1]
  <1>1. p = u + k /\ u \in Nat /\ n \in Nat /\ k \in Nat /\ k + 1 \in 1 .. n /\ k + 1 # 1
    BY Popped
  <1>2. cascade'[p] = c
    BY <1>1, Popped
  <1>3. SafeCascade(k + 1)
    BY <1>1 DEF CascadeSafe
  <1>4. CASE c.op = "release" /\ c.slot \in StrongSlot
    BY <1>2, <1>4 DEF SafeCascade
  <1>5. CASE c.op = "free" /\ ~(c.op = "release" /\ c.slot \in StrongSlot)
    <2> DEFINE o == c.obj
    <2>1. /\ \A f \in StrongField :
                \/ <<o, f>> \in stale
                \/ \E j \in 1 .. k + 1 - 1 : cascade[j] = Release(<<o, f>>)
          /\ \A m \in 1 .. n : cascade[m] = Free(o) => m = k + 1
      BY <1>3, <1>5 DEF SafeCascade
    <2>2. o \in live' /\ rc'[o] = 0 /\ \A m \in 1 .. u : U[m] # c
      BY <1>1, <1>5
    <2>3. c = Free(o)
      <3>1. cascade[k + 1] \in CascadeOp
        BY <1>1 DEF TypeOK
      <3> QED
        BY <3>1, <1>5, EntryKinds
    <2> HIDE DEF c, o, u, n
    <2>4. ASSUME NEW f \in StrongField
          PROVE  \/ <<o, f>> \in stale'
                 \/ \E j \in 1 .. p - 1 : cascade'[j] = Release(<<o, f>>)
      <3>1. ASSUME NEW j \in 1 .. k, cascade[j] = Release(<<o, f>>), <<o, f>> \notin stale'
            PROVE  \E i \in 1 .. p - 1 : cascade'[i] = Release(<<o, f>>)
        <4>1. j # 1
          <5>1. Release(<<o, f>>).op = "release" /\ Release(<<o, f>>).slot = <<o, f>>
            BY DEF Release
          <5> QED
            BY <3>1, <5>1
        <4>2. j \in 1 .. n
          BY <1>1
        <4>3. PICK m \in 1 .. n - 1 : j = m + 1
          BY <4>1, <4>2, Popped DEF n
        <4>4. cascade'[u + m] = Release(<<o, f>>)
          BY <3>1, <4>3, Popped DEF n, u
        <4>5. u + m \in 1 .. p - 1
          BY <1>1, <4>3
        <4> QED
          BY <4>4, <4>5
      <3>2. k + 1 - 1 = k
        BY <1>1
      <3> QED
        BY <2>1, <3>1, <3>2
    <2>5. ASSUME NEW i \in 1 .. Len(cascade'), cascade'[i] = Free(o)
          PROVE  i = p
      <3>1. i \in 1 .. u \/ \E m \in 1 .. n - 1 : i = u + m
        BY Popped DEF u, n
      <3>2. i \notin 1 .. u
        BY <2>2, <2>3, <2>5, Popped DEF u
      <3>3. PICK m \in 1 .. n - 1 : i = u + m
        BY <3>1, <3>2
      <3>4. cascade[m + 1] = Free(o)
        BY <2>5, <3>3, Popped DEF u, n
      <3>5. m + 1 \in 1 .. n /\ m \in Nat
        BY <1>1
      <3>6. m + 1 = k + 1
        BY <2>1, <3>4, <3>5
      <3>7. m = k
        BY <1>1, <3>5, <3>6
      <3> QED
        BY <1>1, <3>3, <3>7
    <2>6. cascade'[p].op = "free" /\ cascade'[p].obj = o
      <3>1. Free(o).op = "free" /\ Free(o).obj = o
        BY DEF Free
      <3> QED
        BY <1>2, <2>3, <3>1
    <2>7. o \in live' /\ rc'[o] = 0
      BY <2>2
    <2> HIDE DEF o
    <2>8. /\ cascade'[p].op = "free" /\ cascade'[p].obj \in live'
          /\ rc'[cascade'[p].obj] = 0
          /\ \A f \in StrongField :
                \/ <<cascade'[p].obj, f>> \in stale'
                \/ \E j \in 1 .. p - 1 : cascade'[j] = Release(<<cascade'[p].obj, f>>)
          /\ \A i \in 1 .. Len(cascade') :
                cascade'[i] = Free(cascade'[p].obj) => i = p
      BY <2>4, <2>5, <2>6, <2>7
    <2> QED
      BY <2>8 DEF SafeCascade
  <1> QED
    BY <1>3, <1>4, <1>5 DEF SafeCascade

\* What is released after the first entry is popped.
LEMMA PoppedReleased ==
    ASSUME TypeOK, cascade # <<>>,
           NEW U \in Seq(CascadeOp), cascade' = U \o Tail(cascade), NEW s
    PROVE  /\ Released(s) => Released(s)' \/ cascade[1] = Release(s)
           /\ Released(s)' => Released(s) \/ \E k \in 1 .. Len(U) : U[k] = Release(s)
  <1> DEFINE u == Len(U)
             n == Len(cascade)
  <1>1. u \in Nat /\ n \in Nat
    BY Popped
  <1>2. ASSUME NEW k \in 1 .. n, cascade[k] = Release(s), k # 1
        PROVE  Released(s)'
    <2>1. PICK m \in 1 .. n - 1 : k = m + 1
      BY <1>2, Popped
    <2>2. cascade'[u + m] = Release(s)
      BY <1>2, <2>1, Popped
    <2>3. u + m \in 1 .. Len(cascade')
      BY <1>1, Popped
    <2> QED
      BY <2>2, <2>3 DEF Released
  <1>3. ASSUME NEW k \in 1 .. Len(cascade'), cascade'[k] = Release(s), k \notin 1 .. u
        PROVE  Released(s)
    <2>1. PICK m \in 1 .. n - 1 : k = u + m
      BY <1>3, Popped
    <2>2. cascade[m + 1] = Release(s)
      BY <1>3, <2>1, Popped
    <2>3. m + 1 \in 1 .. n
      BY <1>1
    <2> QED
      BY <2>2, <2>3 DEF Released
  <1>4. \A k \in 1 .. u : cascade'[k] = U[k]
    BY Popped
  <1> QED
    BY <1>2, <1>3, <1>4 DEF Released

\* The empty cascade.
LEMMA NoneIsSeq == <<>> \in Seq(CascadeOp) /\ Len(<<>>) = 0
  OBVIOUS

\* A released slot becomes stale and its entry leaves the cascade.
LEMMA ReleaseFacts ==
    ASSUME TypeOK, CascadeSafe, cascade # <<>>, Head(cascade).op = "release",
           NEW U \in Seq(CascadeOp), cascade' = U \o Tail(cascade),
           stale' = stale \cup {Head(cascade).slot}, mem' = mem,
           \A k \in 1 .. Len(U) : \A s \in Temps : U[k] # Release(s)
    PROVE  /\ cascade[1] = Release(Head(cascade).slot)
           /\ Head(cascade).slot \in StrongSlot
           /\ EmptyNow \subseteq EmptyNow' /\ HeldNow \subseteq HeldNow'
  <1> DEFINE s == Head(cascade).slot
  <1>1. cascade[1] = Head(cascade) /\ cascade[1] \in CascadeOp /\ 1 \in 1 .. Len(cascade)
    BY Popped
  <1>2. cascade[1] = Release(s)
    BY <1>1 DEF CascadeOp, Release, Free
  <1>3. s \in StrongSlot
    <2>1. SafeCascade(1)
      BY <1>1 DEF CascadeSafe
    <2> QED
      BY <1>1, <2>1 DEF SafeCascade
  <1>4. Released(s)
    BY <1>1, <1>2 DEF Released
  <1> HIDE DEF s
  <1>5. \A v : Release(v) = Release(s) => v = s
    BY DEF Release
  <1>6. ASSUME NEW v
        PROVE  /\ Released(v) => Released(v)' \/ v = s
               /\ v \in Temps /\ Released(v)' => Released(v)
    BY <1>2, <1>5, PoppedReleased
  <1>7. stale' = stale \cup {s}
    BY DEF s
  <1>8. EmptyNow \subseteq EmptyNow' /\ HeldNow \subseteq HeldNow'
    BY <1>4, <1>6, <1>7 DEF EmptyNow, HeldNow, Empty
  <1> QED
    BY <1>2, <1>3, <1>8 DEF s

\* A release of NIL or of an immortal object counts nothing.
LEMMA SkipStep ==
    ASSUME TypeOK, IInv, ReleaseSkips, UNCHANGED <<depth, bind, ctx, code>>
    PROVE  IInv'
  <1> DEFINE s == Head(cascade).slot
             U == <<>>
  <1>1. /\ cascade \in Seq(CascadeOp) /\ cascade # <<>> /\ Head(cascade).op = "release"
        /\ Skips(mem[s])
        /\ stale' = stale \cup {s} /\ cascade' = Tail(cascade)
        /\ UNCHANGED <<live, rc, mem>>
    BY DEF ReleaseSkips, TypeOK
  <1>2. Tail(cascade) \in Seq(CascadeOp)
    BY <1>1, HeadTailProperties
  <1>3. U \in Seq(CascadeOp) /\ Len(U) = 0 /\ cascade' = U \o Tail(cascade)
    BY <1>1, <1>2, ConcatEmptySeq
  <1> HIDE DEF U
  <1>4. \A k \in 1 .. Len(U) : FALSE
    BY <1>3
  <1>5. /\ cascade[1] = Release(s) /\ s \in StrongSlot
        /\ EmptyNow \subseteq EmptyNow' /\ HeldNow \subseteq HeldNow'
    BY <1>1, <1>3, <1>4, ReleaseFacts DEF IInv
  <1>6. Counts'
    <2>1. ASSUME NEW o \in live \ Immortal
          PROVE  Holders(o)' = Holders(o)
      <3>1. o \in Obj /\ NIL \notin Obj /\ rc[o] >= Cardinality(Holders(o)) /\ rc[o] \in Int
        BY ArcAssumption DEF TypeOK, IInv, Counts, Covers
      <3>2. Cardinality(Holders(o)) \in Nat
        BY HoldersFinite, FS_CardinalityType
      <3>3. mem[s] # o
        BY <1>1, <3>1, <3>2 DEF Skips
      <3> HIDE DEF s
      <3> QED
        BY <1>1, <3>3 DEF Holders, Owning
    <2>2. \A v \in Owning' : v \in Owning
      BY <1>1 DEF Owning
    <2> QED
      BY <1>1, <2>1, <2>2 DEF IInv, Counts
  <1>7. CascadeSafe'
    <2>1. SUFFICES ASSUME NEW k \in 1 .. Len(cascade') PROVE SafeCascade(k)'
      BY DEF CascadeSafe
    <2>2. k \in 1 .. Len(cascade) - 1 /\ k = Len(U) + k
      BY <1>1, <1>3, Popped
    <2>3. stale \subseteq stale' /\ (cascade[1].op = "release" => cascade[1].slot \in stale')
      BY <1>1, <1>5 DEF Release
    <2>4. \A j \in 1 .. Len(cascade) : j # 1 /\ cascade[j].op = "free" =>
              /\ cascade[j].obj \in live' /\ rc'[cascade[j].obj] = 0
              /\ \A m \in 1 .. Len(U) : U[m] # cascade[j]
      BY <1>1, <1>4 DEF IInv, CascadeSafe, SafeCascade
    <2> QED
      BY <1>1, <1>3, <1>4, <2>2, <2>3, <2>4, PoppedSafe DEF IInv
  <1>8. CodeSafe' /\ UnusedEmpty' /\ CtxOK'
    BY <1>5, Waiting DEF IInv
  <1> QED
    BY <1>6, <1>7, <1>8 DEF IInv

\* What freeing an object consists of.
LEMMA UnwindFacts ==
    ASSUME NEW v \in Obj
    PROVE  /\ Unwind(v) \in Seq(CascadeOp) /\ Len(PtrOffsets) \in Nat
           /\ Len(Unwind(v)) = Len(PtrOffsets) + 1
           /\ \A k \in 1 .. Len(PtrOffsets) : Unwind(v)[k] = Release(<<v, PtrOffsets[k]>>)
           /\ Unwind(v)[Len(PtrOffsets) + 1] = Free(v)
  <1> DEFINE n == Len(PtrOffsets)
             a == [k \in 1 .. n |-> Release(<<v, PtrOffsets[k]>>)]
             b == <<Free(v)>>
  <1>1. n \in Nat
    BY ArcAssumption
  <1>2. \A k \in 1 .. n : <<v, PtrOffsets[k]>> \in Slot
    BY SlotFacts DEF StrongField
  <1> HIDE DEF n
  <1>3. a \in Seq(CascadeOp) /\ Len(a) = n
        /\ \A k \in 1 .. n : a[k] = Release(<<v, PtrOffsets[k]>>)
    BY <1>1, <1>2, FcnIsSeq DEF CascadeOp
  <1>4. b \in Seq(CascadeOp) /\ Len(b) = 1 /\ b[1] = Free(v)
    BY DEF CascadeOp
  <1>5. Unwind(v) = a \o b
    BY DEF Unwind, n
  <1> HIDE DEF a, b
  <1>6. /\ a \o b \in Seq(CascadeOp) /\ Len(a \o b) = n + 1
        /\ \A k \in 1 .. n : (a \o b)[k] = a[k]
        /\ (a \o b)[n + 1] = b[(n + 1) - n]
    <2>0. a \in Seq(CascadeOp) /\ Len(a) = n /\ b \in Seq(CascadeOp) /\ Len(b) = 1
      BY <1>3, <1>4
    <2>1. /\ a \o b \in Seq(CascadeOp) /\ Len(a \o b) = Len(a) + Len(b)
          /\ \A k \in 1 .. Len(a) + Len(b) : (a \o b)[k] = IF k <= Len(a) THEN a[k] ELSE b[k - Len(a)]
      BY <2>0, ConcatProperties
    <2> QED
      BY <1>1, <2>0, <2>1
  <1>7. (n + 1) - n = 1
    BY <1>1
  <1> QED
    BY <1>1, <1>3, <1>4, <1>5, <1>6, <1>7 DEF n

\* A release of a counted object loses one owner and one count; at zero the
\* object is freed after its fields are released.
LEMMA CountStep ==
    ASSUME TypeOK, IInv, ReleaseCounts, UNCHANGED <<depth, bind, ctx, code>>
    PROVE  IInv'
  <1> DEFINE s == Head(cascade).slot
             v == mem[s]
             n == Len(PtrOffsets)
             U == IF rc[v] - 1 > 0 THEN <<>> ELSE Unwind(v)
  <1>1. /\ cascade \in Seq(CascadeOp) /\ cascade # <<>> /\ Head(cascade).op = "release"
        /\ v \in live /\ ~Skips(v) /\ s \notin stale
        /\ rc' = [rc EXCEPT ![v] = @ - 1]
        /\ stale' = stale \cup {s}
        /\ cascade' = IF rc[v] - 1 > 0 THEN Tail(cascade) ELSE Unwind(v) \o Tail(cascade)
        /\ UNCHANGED <<live, mem>>
    BY DEF ReleaseCounts, TypeOK
  <1>2. /\ live \subseteq Obj /\ rc \in [Obj -> Int] /\ v \in Obj
        /\ Tail(cascade) \in Seq(CascadeOp)
    BY <1>1, HeadTailProperties DEF TypeOK
  <1>3. U \in Seq(CascadeOp) /\ cascade' = U \o Tail(cascade)
    <2>1. CASE rc[v] - 1 > 0
      BY <1>1, <1>2, <2>1, ConcatEmptySeq
    <2>2. CASE ~(rc[v] - 1 > 0)
      BY <1>1, <1>2, <2>2, UnwindFacts
    <2> QED
      BY <2>1, <2>2
  <1>4. ASSUME NEW k \in 1 .. Len(U)
        PROVE  /\ rc[v] - 1 <= 0 /\ Len(U) = n + 1 /\ n \in Nat
               /\ \/ k \in 1 .. n /\ U[k] = Release(<<v, PtrOffsets[k]>>)
                  \/ k = n + 1 /\ U[k] = Free(v)
               /\ \A j \in 1 .. n : j \in 1 .. Len(U) /\ U[j] = Release(<<v, PtrOffsets[j]>>)
    <2>1. ~(rc[v] - 1 > 0)
      <3>1. Len(<<>>) = 0
        OBVIOUS
      <3>2. CASE rc[v] - 1 > 0
        BY <3>1, <3>2
      <3> QED
        BY <3>2
    <2>2. U = Unwind(v)
      BY <2>1
    <2>3. rc[v] - 1 <= 0
      BY <1>2, <2>1
    <2> HIDE DEF U, v
    <2> QED
      BY <1>2, <2>2, <2>3, UnwindFacts
  <1> HIDE DEF U
  <1>5. \A k \in 1 .. Len(U) : \A t \in Temps : U[k] # Release(t)
    <2> TAKE k \in 1 .. Len(U)
    <2> TAKE t \in Temps
    <2>1. t[1] \notin Obj
      BY SlotFacts, SlotKinds
    <2>2. \A f : <<v, f>> # t
      BY <1>2, <2>1
    <2> HIDE DEF v
    <2>3. U[k] = Release(<<v, PtrOffsets[k]>>) \/ U[k] = Free(v)
      BY <1>4
    <2> QED
      BY <2>2, <2>3 DEF Release, Free
  <1>6. /\ cascade[1] = Release(s) /\ s \in StrongSlot
        /\ EmptyNow \subseteq EmptyNow' /\ HeldNow \subseteq HeldNow'
    BY <1>1, <1>3, <1>5, ReleaseFacts DEF IInv
  <1>7. v \notin Immortal /\ s \in Holders(v)
    BY <1>1, <1>2, <1>6 DEF IInv, Counts, Skips, Holders, Owning
  <1>8. \A o \in Obj : Holders(o)' = IF o = v THEN Holders(o) \ {s} ELSE Holders(o)
    <2>1. mem[s] = v
      OBVIOUS
    <2> HIDE DEF s, v
    <2> QED
      BY <1>1, <2>1 DEF Holders, Owning
  <1>9. /\ rc[v] >= 1 /\ rc'[v] = rc[v] - 1
        /\ Covers(rc'[v], Cardinality(Holders(v) \ {s}))
        /\ \A o \in Obj : o # v => rc'[o] = rc[o]
    <2>1. Covers(rc[v], Cardinality(Holders(v)))
      BY <1>1, <1>7 DEF IInv, Counts
    <2> HIDE DEF s, v
    <2>2. IsFiniteSet(Holders(v)) /\ Cardinality(Holders(v)) \in Nat
      BY HoldersFinite, FS_CardinalityType
    <2>3. Holders(v) # {}
      BY <1>7
    <2>4. Cardinality(Holders(v)) # 0
      BY <2>2, <2>3, FS_EmptySet
    <2>5. Cardinality(Holders(v) \ {s}) = Cardinality(Holders(v)) - 1
      BY <2>2, <1>7, FS_RemoveElement
    <2>6. rc'[v] = rc[v] - 1 /\ rc[v] \in Int /\ \A o \in Obj : o # v => rc'[o] = rc[o]
      BY <1>1, <1>2
    <2> QED
      BY <2>1, <2>2, <2>4, <2>5, <2>6 DEF Covers
  <1> HIDE DEF s, v
  <1>10. Counts'
    <2>1. \A o \in live \ Immortal : Covers(rc'[o], Cardinality(Holders(o)'))
      <3> TAKE o \in live \ Immortal
      <3>1. o \in Obj /\ Covers(rc[o], Cardinality(Holders(o)))
        BY <1>2 DEF IInv, Counts
      <3>2. CASE o = v
        BY <1>2, <1>8, <1>9, <3>2
      <3>3. CASE o # v
        BY <1>8, <1>9, <3>1, <3>3
      <3> QED
        BY <3>2, <3>3
    <2>2. \A o \in Immortal : o \in live /\ rc'[o] < 0
      BY <1>2, <1>7, <1>9 DEF IInv, Counts
    <2>3. \A u \in Owning' : u \in Owning
      BY <1>1 DEF Owning
    <2> QED
      BY <1>1, <2>1, <2>2, <2>3 DEF IInv, Counts
  <1>11. ASSUME NEW j \in 1 .. Len(cascade), cascade[j].op = "free"
         PROVE  cascade[j].obj \in live /\ rc[cascade[j].obj] = 0 /\ cascade[j].obj # v
    <2>1. SafeCascade(j)
      BY DEF IInv, CascadeSafe
    <2>2. cascade[j].obj \in live /\ rc[cascade[j].obj] = 0
      BY <1>11, <2>1 DEF SafeCascade
    <2> QED
      BY <1>9, <2>2
  <1>12. ASSUME NEW k \in 1 .. Len(U)
         PROVE  SafeCascade(k)'
    <2>1. cascade'[k] = U[k] /\ Len(U) \in Nat
      BY <1>1, <1>3, Popped
    <2>2. CASE k \in 1 .. n /\ U[k] = Release(<<v, PtrOffsets[k]>>)
      <3>1. <<v, PtrOffsets[k]>> \in StrongSlot
        BY <1>2, <2>2 DEF StrongSlot, StrongField
      <3>2. cascade'[k].op = "release" /\ cascade'[k].slot \in StrongSlot
        BY <2>1, <2>2, <3>1 DEF Release
      <3> QED
        BY <3>2 DEF SafeCascade
    <2>3. CASE k = n + 1 /\ U[k] = Free(v)
      <3>1. cascade'[k].op = "free" /\ cascade'[k].obj = v
        BY <2>1, <2>3 DEF Free
      <3>2. v \in live' /\ rc'[v] = 0
        <4>1. rc[v] - 1 <= 0 /\ rc[v] \in Int
          BY <1>2, <1>4
        <4>2. rc'[v] = rc[v] - 1 /\ rc[v] >= 1
          BY <1>9
        <4>3. v \in live'
          BY <1>1
        <4> QED
          BY <4>1, <4>2, <4>3
      <3>3. ASSUME NEW f \in StrongField
            PROVE  \E j \in 1 .. k - 1 : cascade'[j] = Release(<<v, f>>)
        <4>1. PICK j \in 1 .. n : f = PtrOffsets[j]
          BY DEF StrongField, n
        <4>2. j \in 1 .. Len(U) /\ U[j] = Release(<<v, f>>)
          BY <1>4, <4>1
        <4>3. cascade'[j] = U[j]
          BY <1>1, <1>3, <4>2, Popped
        <4>4. j \in 1 .. k - 1
          BY <1>4, <2>3, <4>1
        <4> QED
          BY <4>2, <4>3, <4>4
      <3>4. ASSUME NEW i \in 1 .. Len(cascade'), cascade'[i] = Free(v)
            PROVE  i = k
        <4>1. Free(v).op = "free" /\ Free(v).obj = v
          BY DEF Free
        <4>2. CASE i \in 1 .. Len(U)
          <5>1. U[i] = Free(v)
            BY <1>1, <1>3, <3>4, <4>2, Popped
          <5>2. \/ i \in 1 .. n /\ U[i] = Release(<<v, PtrOffsets[i]>>)
                \/ i = n + 1
            BY <1>4, <4>2
          <5>3. \A f : Release(<<v, f>>) # Free(v)
            BY DEF Release, Free
          <5> QED
            BY <2>3, <5>1, <5>2, <5>3
        <4>3. CASE i \notin 1 .. Len(U)
          <5>1. PICK m \in 1 .. Len(cascade) - 1 : i = Len(U) + m
            BY <1>1, <1>3, <4>3, Popped
          <5>2. cascade[m + 1] = Free(v)
            BY <1>1, <1>3, <3>4, <5>1, Popped
          <5>3. Len(cascade) \in Nat
            BY <1>1
          <5>4. m + 1 \in 1 .. Len(cascade)
            BY <5>3
          <5> QED
            BY <1>11, <4>1, <5>2, <5>4
        <4> QED
          BY <4>2, <4>3
      <3>5. /\ cascade'[k].op = "free" /\ cascade'[k].obj \in live'
            /\ rc'[cascade'[k].obj] = 0
            /\ \A f \in StrongField :
                  \/ <<cascade'[k].obj, f>> \in stale'
                  \/ \E j \in 1 .. k - 1 : cascade'[j] = Release(<<cascade'[k].obj, f>>)
            /\ \A i \in 1 .. Len(cascade') : cascade'[i] = Free(cascade'[k].obj) => i = k
        BY <3>1, <3>2, <3>3, <3>4
      <3> QED
        BY <3>5 DEF SafeCascade
    <2> QED
      BY <1>4, <2>2, <2>3
  <1>13. CascadeSafe'
    <2>1. SUFFICES ASSUME NEW p \in 1 .. Len(cascade'), p \notin 1 .. Len(U)
                   PROVE  SafeCascade(p)'
      BY <1>12 DEF CascadeSafe
    <2>2. PICK k \in 1 .. Len(cascade) - 1 : p = Len(U) + k
      BY <1>1, <1>3, <2>1, Popped
    <2>3. stale \subseteq stale' /\ (cascade[1].op = "release" => cascade[1].slot \in stale')
      BY <1>1, <1>6 DEF Release
    <2>4. ASSUME NEW j \in 1 .. Len(cascade), j # 1, cascade[j].op = "free"
          PROVE  /\ cascade[j].obj \in live' /\ rc'[cascade[j].obj] = 0
                 /\ \A m \in 1 .. Len(U) : U[m] # cascade[j]
      <3>1. cascade[j].obj \in live /\ rc[cascade[j].obj] = 0 /\ cascade[j].obj # v
        BY <1>11, <2>4
      <3>2. ASSUME NEW m \in 1 .. Len(U), U[m] = cascade[j]
            PROVE  FALSE
        <4>1. U[m] = Release(<<v, PtrOffsets[m]>>) \/ U[m] = Free(v)
          BY <1>4
        <4>2. Release(<<v, PtrOffsets[m]>>).op = "release" /\ Free(v).obj = v
          BY DEF Release, Free
        <4> QED
          BY <2>4, <3>1, <3>2, <4>1, <4>2
      <3> QED
        BY <1>1, <1>2, <1>9, <3>1, <3>2
    <2> QED
      BY <1>1, <1>3, <2>2, <2>3, <2>4, PoppedSafe DEF IInv
  <1>14. CodeSafe' /\ UnusedEmpty' /\ CtxOK'
    BY <1>6, Waiting DEF IInv
  <1> QED
    BY <1>10, <1>13, <1>14 DEF IInv

\* The object freed has no owner and its fields own nothing.
LEMMA FreeKeeps ==
    ASSUME TypeOK, IInv, FreeStep, UNCHANGED <<depth, bind, ctx, code>>
    PROVE  IInv'
  <1> DEFINE o == Head(cascade).obj
             U == <<>>
  <1>1. /\ cascade \in Seq(CascadeOp) /\ cascade # <<>> /\ Head(cascade).op = "free"
        /\ live' = live \ {o}
        /\ mem' = [s \in Slot |-> IF s[1] = o THEN NIL ELSE mem[s]]
        /\ cascade' = Tail(cascade)
        /\ UNCHANGED <<rc, stale>>
    BY DEF FreeStep, TypeOK
  <1>2. Tail(cascade) \in Seq(CascadeOp)
    BY <1>1, HeadTailProperties
  <1>3. U \in Seq(CascadeOp) /\ Len(U) = 0 /\ cascade' = U \o Tail(cascade)
    BY <1>1, <1>2, ConcatEmptySeq
  <1> HIDE DEF U
  <1>4. \A k \in 1 .. Len(U) : FALSE
    BY <1>3
  <1>5. cascade[1] = Head(cascade) /\ cascade[1] = Free(o) /\ 1 \in 1 .. Len(cascade)
        /\ Len(cascade) \in Nat
    BY <1>1, <1>3, Popped, EntryKinds
  <1>6. /\ o \in live /\ rc[o] = 0
        /\ \A f \in StrongField : <<o, f>> \in stale
        /\ \A m \in 1 .. Len(cascade) : cascade[m] = Free(o) => m = 1
    <2>1. SafeCascade(1)
      BY <1>5 DEF IInv, CascadeSafe
    <2>2. cascade[1].op = "free" /\ cascade[1].obj = o
      BY <1>1, <1>5
    <2> HIDE DEF o
    <2>3. \A j \in 1 .. 1 - 1 : FALSE
      OBVIOUS
    <2> QED
      BY <2>1, <2>2, <2>3 DEF SafeCascade
  <1> HIDE DEF o
  <1>7. live \subseteq Obj /\ o \in Obj /\ o \notin Immortal /\ NIL \notin Obj
    BY <1>6, ArcAssumption DEF TypeOK, IInv, Counts
  <1>8. Holders(o) = {}
    <2>1. Cardinality(Holders(o)) <= 0
      BY <1>6, <1>7 DEF IInv, Counts, Covers
    <2>2. IsFiniteSet(Holders(o)) /\ Cardinality(Holders(o)) \in Nat
      BY HoldersFinite, FS_CardinalityType
    <2>3. Cardinality(Holders(o)) = 0
      BY <2>1, <2>2
    <2> QED
      BY <2>2, <2>3, FS_EmptySet
  <1>9. \A s \in StrongSlot : s[1] = o => s \in stale
    <2> TAKE s \in StrongSlot
    <2>1. CASE s \in Root
      BY <1>7, <2>1, SlotKinds
    <2>2. CASE s \in Obj \X StrongField
      BY <1>6, <2>2
    <2> QED
      BY <2>1, <2>2, SlotKinds
  <1>10. \A s \in StrongSlot : s \notin stale => mem'[s] = mem[s]
    BY <1>1, <1>9, SlotFacts
  <1>11. Counts'
    <2>1. \A p \in Obj : Holders(p)' = Holders(p)
      BY <1>1, <1>10 DEF Holders, Owning
    <2>2. ASSUME NEW s \in Owning'
          PROVE  mem'[s] \in live' \cup {NIL}
      <3>1. s \in Owning /\ mem'[s] = mem[s]
        BY <1>1, <1>10 DEF Owning
      <3>2. mem[s] # o
        BY <1>8, <3>1 DEF Holders
      <3> QED
        BY <1>1, <3>1, <3>2 DEF IInv, Counts
    <2> QED
      BY <1>1, <1>6, <1>7, <2>1, <2>2 DEF IInv, Counts
  <1>12. CascadeSafe'
    <2>1. SUFFICES ASSUME NEW k \in 1 .. Len(cascade') PROVE SafeCascade(k)'
      BY DEF CascadeSafe
    <2>2. k \in 1 .. Len(cascade) - 1 /\ k = Len(U) + k
      BY <1>1, <1>3, Popped
    <2>3. stale \subseteq stale' /\ (cascade[1].op = "release" => cascade[1].slot \in stale')
      BY <1>1, <1>5 DEF Free
    <2>4. ASSUME NEW j \in 1 .. Len(cascade), j # 1, cascade[j].op = "free"
          PROVE  /\ cascade[j].obj \in live' /\ rc'[cascade[j].obj] = 0
                 /\ \A m \in 1 .. Len(U) : U[m] # cascade[j]
      <3>1. SafeCascade(j)
        BY DEF IInv, CascadeSafe
      <3>2. cascade[j].obj \in live /\ rc[cascade[j].obj] = 0
        BY <2>4, <3>1 DEF SafeCascade
      <3>3. cascade[j] \in CascadeOp
        BY <1>1
      <3>4. cascade[j] = Free(cascade[j].obj)
        BY <2>4, <3>3, EntryKinds
      <3>5. cascade[j].obj # o
        BY <1>6, <2>4, <3>4
      <3> QED
        BY <1>1, <1>4, <3>2, <3>5
    <2> QED
      BY <1>1, <1>3, <2>2, <2>3, <2>4, PoppedSafe DEF IInv
  <1>13. EmptyNow \subseteq EmptyNow' /\ HeldNow \subseteq HeldNow'
    <2>1. \A s : Free(o) # Release(s)
      BY DEF Free, Release
    <2>2. \A s : Released(s) <=> Released(s)'
      BY <1>1, <1>3, <1>4, <1>5, <2>1, PoppedReleased
    <2>3. \A s \in StrongSlot : Empty(s) => Empty(s)'
      BY <1>1, <1>10 DEF Empty
    <2> QED
      BY <1>1, <2>2, <2>3 DEF EmptyNow, HeldNow
  <1>14. CodeSafe' /\ UnusedEmpty' /\ CtxOK'
    BY <1>13, Waiting DEF IInv
  <1> QED
    BY <1>11, <1>12, <1>14 DEF IInv

\* Every instruction and every step of a release preserves IInv.
LEMMA RunKeeps ==
    ASSUME TypeOK, IInv, Run
    PROVE  IInv'
  <1>1. CASE RunRetainFaults \/ RunCopyFaults
    <2>1. Trap
      BY <1>1 DEF RunRetainFaults, RunCopyFaults
    <2> QED
      BY <2>1, TrapKeeps
  <1>2. CASE RunCascade
    <2>1. UNCHANGED <<depth, bind, ctx, code>>
          /\ (ReleaseSkips \/ ReleaseCounts \/ ReleaseFaults \/ FreeStep)
      BY <1>2 DEF RunCascade, CascadeStep
    <2>2. CASE ReleaseFaults
      BY <2>1, <2>2, Still DEF ReleaseFaults, Undefined
    <2> QED
      BY <2>1, <2>2, SkipStep, CountStep, FreeKeeps
  <1> QED
    BY <1>1, <1>2, RetainStep, DropStep, MoveStep, PokeStep, ClearStep, CopyStep, ForgetStep
    DEF Run

-----------------------------------------------------------------------------
(* The program's steps. *)

\* Between instructions, what IInv says of the words.
LEMMA ReadyFacts ==
    ASSUME TypeOK, IInv, Ready
    PROVE  /\ cascade = <<>> /\ code = <<>>
           /\ EmptyNow = {s \in StrongSlot : Empty(s)}
           /\ HeldNow = {s \in Temps : s \notin stale}
           /\ \A s \in Unused : s \in StrongSlot /\ Empty(s)
  <1>1. cascade = <<>> /\ code = <<>>
    BY DEF Ready
  <1>2. EmptyNow = {s \in StrongSlot : Empty(s)} /\ HeldNow = {s \in Temps : s \notin stale}
    BY <1>1, Quiet
  <1>3. ASSUME NEW s \in Unused
        PROVE  s \in StrongSlot /\ Empty(s)
    <2>1. EmptyBy(EmptyNow, code, s, Len(code) + 1)
      BY DEF IInv, UnusedEmpty
    <2>2. Len(code) = 0
      BY <1>1
    <2>3. s \in EmptyNow
      BY <2>1, <2>2 DEF EmptyBy
    <2> QED
      BY <1>2, <2>3
  <1> QED
    BY <1>1, <1>2, <1>3

\* A statement that emits code, or none: what has to be shown.
LEMMA Emitted ==
    ASSUME Counts', cascade' = <<>>, CtxOK', SafeCode(EmptyNow', HeldNow', code'),
           \A s \in Unused' : s \in EmptyAfter(EmptyNow', code')
    PROVE  IInv'
  <1>1. CascadeSafe'
    BY Quiet
  <1>2. CodeSafe'
    BY DEF CodeSafe
  <1>3. UnusedEmpty'
    BY DEF UnusedEmpty, EmptyAfter
  <1> QED
    BY <1>1, <1>2, <1>3 DEF IInv

\* A step that emits no code.
LEMMA Nothing ==
    ASSUME Counts', cascade' = <<>>, CtxOK', code' = <<>>,
           \A s \in Unused' : s \in StrongSlot /\ Empty(s)'
    PROVE  IInv'
  <1> DEFINE E2 == EmptyNow'
             H2 == HeldNow'
  <1>1. E2 = {s \in StrongSlot : Empty(s)'}
    BY Quiet
  <1>2. code' \in Seq(Instr) /\ Len(code') = 0
    OBVIOUS
  <1>3. \A s \in Unused' : s \in StrongSlot /\ s \in E2
    BY <1>1
  <1> HIDE DEF E2, H2
  <1>4. SafeCode(E2, H2, code')
    BY <1>2 DEF SafeCode
  <1>5. ASSUME NEW s \in Unused'
        PROVE  s \in EmptyAfter(E2, code')
    <2>1. EmptyBy(E2, code', s, 0 + 1)
      BY <1>3 DEF EmptyBy
    <2> QED
      BY <1>2, <1>3, <2>1 DEF EmptyAfter
  <1> QED
    BY <1>4, <1>5, Emitted DEF E2, H2

\* An unchanged heap.
LEMMA SameHeap ==
    ASSUME UNCHANGED heapState
    PROVE  /\ Counts' <=> Counts
           /\ EmptyNow' = EmptyNow /\ HeldNow' = HeldNow
           /\ \A s : Empty(s)' <=> Empty(s)
  BY DEF heapState, Counts, Holders, Owning, EmptyNow, HeldNow, Empty, Released

\* The words out of use, case by case,
LEMMA UnusedCases ==
    \A s : s \in Unused <=>
       \/ \E k \in 1 .. Len(PtrOffsets) + 1 : s = Flight(k)
       \/ s \in Frames /\ s[1] > depth
       \/ \E i \in Len(ctx) + 1 .. MaxCtx, k \in 1 .. MaxArity : s = Temp(i, k)
       \/ \E i \in 1 .. Len(ctx) : \E k \in Len(ctx[i].vals) + 1 .. MaxArity : s = Temp(i, k)
  BY DEF Unused

\* and in the next state.
LEMMA UnusedCasesNext ==
    \A s : s \in Unused' <=>
       \/ \E k \in 1 .. Len(PtrOffsets) + 1 : s = Flight(k)
       \/ s \in Frames /\ s[1] > depth'
       \/ \E i \in Len(ctx') + 1 .. MaxCtx, k \in 1 .. MaxArity : s = Temp(i, k)
       \/ \E i \in 1 .. Len(ctx') : \E k \in Len(ctx'[i].vals) + 1 .. MaxArity : s = Temp(i, k)
  BY DEF Unused

\* Opening an expression uses no new word.
LEMMA OpenKeeps ==
    ASSUME TypeOK, CtxOK, NEW kind, NEW dst, NEW vals \in Seq(Value),
           Len(ctx) < MaxCtx, Open(kind, dst, vals),
           (kind \notin {"store", "relate"} /\ dst = NIL) \/ VariableAt(dst, depth),
           kind = "return" => Len(ctx) > 1 /\ ctx[Len(ctx) - 1].at < depth
    PROVE  CtxOK' /\ Unused' \subseteq Unused
  <1> DEFINE e == [kind |-> kind, at |-> depth, dst |-> dst, vals |-> vals]
             n == Len(ctx)
  <1>1. /\ ctx' = Append(ctx, e) /\ depth' = depth /\ bind' = bind /\ ctx \in Seq(Context)
        /\ n \in Nat /\ MaxCtx \in Nat /\ n + 1 <= MaxCtx /\ depth \in Int
    BY ArcAssumption DEF Open, TypeOK
  <1>2. Len(ctx') = n + 1 /\ ctx'[n + 1] = e /\ \A i \in 1 .. n : ctx'[i] = ctx[i]
    BY <1>1
  <1>3. e.kind = kind /\ e.at = depth /\ e.dst = dst /\ e.vals = vals
    OBVIOUS
  <1> HIDE DEF e, n
  <1>4. ASSUME NEW i \in 1 .. n + 1
        PROVE  i \in 1 .. n \/ i = n + 1
    BY <1>1
  <1>5. ASSUME NEW i \in 1 .. n
        PROVE  /\ ctx[i].at <= depth /\ ctx[i].at \in Int
               /\ \A j \in 1 .. i : ctx[j].at <= ctx[i].at
               /\ (ctx[i].kind \notin {"store", "relate"} /\ ctx[i].dst = NIL) \/ VariableAt(ctx[i].dst, ctx[i].at)
               /\ ctx[i].kind = "return" => i > 2 /\ ctx[i - 2].at < ctx[i].at
    <2>1. ctx[i] \in Context
      BY <1>1 DEF n
    <2>2. ctx[i].at \in Int
      BY <2>1, ArcAssumption DEF Context
    <2> QED
      BY <2>2 DEF CtxOK, n
  <1>6. ASSUME NEW i \in 1 .. n + 1
        PROVE  /\ ctx'[i].at <= depth
               /\ \A j \in 1 .. i : ctx'[j].at <= ctx'[i].at
               /\ (ctx'[i].kind \notin {"store", "relate"} /\ ctx'[i].dst = NIL) \/ VariableAt(ctx'[i].dst, ctx'[i].at)
               /\ ctx'[i].kind = "return" => i > 2 /\ ctx'[i - 2].at < ctx'[i].at
    <2>1. CASE i \in 1 .. n
      <3>1. \A j \in 1 .. i : ctx'[j] = ctx[j]
        BY <1>1, <1>2, <2>1
      <3>2. i > 2 => i - 2 \in 1 .. i
        BY <1>1
      <3> QED
        BY <1>2, <1>5, <2>1, <3>1, <3>2
    <2>2. CASE i = n + 1
      <3>1. ctx'[i].at = depth /\ ctx'[i].dst = dst /\ ctx'[i].kind = kind
        BY <1>2, <1>3, <2>2
      <3>2. \A j \in 1 .. i : ctx'[j].at <= depth
        <4> TAKE j \in 1 .. i
        <4>1. CASE j \in 1 .. n
          BY <1>2, <1>5, <4>1
        <4>2. CASE j = n + 1
          <5>1. ctx'[j].at = depth
            BY <2>2, <3>1, <4>2
          <5> QED
            BY <1>1, <5>1
        <4> QED
          BY <1>4, <2>2, <4>1, <4>2
      <3>3. kind = "return" => i > 2 /\ ctx'[i - 2].at < depth
        <4>1. SUFFICES ASSUME kind = "return" PROVE i > 2 /\ ctx'[i - 2].at < depth
          OBVIOUS
        <4>2. n > 1 /\ ctx[n - 1].at < depth
          BY <4>1 DEF n
        <4>3. n - 1 \in 1 .. n /\ i - 2 = n - 1
          BY <1>1, <2>2, <4>2
        <4> QED
          BY <1>1, <1>2, <2>2, <4>2, <4>3
      <3> QED
        BY <2>2, <3>1, <3>2, <3>3, <1>1
    <2> QED
      BY <1>4, <2>1, <2>2
  <1>7. CtxOK'
    BY <1>1, <1>2, <1>6 DEF CtxOK, VariableAt
  <1>8. ASSUME NEW s \in Unused'
        PROVE  s \in Unused
    <2>1. CASE \E i \in Len(ctx') + 1 .. MaxCtx, k \in 1 .. MaxArity : s = Temp(i, k)
      <3>1. PICK i \in Len(ctx') + 1 .. MaxCtx, k \in 1 .. MaxArity : s = Temp(i, k)
        BY <2>1
      <3>2. i \in Len(ctx) + 1 .. MaxCtx
        BY <1>1, <1>2, <3>1 DEF n
      <3> QED
        BY <3>1, <3>2, UnusedCases
    <2>2. ASSUME NEW i \in 1 .. n + 1, NEW k \in Len(ctx'[i].vals) + 1 .. MaxArity,
                 s = Temp(i, k)
          PROVE  s \in Unused
      <3>1. CASE i \in 1 .. n
        <4>1. ctx'[i] = ctx[i]
          BY <1>2, <3>1
        <4> QED
          BY <2>2, <3>1, <4>1, UnusedCases DEF n
      <3>2. CASE i = n + 1
        <4>1. i \in Len(ctx) + 1 .. MaxCtx
          BY <1>1, <3>2 DEF n
        <4>2. ctx'[i].vals = vals /\ Len(vals) \in Nat
          BY <1>2, <1>3, <3>2
        <4>3. k \in 1 .. MaxArity
          BY <4>2, TempFacts
        <4> QED
          BY <2>2, <4>1, <4>3, UnusedCases
      <3> QED
        BY <1>4, <3>1, <3>2
    <2>3. CASE \E k \in 1 .. Len(PtrOffsets) + 1 : s = Flight(k)
      BY <2>3, UnusedCases
    <2>4. CASE s \in Frames /\ s[1] > depth'
      BY <1>1, <2>4, UnusedCases
    <2>5. CASE \E i \in 1 .. Len(ctx') : \E k \in Len(ctx'[i].vals) + 1 .. MaxArity : s = Temp(i, k)
      <3>1. PICK i \in 1 .. Len(ctx') : \E k \in Len(ctx'[i].vals) + 1 .. MaxArity : s = Temp(i, k)
        BY <2>5
      <3>2. PICK k \in Len(ctx'[i].vals) + 1 .. MaxArity : s = Temp(i, k)
        BY <3>1
      <3>3. i \in 1 .. n + 1
        BY <1>2, <3>1
      <3> QED
        BY <2>2, <3>2, <3>3
    <2> QED
      BY <2>1, <2>3, <2>4, <2>5, UnusedCasesNext
  <1> QED
    BY <1>7, <1>8

\* A word out of use is a register or belongs to a deeper frame.
LEMMA UnusedKinds ==
    ASSUME TypeOK
    PROVE  \A s \in Unused : \/ s \in Temps
                             \/ s \in Frames /\ s[1] > depth
  <1>1. \A k \in 1 .. Len(PtrOffsets) + 1 : Flight(k) \in Temps
    BY TempFacts, ArcAssumption DEF Flight
  <1>2. ctx \in Seq(Context) /\ Len(ctx) <= MaxCtx /\ Len(ctx) \in Nat /\ MaxCtx \in Nat
    BY ArcAssumption DEF TypeOK
  <1>3. \A i \in Len(ctx) + 1 .. MaxCtx, k \in 1 .. MaxArity : Temp(i, k) \in Temps
    BY <1>2, TempFacts
  <1>4. ASSUME NEW i \in 1 .. Len(ctx), NEW k \in Len(ctx[i].vals) + 1 .. MaxArity
        PROVE  Temp(i, k) \in Temps
    <2>1. ctx[i] \in Context
      BY <1>2
    <2>2. Len(ctx[i].vals) \in Nat
      BY <2>1 DEF Context
    <2>3. i \in 1 .. MaxCtx /\ k \in 1 .. MaxArity
      BY <1>2, <2>2, TempFacts
    <2> QED
      BY <2>3, TempFacts
  <1> QED
    BY <1>1, <1>3, <1>4, UnusedCases

\* A variable in scope is not an unused word.
LEMMA VariableUsed ==
    ASSUME TypeOK, NEW x, VariableAt(x, depth)
    PROVE  x \notin Unused
  <1>1. x \notin Temps /\ (x \in Frames => x[1] <= depth /\ x[1] \in Int) /\ depth \in Int
    BY SlotKinds, ArcAssumption DEF VariableAt, TypeOK
  <1> QED
    BY <1>1, UnusedKinds

\* Designators name variables in scope.
LEMMA PlaceVariable ==
    ASSUME TypeOK, CtxOK, NEW x \in Place
    PROVE  VariableAt(x, depth) /\ (~IsWeak(x) => x \in StrongSlot \ Temps)
  <1>1. x \in Slot /\ depth \in 0 .. MaxDepth /\ depth \in Int
    BY PlaceFacts, ArcAssumption DEF TypeOK
  <1>2. ASSUME x \in Direct
        PROVE  x \notin Temps /\ (x \in Frames => x[1] <= depth)
    <2>1. CASE depth # 0 /\ x \in FrameSlots(depth)
      <3>1. x[1] = depth
        BY <2>1 DEF FrameSlots
      <3>2. depth \in 1 .. MaxDepth
        BY <1>1, <2>1
      <3> QED
        BY <1>1, <2>1, <3>1, <3>2, SlotFacts, SlotKinds
    <2>2. CASE x \in Globals
      <3>1. x[1] = 0
        BY <2>2 DEF Globals
      <3> QED
        BY <1>1, <3>1, SlotKinds
    <2>3. CASE depth # 0 /\ x = bind[depth] /\ x # NIL
      <3>1. VariableAt(x, depth - 1)
        <4>1. depth \in 1 .. depth
          BY <1>1, <2>3
        <4> QED
          BY <2>3, <4>1 DEF CtxOK
      <3>2. x \in Frames => x[1] \in Int
        BY SlotKinds, ArcAssumption
      <3> QED
        BY <1>1, <3>1, <3>2 DEF VariableAt
    <2>4. \/ depth # 0 /\ x \in FrameSlots(depth)
          \/ x \in Globals
          \/ depth # 0 /\ x = bind[depth] /\ x # NIL
      BY <1>2 DEF Direct
    <2> QED
      BY <2>1, <2>2, <2>3, <2>4
  <1>3. ASSUME x \notin Direct
        PROVE  x[1] \in Obj
    <2>1. PICK s \in {t \in Direct : mem[t] # NIL}, f \in StrongField \cup WeakField :
                 x = <<mem[s], f>>
      BY <1>3 DEF Place
    <2>2. mem[s] \in Value
      BY <2>1, PlaceFacts DEF TypeOK
    <2> QED
      BY <2>1, <2>2 DEF Value
  <1>4. x[1] \in Obj => x \notin Temps /\ x \notin Frames
    BY SlotKinds, SlotFacts
  <1> QED
    BY <1>1, <1>2, <1>3, <1>4, SlotKinds DEF VariableAt

\* The innermost expressions end: the others are as they were.
LEMMA CutKeeps ==
    ASSUME TypeOK, CtxOK, NEW n \in Nat, n < Len(ctx), ctx' = SubSeq(ctx, 1, n),
           depth' \in Int, depth' <= depth, \A d \in 1 .. depth' : bind'[d] = bind[d],
           \A i \in 1 .. n : ctx[i].at <= depth'
    PROVE  /\ CtxOK'
           /\ \A s \in Unused' :
                 \/ s \in Unused
                 \/ \E i \in n + 1 .. Len(ctx) : \E k \in 1 .. Len(ctx[i].vals) : s = Temp(i, k)
                 \/ s \in Frames /\ s[1] > depth' /\ s[1] <= depth
  <1>1. /\ ctx \in Seq(Context) /\ Len(ctx) <= MaxCtx /\ Len(ctx) \in Nat /\ MaxCtx \in Nat
        /\ depth \in Int
    BY ArcAssumption DEF TypeOK
  <1>2. Len(ctx') = n /\ \A i \in 1 .. n : ctx'[i] = ctx[i] /\ i \in 1 .. Len(ctx) /\ i # Len(ctx)
    BY <1>1
  <1>3. CtxOK'
    <2>1. ASSUME NEW i \in 1 .. n
          PROVE  /\ ctx'[i].at <= depth'
                 /\ \A j \in 1 .. i : ctx'[j].at <= ctx'[i].at
                 /\ (ctx'[i].kind \notin {"store", "relate"} /\ ctx'[i].dst = NIL) \/ VariableAt(ctx'[i].dst, ctx'[i].at)
                 /\ ctx'[i].kind = "return" => i > 2 /\ ctx'[i - 2].at < ctx'[i].at
      <3>1. \A j \in 1 .. i : ctx'[j] = ctx[j]
        BY <1>2
      <3>2. i > 2 => i - 2 \in 1 .. i
        BY <1>1
      <3> QED
        BY <1>2, <3>1, <3>2 DEF CtxOK
    <2>2. \A d \in 1 .. depth' : d \in 1 .. depth
      BY <1>1
    <2>3. \A d \in 1 .. depth' : bind'[d] = NIL \/ VariableAt(bind'[d], d - 1)
      BY <2>2 DEF CtxOK
    <2> QED
      BY <1>2, <2>1, <2>3 DEF CtxOK, VariableAt
  <1>4. ASSUME NEW s \in Unused'
        PROVE  \/ s \in Unused
               \/ \E i \in n + 1 .. Len(ctx) : \E k \in 1 .. Len(ctx[i].vals) : s = Temp(i, k)
               \/ s \in Frames /\ s[1] > depth' /\ s[1] <= depth
    <2>1. CASE \E k \in 1 .. Len(PtrOffsets) + 1 : s = Flight(k)
      BY <2>1, UnusedCases
    <2>2. CASE s \in Frames /\ s[1] > depth'
      <3>1. s[1] \in Int
        BY <2>2, SlotKinds, ArcAssumption
      <3>2. s[1] > depth \/ s[1] <= depth
        BY <1>1, <3>1
      <3> QED
        BY <2>2, <3>2, UnusedCases
    <2>3. CASE \E i \in Len(ctx') + 1 .. MaxCtx, k \in 1 .. MaxArity : s = Temp(i, k)
      <3>1. PICK i \in n + 1 .. MaxCtx, k \in 1 .. MaxArity : s = Temp(i, k)
        BY <1>2, <2>3
      <3>2. CASE i \in Len(ctx) + 1 .. MaxCtx
        BY <3>1, <3>2, UnusedCases
      <3>3. CASE i \in n + 1 .. Len(ctx)
        <4>1. ctx[i] \in Context /\ i \in 1 .. Len(ctx)
          BY <1>1, <3>3
        <4>2. Len(ctx[i].vals) \in Nat /\ MaxArity \in Nat
          BY <4>1, TempFacts DEF Context
        <4>3. k \in 1 .. Len(ctx[i].vals) \/ k \in Len(ctx[i].vals) + 1 .. MaxArity
          BY <3>1, <4>2
        <4> QED
          BY <3>1, <3>3, <4>1, <4>3, UnusedCases
      <3> QED
        BY <1>1, <3>1, <3>2, <3>3
    <2>4. CASE \E i \in 1 .. Len(ctx') : \E k \in Len(ctx'[i].vals) + 1 .. MaxArity : s = Temp(i, k)
      <3>1. PICK i \in 1 .. n : \E k \in Len(ctx'[i].vals) + 1 .. MaxArity : s = Temp(i, k)
        BY <1>2, <2>4
      <3> QED
        BY <1>2, <3>1, UnusedCases
    <2>5. \/ \E k \in 1 .. Len(PtrOffsets) + 1 : s = Flight(k)
          \/ s \in Frames /\ s[1] > depth'
          \/ \E i \in Len(ctx') + 1 .. MaxCtx, k \in 1 .. MaxArity : s = Temp(i, k)
          \/ \E i \in 1 .. Len(ctx') : \E k \in Len(ctx'[i].vals) + 1 .. MaxArity : s = Temp(i, k)
      BY UnusedCasesNext
    <2> QED
      BY <2>1, <2>2, <2>3, <2>4, <2>5, Zenon
  <1> QED
    BY <1>3, <1>4

\* oc_alloc gives an object nothing refers to.
LEMMA AllocCounts ==
    ASSUME TypeOK, Counts, NEW o \in Obj, oc_alloc(o)
    PROVE  /\ Counts'
           /\ \A s \in StrongSlot : Empty(s) => Empty(s)'
           /\ \A s \in Temps : s \notin stale => s \notin stale'
  <1>1. /\ o \notin live /\ live' = live \cup {o} /\ rc' = [rc EXCEPT ![o] = 0]
        /\ mem' = [s \in Slot |-> IF s[1] = o THEN NIL ELSE mem[s]]
        /\ stale' = stale \ ({o} \X StrongField)
        /\ o \notin Immortal /\ StrongSlot \subseteq Slot /\ live \subseteq Obj
    BY SlotFacts DEF oc_alloc, Counts, TypeOK
  <1>2. \A s \in StrongSlot : s[1] = o => s \in {o} \X StrongField /\ s \in stale
    BY <1>1, SlotKinds DEF Counts
  <1>3. \A s \in StrongSlot : s \in {o} \X StrongField => s[1] = o
    OBVIOUS
  <1>4. \A s \in StrongSlot : mem'[s] = IF s[1] = o THEN NIL ELSE mem[s]
    BY <1>1
  <1>5. ASSUME NEW p \in Obj
        PROVE  Holders(p)' = Holders(p)
    <2>1. p # NIL
      BY ArcAssumption
    <2> QED
      BY <1>1, <1>2, <1>3, <1>4, <2>1 DEF Holders, Owning
  <1>6. Holders(o) = {}
    <2>1. o # NIL
      BY ArcAssumption
    <2> QED
      BY <1>1, <2>1 DEF Holders, Counts
  <1>7. Cardinality(Holders(o)') = 0
    BY <1>5, <1>6, FS_EmptySet
  <1>8. Counts'
    <2>1. \A p \in Immortal : p \in live' /\ rc'[p] < 0
      BY <1>1 DEF Counts, TypeOK
    <2>2. ASSUME NEW p \in live' \ Immortal
          PROVE  Covers(rc'[p], Cardinality(Holders(p)'))
      <3>1. CASE p = o
        <4>1. rc'[p] = 0
          BY <1>1, <3>1 DEF TypeOK
        <4> QED
          BY <1>7, <3>1, <4>1 DEF Covers
      <3>2. CASE p # o
        BY <1>1, <1>5, <3>2 DEF Counts, TypeOK
      <3> QED
        BY <3>1, <3>2
    <2>3. \A s \in Owning' : mem'[s] \in live' \cup {NIL}
      BY <1>1, <1>3, <1>4 DEF Owning, Counts
    <2>4. \A p \in Obj \ live', f \in StrongField : <<p, f>> \in stale'
      BY <1>1 DEF Counts
    <2> QED
      BY <2>1, <2>2, <2>3, <2>4 DEF Counts
  <1>9. \A s \in StrongSlot : Empty(s) => Empty(s)'
    BY <1>1, <1>2, <1>3, <1>4 DEF Empty
  <1>10. \A s \in Temps : s \notin stale => s \notin stale'
    BY <1>1
  <1> QED
    BY <1>8, <1>9, <1>10

\* A statement that emits code and leaves the program's state alone.
LEMMA EmitStill ==
    ASSUME TypeOK, IInv, Ready, UNCHANGED control, cascade' = <<>>, Counts',
           \A s \in StrongSlot : Empty(s) => Empty(s)',
           SafeCode(EmptyNow', HeldNow', code'),
           \A s \in Unused : s \in EmptyNow' => s \in EmptyAfter(EmptyNow', code')
    PROVE  IInv'
  <1>1. CtxOK' /\ Unused' = Unused
    BY DEF IInv, CtxOK, Unused, control
  <1>2. \A s \in Unused : s \in StrongSlot /\ Empty(s)'
    BY ReadyFacts
  <1>3. \A s \in Unused : s \in EmptyNow'
    BY <1>2, Quiet
  <1> QED
    BY <1>1, <1>3, Emitted

\* The registers that hold values in flight are free between statements.
LEMMA FlightUnused ==
    /\ \A k \in 1 .. Len(PtrOffsets) + 1 : Flight(k) \in Unused /\ Flight(k) \in Temps
    /\ Flight(1) \in Unused /\ Flight(1) \in Temps
  <1>1. Len(PtrOffsets) \in Nat
    BY ArcAssumption
  <1>2. 1 \in 1 .. Len(PtrOffsets) + 1
    BY <1>1
  <1>3. \A k \in 1 .. Len(PtrOffsets) + 1 : Flight(k) \in Unused
    BY UnusedCases
  <1>4. \A k \in 1 .. Len(PtrOffsets) + 1 : Flight(k) \in Temps
    BY <1>1, TempFacts DEF Flight
  <1> QED
    BY <1>2, <1>3, <1>4

\* NEW preserves IInv.
LEMMA NewKeeps ==
    ASSUME TypeOK, IInv, Forms \cap UnbalancedForms = {},
           NEW x \in Place, NEW o \in Obj, New(x, o)
    PROVE  IInv'
  <1> DEFINE E2 == EmptyNow'
             H2 == HeldNow'
             t == Flight(1)
             c == code'
  <1>1. /\ Ready /\ ~IsWeak(x) /\ oc_alloc(o) /\ code' = NewCode(x, o) /\ UNCHANGED control
        /\ cascade' = <<>> /\ Counts /\ CtxOK
    BY DEF New, Boundary, Ready, UnbalancedForms, control, IInv
  <1>2. Counts' /\ \A s \in StrongSlot : Empty(s) => Empty(s)'
    BY <1>1, AllocCounts
  <1>3. t \in Unused /\ t \in Temps
    BY FlightUnused
  <1>4. x \in StrongSlot \ Temps /\ x \notin Unused
    BY <1>1, PlaceVariable, VariableUsed
  <1>5. t \in E2
    <2>1. t \in StrongSlot /\ Empty(t)
      BY <1>1, <1>3, ReadyFacts
    <2> QED
      BY <1>1, <1>2, <2>1, Quiet
  <1>6. code' \in Seq(Instr)
    BY <1>1, <1>4, SlotFacts, NewCodeType
  <1>7. Len(c) = 3 /\ c[1] = Retain(o, t) /\ c[2] = Drop(x) /\ c[3] = Move(x, t)
    BY <1>1 DEF NewCode
  <1>8. \A s \in Unused : s \in StrongSlot
    BY <1>1, ReadyFacts
  <1> HIDE DEF E2, H2, t, c
  <1>9. c \in Seq(Instr)
    BY <1>6 DEF c
  <1>10. /\ SafeCode(E2, H2, c)
         /\ \A s \in StrongSlot : s \in E2 /\ s # x => s \in EmptyAfter(E2, c)
    BY <1>3, <1>4, <1>5, <1>7, <1>9, StoreRetained
  <1>11. \A s \in Unused : s \in E2 => s \in EmptyAfter(E2, c)
    BY <1>4, <1>8, <1>10
  <1> QED
    BY <1>1, <1>2, <1>10, <1>11, EmitStill DEF E2, H2, c

\* So does the assignment of a record on the heap,
LEMMA RecordKeeps ==
    ASSUME TypeOK, IInv, NEW x \in Place, NEW y \in Place, RecordAssign(x, y)
    PROVE  IInv'
  <1> DEFINE E2 == EmptyNow'
             H2 == HeldNow'
             o == mem[x]
             q == mem[y]
  <1>1. /\ Ready /\ code' = RecordAssignCode(o, q) /\ UNCHANGED heapState /\ UNCHANGED control
        /\ o \in live /\ q \in live
    BY DEF RecordAssign, Boundary, Emit
  <1>2. Counts' /\ E2 = EmptyNow /\ H2 = HeldNow /\ \A s \in StrongSlot : Empty(s) => Empty(s)'
    BY <1>1, SameHeap DEF IInv
  <1>3. o \in Obj /\ q \in Obj
    BY <1>1 DEF TypeOK
  <1>4. \A k \in 1 .. Len(PtrOffsets) : Flight(k) \in E2
    <2>1. \A k \in 1 .. Len(PtrOffsets) : k \in 1 .. Len(PtrOffsets) + 1
      BY ArcAssumption
    <2> QED
      BY <1>1, <1>2, <2>1, FlightUnused, ReadyFacts
  <1>5. cascade' = <<>>
    BY <1>1 DEF Ready, heapState
  <1>6. \A s \in Unused : s \in StrongSlot /\ s[1] \notin Obj
    BY <1>1, ReadyFacts, UnusedKinds, SlotKinds, SlotFacts
  <1> HIDE DEF E2, H2, o, q
  <1>7. /\ SafeCode(E2, H2, code')
        /\ \A s \in StrongSlot : s \in E2 /\ s[1] \notin Obj => s \in EmptyAfter(E2, code')
    BY <1>1, <1>3, <1>4, RecordSafe
  <1>8. \A s \in Unused : s \in E2 => s \in EmptyAfter(E2, code')
    BY <1>6, <1>7
  <1> QED
    BY <1>1, <1>2, <1>5, <1>7, <1>8, EmitStill DEF E2, H2

\* A plain store to a weak slot is safe code.
LEMMA PokeSafe ==
    ASSUME NEW E, NEW H, NEW v, NEW x \in Slot, IsWeak(x),
           NEW c \in Seq(Instr), c = <<Poke(x, v)>>
    PROVE  /\ SafeCode(E, H, c)
           /\ \A s \in StrongSlot : s \in E => s \in EmptyAfter(E, c)
  <1>1. Len(c) = 1 /\ c[1].op = "poke" /\ c[1].slot = x
    BY DEF Poke
  <1>2. x \notin StrongSlot
    BY SlotKinds
  <1>3. SafeCode(E, H, c)
    BY <1>1 DEF SafeCode, SafeInstr
  <1>4. \A s \in StrongSlot : \A m \in 1 .. Len(c) : ~Fills(c[m], s)
    BY <1>1, <1>2 DEF Fills
  <1> QED
    BY <1>3, <1>4, StaysEmpty

\* and that of an array of weak pointers.
LEMMA ArrayKeeps ==
    ASSUME TypeOK, IInv, Forms \cap UnbalancedForms = {},
           NEW x \in Place, NEW y \in Place, ArrayAssign(x, y)
    PROVE  IInv'
  <1> DEFINE E2 == EmptyNow'
             H2 == HeldNow'
             v == mem[y]
  <1>1. /\ Ready /\ code' = <<Poke(x, v)>> /\ UNCHANGED heapState /\ UNCHANGED control
        /\ IsWeak(x)
    BY DEF ArrayAssign, Boundary, Emit, UnbalancedForms
  <1>2. Counts' /\ \A s \in StrongSlot : Empty(s) => Empty(s)'
    BY <1>1, SameHeap DEF IInv
  <1>3. v \in Value /\ x \in Slot
    BY PlaceFacts
  <1>4. cascade' = <<>>
    BY <1>1 DEF Ready, heapState
  <1>5. \A s \in Unused : s \in StrongSlot
    BY <1>1, ReadyFacts
  <1> HIDE DEF E2, H2, v
  <1>6. code' \in Seq(Instr)
    <2>1. Poke(x, v) \in Instr
      BY <1>3 DEF Poke, Instr
    <2> QED
      BY <1>1, <2>1
  <1>7. /\ SafeCode(E2, H2, code')
        /\ \A s \in StrongSlot : s \in E2 => s \in EmptyAfter(E2, code')
    BY <1>1, <1>3, <1>6, PokeSafe
  <1> QED
    BY <1>1, <1>2, <1>4, <1>5, <1>7, EmitStill DEF E2, H2

\* Opening an expression: no code, and no word is used yet.
LEMMA OpenStatement ==
    ASSUME TypeOK, IInv, Ready, NEW kind, NEW dst, NEW vals \in Seq(Value),
           Len(ctx) < MaxCtx, Open(kind, dst, vals),
           (kind \notin {"store", "relate"} /\ dst = NIL) \/ VariableAt(dst, depth),
           kind = "return" => Len(ctx) > 1 /\ ctx[Len(ctx) - 1].at < depth,
           Counts', cascade' = <<>>, code' = <<>>,
           \A s \in StrongSlot : Empty(s) => Empty(s)'
    PROVE  IInv'
  <1>1. CtxOK' /\ Unused' \subseteq Unused
    BY OpenKeeps DEF IInv
  <1>2. \A s \in Unused' : s \in StrongSlot /\ Empty(s)'
    BY <1>1, ReadyFacts
  <1> QED
    BY <1>1, <1>2, Nothing

\* Starting an assignment, a comparison, a call or a RETURN preserves IInv.
LEMMA BeginKeeps ==
    ASSUME TypeOK, IInv,
           \/ \E x \in Place : BeginStore(x) \/ BeginRelate(x)
           \/ \E v \in Place \cup {NIL} : BeginCall(v)
           \/ BeginCompare \/ BeginReturn
    PROVE  IInv'
  <1>1. /\ Ready /\ (Boundary \/ MayCall) /\ UNCHANGED <<heapState, code>> /\ Len(ctx) < MaxCtx
    BY DEF BeginStore, BeginRelate, BeginCall, BeginCompare, BeginReturn, Boundary, MayCall
  <1>2. CtxOK
    BY DEF IInv
  <1>3. Counts' /\ cascade' = <<>> /\ code' = <<>> /\ \A s \in StrongSlot : Empty(s) => Empty(s)'
    BY <1>1, SameHeap DEF IInv, Ready, heapState
  <1>4. <<>> \in Seq(Value)
    OBVIOUS
  <1>5. ASSUME NEW x \in Place, BeginStore(x) \/ BeginRelate(x)
        PROVE  IInv'
    <2>1. /\ Open("store", x, <<>>) \/ Open("relate", x, <<>>)
          /\ VariableAt(x, depth)
      BY <1>2, <1>5, PlaceVariable DEF BeginStore, BeginRelate
    <2> QED
      BY <1>1, <1>2, <1>3, <1>4, <2>1, OpenStatement
  <1>6. ASSUME NEW x \in Place \cup {NIL}, BeginCall(x)
        PROVE  IInv'
    <2>1. Open("call", x, <<>>) /\ (x = NIL \/ VariableAt(x, depth))
      BY <1>2, <1>6, PlaceVariable DEF BeginCall
    <2> QED
      BY <1>1, <1>2, <1>3, <1>4, <2>1, OpenStatement
  <1>7. ASSUME BeginCompare
        PROVE  IInv'
    <2>1. Open("compare", NIL, <<>>)
      BY <1>7 DEF BeginCompare
    <2> QED
      BY <1>1, <1>2, <1>3, <1>4, <2>1, OpenStatement
  <1>8. ASSUME BeginReturn
        PROVE  IInv'
    <2>1. Open("return", NIL, <<>>) /\ Len(ctx) > 1 /\ ctx[Len(ctx) - 1].at < depth
      <3>1. depth \in Int
        BY ArcAssumption DEF TypeOK
      <3> QED
        BY <1>8, <3>1 DEF BeginReturn
    <2> QED
      BY <1>1, <1>2, <1>3, <1>4, <2>1, OpenStatement
  <1> QED
    BY <1>5, <1>6, <1>7, <1>8

\* Starting a construction does, with its fresh receiver.
LEMMA ConstructKeeps ==
    ASSUME TypeOK, IInv, NEW o \in Obj, BeginConstruct(o)
    PROVE  IInv'
  <1>1. /\ Ready /\ MayCall /\ Len(ctx) < MaxCtx /\ oc_alloc(o)
        /\ Open("construct", NIL, <<o>>) /\ cascade' = <<>> /\ code' = <<>>
    BY DEF BeginConstruct, MayCall, Ready
  <1>3. Counts' /\ \A s \in StrongSlot : Empty(s) => Empty(s)'
    BY <1>1, AllocCounts DEF IInv
  <1>4. <<o>> \in Seq(Value)
    BY DEF Value
  <1> QED
    BY <1>1, <1>3, <1>4, OpenStatement

-----------------------------------------------------------------------------
(* Operands. *)

\* The register of the next operand is free.
LEMMA OperandFacts ==
    ASSUME TypeOK, Wants
    PROVE  LET n == Len(ctx)
               m == Len(Top.vals) + 1
           IN  /\ n \in 1 .. Len(ctx) /\ n \in 1 .. MaxCtx /\ m \in 1 .. MaxArity
               /\ Operand(m) \in Temps /\ Operand(m) \in Unused /\ Operand(m) # Result
  <1> DEFINE n == Len(ctx)
             m == Len(Top.vals) + 1
  <1>1. ctx # <<>> /\ ctx \in Seq(Context) /\ n <= MaxCtx /\ n \in Nat /\ MaxCtx \in Nat
    BY ArcAssumption DEF TypeOK, Wants, InStatement
  <1>2. n \in 1 .. Len(ctx) /\ n \in 1 .. MaxCtx
    BY <1>1
  <1>3. Len(Top.vals) \in Nat /\ Len(Top.vals) < Arity(Top.kind)
    <2>1. Top \in Context
      BY <1>1, <1>2 DEF Top
    <2> QED
      BY <2>1 DEF Context, Wants
  <1>4. m \in 1 .. MaxArity /\ m \in Len(ctx[n].vals) + 1 .. MaxArity
    <2>1. Arity(Top.kind) \in Nat /\ Arity(Top.kind) <= MaxArity /\ MaxArity \in Nat
      BY TempFacts
    <2> QED
      BY <1>3, <2>1 DEF Top
  <1>5. Temp(n, m) \in Temps /\ Temp(n, m) \in Unused
    BY <1>2, <1>4, TempFacts, UnusedCases
  <1>6. Temp(n, m) # Temp(0, 0)
    <2>1. n \in Int /\ m \in Int /\ 0 \in Int
      BY <1>1, <1>4
    <2> HIDE DEF n, m
    <2>2. n # 0
      BY <1>2
    <2> QED
      BY <2>1, <2>2, TempInjective
  <1> QED
    BY <1>2, <1>4, <1>5, <1>6 DEF Operand, Result

\* An operand is added: its register is in use, no other is.
LEMMA AddKeeps ==
    ASSUME TypeOK, CtxOK, Wants, NEW v, NEW own, AddOperand(v, own)
    PROVE  /\ CtxOK'
           /\ Unused' \subseteq Unused \ {Operand(Len(Top.vals) + 1)}
  <1> DEFINE n == Len(ctx)
             m == Len(Top.vals) + 1
  <1>1. /\ ctx' = [ctx EXCEPT ![n].vals = Append(@, v)] /\ UNCHANGED <<depth, bind>>
        /\ ctx \in Seq(Context) /\ n \in 1 .. Len(ctx) /\ m \in 1 .. MaxArity
        /\ n \in Nat /\ m \in Nat /\ MaxArity \in Nat
    BY OperandFacts, TempFacts DEF AddOperand, TypeOK
  <1>2. ctx[n] \in Context /\ ctx[n] = Top
    BY <1>1 DEF Top
  <1>3. /\ Len(ctx') = n
        /\ \A i \in 1 .. n : i # n => ctx'[i] = ctx[i]
        /\ ctx'[n] = [ctx[n] EXCEPT !.vals = Append(ctx[n].vals, v)]
    <2> DEFINE e == [ctx[n] EXCEPT !.vals = Append(@, v)]
    <2>1. ctx' = [ctx EXCEPT ![n] = e]
      BY <1>1
    <2>2. ctx'[n] = e
      <3> HIDE DEF e
      <3> QED
        BY <1>1, <2>1
    <2>3. Len(ctx') = n /\ \A i \in 1 .. n : i # n => ctx'[i] = ctx[i]
      <3> HIDE DEF e
      <3>1. ctx \in [1 .. Len(ctx) -> Context] /\ DOMAIN ctx = 1 .. n
        BY <1>1
      <3>2. DOMAIN ctx' = 1 .. n
        BY <2>1, <3>1
      <3>3. Len(ctx') = n
        BY <1>1, <2>1, <3>1, <3>2
      <3> QED
        BY <1>1, <2>1, <3>1, <3>3
    <2> QED
      BY <2>2, <2>3
  <1>4. /\ ctx'[n].vals = Append(ctx[n].vals, v)
        /\ ctx'[n].kind = ctx[n].kind /\ ctx'[n].at = ctx[n].at /\ ctx'[n].dst = ctx[n].dst
    BY <1>2, <1>3 DEF Context
  <1>5. Len(ctx'[n].vals) = m
    <2>1. ctx[n].vals \in Seq(Value)
      BY <1>2 DEF Context
    <2> QED
      BY <1>2, <1>4, <2>1
  <1> HIDE DEF n, m
  <1>6. \A i \in 1 .. n : ctx'[i].kind = ctx[i].kind /\ ctx'[i].at = ctx[i].at /\ ctx'[i].dst = ctx[i].dst
    BY <1>3, <1>4
  <1>7. CtxOK'
    <2>1. ASSUME NEW i \in 1 .. n
          PROVE  /\ ctx'[i].at <= depth
                 /\ \A j \in 1 .. i : ctx'[j].at <= ctx'[i].at
                 /\ (ctx'[i].kind \notin {"store", "relate"} /\ ctx'[i].dst = NIL) \/ VariableAt(ctx'[i].dst, ctx'[i].at)
                 /\ ctx'[i].kind = "return" => i > 2 /\ ctx'[i - 2].at < ctx'[i].at
      <3>1. \A j \in 1 .. i : j \in 1 .. n
        BY <1>1
      <3>2. /\ ctx[i].at <= depth
            /\ \A j \in 1 .. i : ctx[j].at <= ctx[i].at
            /\ (ctx[i].kind \notin {"store", "relate"} /\ ctx[i].dst = NIL) \/ VariableAt(ctx[i].dst, ctx[i].at)
            /\ ctx[i].kind = "return" => i > 2 /\ ctx[i - 2].at < ctx[i].at
        BY DEF CtxOK, n
      <3>3. i > 2 => i - 2 \in 1 .. n
        BY <1>1
      <3> QED
        BY <1>6, <3>1, <3>2, <3>3
    <2>2. \A d \in 1 .. depth : bind[d] = NIL \/ VariableAt(bind[d], d - 1)
      BY DEF CtxOK
    <2> QED
      BY <1>1, <1>3, <2>1, <2>2 DEF CtxOK, VariableAt
  <1>8. ASSUME NEW s \in Unused'
        PROVE  s \in Unused /\ s # Temp(n, m)
    <2>0. n \in 1 .. MaxCtx /\ n \in Int /\ m \in Int /\ Len(PtrOffsets) \in Nat /\ MaxCtx \in Nat
          /\ n # 0
      BY <1>1, OperandFacts, ArcAssumption DEF n
    <2>1. CASE \E k \in 1 .. Len(PtrOffsets) + 1 : s = Flight(k)
      <3>1. PICK k \in 1 .. Len(PtrOffsets) + 1 : s = Temp(0, k)
        BY <2>1 DEF Flight
      <3>2. k \in Int /\ 0 \in Int
        BY <2>0
      <3>3. s # Temp(n, m)
        BY <2>0, <3>1, <3>2, TempInjective
      <3> QED
        BY <2>1, <3>3, UnusedCases
    <2>2. CASE s \in Frames /\ s[1] > depth'
      <3>1. Temp(n, m) \notin Frames
        BY <1>1, <2>0, TempFacts, SlotKinds
      <3> QED
        BY <1>1, <2>2, <3>1, UnusedCases
    <2>3. CASE \E i \in Len(ctx') + 1 .. MaxCtx, k \in 1 .. MaxArity : s = Temp(i, k)
      <3>1. PICK i \in n + 1 .. MaxCtx, k \in 1 .. MaxArity : s = Temp(i, k)
        BY <1>3, <2>3
      <3>2. i \in Int /\ k \in Int /\ i # n
        BY <2>0, <1>1
      <3>3. s # Temp(n, m)
        BY <2>0, <3>1, <3>2, TempInjective
      <3> QED
        BY <3>1, <3>3, UnusedCases DEF n
    <2>4. CASE \E i \in 1 .. Len(ctx') : \E k \in Len(ctx'[i].vals) + 1 .. MaxArity : s = Temp(i, k)
      <3>1. PICK i \in 1 .. n : \E k \in Len(ctx'[i].vals) + 1 .. MaxArity : s = Temp(i, k)
        BY <1>3, <2>4
      <3>2. PICK k \in Len(ctx'[i].vals) + 1 .. MaxArity : s = Temp(i, k)
        BY <3>1
      <3>3. CASE i = n
        <4>1. k \in m + 1 .. MaxArity
          BY <1>5, <3>2, <3>3
        <4>2. k \in Int /\ k # m /\ k \in m .. MaxArity
          BY <1>1, <4>1
        <4>3. s # Temp(n, m)
          BY <2>0, <3>2, <3>3, <4>2, TempInjective
        <4>4. k \in Len(ctx[n].vals) + 1 .. MaxArity
          BY <1>2, <4>2 DEF m
        <4> QED
          BY <3>2, <3>3, <4>3, <4>4, <1>1, UnusedCases DEF n
      <3>4. CASE i # n
        <4>1. ctx'[i] = ctx[i] /\ i \in Int
          BY <1>3, <3>4
        <4>2. ctx[i] \in Context
          BY <1>1 DEF n
        <4>3. Len(ctx[i].vals) \in Nat
          BY <4>2 DEF Context
        <4>4. k \in Int /\ k \in Len(ctx[i].vals) + 1 .. MaxArity
          BY <1>1, <3>2, <4>1, <4>3
        <4>5. s # Temp(n, m)
          BY <2>0, <3>2, <3>4, <4>1, <4>4, TempInjective
        <4> QED
          BY <3>2, <4>4, <4>5, UnusedCases DEF n
      <3> QED
        BY <3>3, <3>4
    <2>5. \/ \E k \in 1 .. Len(PtrOffsets) + 1 : s = Flight(k)
          \/ s \in Frames /\ s[1] > depth'
          \/ \E i \in Len(ctx') + 1 .. MaxCtx, k \in 1 .. MaxArity : s = Temp(i, k)
          \/ \E i \in 1 .. Len(ctx') : \E k \in Len(ctx'[i].vals) + 1 .. MaxArity : s = Temp(i, k)
      BY UnusedCasesNext
    <2> QED
      BY <2>1, <2>2, <2>3, <2>4, <2>5, Zenon
  <1> QED
    BY <1>7, <1>8 DEF Operand, n, m

\* A borrowed operand owns nothing.
LEMMA BorrowKeeps ==
    ASSUME TypeOK, IInv, NEW v, Ready, Wants, AddOperand(v, FALSE)
    PROVE  IInv'
  <1>1. UNCHANGED heapState /\ code' = code
    BY DEF AddOperand, heapState
  <1>2. CtxOK' /\ Unused' \subseteq Unused
    BY AddKeeps DEF IInv
  <1>3. Counts' /\ \A s : Empty(s) => Empty(s)'
    BY <1>1, SameHeap DEF IInv
  <1>4. cascade' = <<>> /\ code' = <<>>
    BY <1>1 DEF Ready, heapState
  <1>5. \A s \in Unused' : s \in StrongSlot /\ Empty(s)'
    BY <1>2, <1>3, ReadyFacts
  <1> QED
    BY <1>2, <1>3, <1>4, <1>5, Nothing

\* The result of a call passes from its register to the operand.
LEMMA TakeKeeps ==
    ASSUME TypeOK, IInv, TakeResult
    PROVE  IInv'
  <1> DEFINE x == Operand(Len(Top.vals) + 1)
             t == Result
  <1>1. /\ Ready /\ Wants /\ t \notin stale /\ AddOperand(mem[t], TRUE)
    BY DEF TakeResult, Pending
  <1>2. /\ mem' = [mem EXCEPT ![x] = mem[t], ![t] = NIL] /\ stale' = (stale \cup {t}) \ {x}
        /\ UNCHANGED <<live, rc, cascade, code>>
    BY <1>1 DEF AddOperand
  <1>3. x \in Temps /\ x \in Unused /\ x # t
    BY <1>1, OperandFacts
  <1>4. x \in StrongSlot /\ Empty(x)
    BY <1>1, <1>3, ReadyFacts
  <1>5. t \in Temps
    BY ArcAssumption, TempFacts DEF Result
  <1>6. x[1] \notin Obj
    BY <1>3, SlotFacts, SlotKinds
  <1>7. Counts /\ CtxOK
    BY DEF IInv
  <1>8. CtxOK' /\ Unused' \subseteq Unused \ {x}
    BY <1>1, <1>7, AddKeeps
  <1> HIDE DEF x, t
  <1>9. /\ Counts'
        /\ \A s \in StrongSlot : mem'[s] = IF s = t THEN NIL ELSE IF s = x THEN mem[t] ELSE mem[s]
    BY <1>1, <1>2, <1>3, <1>4, <1>5, <1>6, <1>7, HandOver
  <1>10. cascade' = <<>> /\ code' = <<>>
    BY <1>1, <1>2 DEF Ready
  <1>11. ASSUME NEW s \in Unused'
         PROVE  s \in StrongSlot /\ Empty(s)'
    <2>1. s # x /\ s \in StrongSlot /\ Empty(s)
      BY <1>1, <1>8, ReadyFacts
    <2> QED
      BY <1>2, <1>9, <2>1 DEF Empty
  <1> QED
    BY <1>8, <1>9, <1>10, <1>11, Nothing

\* The address of a static record is in its register and counts nothing.
LEMMA StaticKeeps ==
    ASSUME TypeOK, IInv, NEW o \in Immortal, TakeStatic(o)
    PROVE  IInv'
  <1> DEFINE x == Operand(Len(Top.vals) + 1)
             t == Result
  <1>1. /\ Ready /\ Wants /\ t \in stale /\ AddOperand(o, TRUE)
    BY DEF TakeStatic, Pending
  <1>2. /\ mem' = [mem EXCEPT ![x] = o, ![t] = NIL] /\ stale' = (stale \cup {t}) \ {x}
        /\ UNCHANGED <<live, rc, cascade, code>>
    BY <1>1 DEF AddOperand
  <1>3. x \in Temps /\ x \in Unused /\ x # t /\ t \in Temps
    BY <1>1, OperandFacts, ArcAssumption, TempFacts DEF Result
  <1>4. x \in StrongSlot /\ t \in StrongSlot /\ StrongSlot \subseteq Slot /\ Empty(x)
    BY <1>1, <1>3, ReadyFacts, SlotFacts
  <1>5. x[1] \notin Obj /\ t[1] \notin Obj
    BY <1>3, SlotFacts, SlotKinds
  <1>6. Counts /\ CtxOK
    BY DEF IInv
  <1>7. CtxOK' /\ Unused' \subseteq Unused \ {x}
    BY <1>1, <1>6, AddKeeps
  <1> HIDE DEF x, t
  <1>8. \A s \in StrongSlot : mem'[s] = IF s = t THEN NIL ELSE IF s = x THEN o ELSE mem[s]
    BY <1>2, <1>3, <1>4 DEF TypeOK
  <1>9. NIL \notin Obj /\ live \subseteq Obj /\ o \in live
    BY <1>6, ArcAssumption DEF TypeOK, Counts
  <1>10. Counts'
    <2>1. ASSUME NEW p \in live \ Immortal
          PROVE  Holders(p)' = Holders(p)
      BY <1>1, <1>2, <1>4, <1>8, <1>9 DEF Holders, Owning, Empty
    <2>2. \A s \in Owning' : mem'[s] \in live \cup {NIL}
      BY <1>2, <1>6, <1>8, <1>9 DEF Owning, Counts
    <2>3. ASSUME NEW p \in Obj \ live, NEW f \in StrongField
          PROVE  <<p, f>> \in stale'
      <3>1. <<p, f>> # x
        BY <1>5
      <3> QED
        BY <1>2, <1>6, <3>1 DEF Counts
    <2> QED
      BY <1>2, <1>6, <2>1, <2>2, <2>3 DEF Counts
  <1>11. cascade' = <<>> /\ code' = <<>>
    BY <1>1, <1>2 DEF Ready
  <1>12. ASSUME NEW s \in Unused'
         PROVE  s \in StrongSlot /\ Empty(s)'
    <2>1. s # x /\ s \in StrongSlot /\ Empty(s)
      BY <1>1, <1>7, ReadyFacts
    <2> QED
      BY <1>2, <1>8, <2>1 DEF Empty
  <1> QED
    BY <1>7, <1>10, <1>11, <1>12, Nothing

-----------------------------------------------------------------------------
(* The statements that end an expression. *)

\* An expression that has its operands.
LEMMA FinishFacts ==
    ASSUME TypeOK, CtxOK, NEW kind, Finish(kind)
    PROVE  /\ Ready /\ ~Pending /\ Top.kind = kind /\ Top.at = depth
           /\ Len(ctx) \in 1 .. MaxCtx /\ Top = ctx[Len(ctx)]
           /\ Top.vals \in Seq(Value) /\ Len(Top.vals) = Arity(kind)
           /\ (kind \notin {"store", "relate"} /\ Top.dst = NIL) \/ VariableAt(Top.dst, depth)
  <1>1. /\ Ready /\ ~Pending /\ Top.kind = kind /\ Top.at = depth /\ ctx # <<>>
        /\ Len(Top.vals) = Arity(Top.kind)
    BY DEF Finish, Complete, InStatement
  <1>2. ctx \in Seq(Context) /\ Len(ctx) <= MaxCtx /\ MaxCtx \in Nat
    BY ArcAssumption DEF TypeOK
  <1>3. Len(ctx) \in 1 .. MaxCtx /\ Len(ctx) \in 1 .. Len(ctx)
    BY <1>1, <1>2
  <1>4. Top \in Context /\ Top = ctx[Len(ctx)]
    BY <1>2, <1>3 DEF Top
  <1>5. Top.vals \in Seq(Value)
    BY <1>4 DEF Context
  <1>6. (Top.kind \notin {"store", "relate"} /\ Top.dst = NIL) \/ VariableAt(Top.dst, Top.at)
    BY <1>3, <1>4 DEF CtxOK
  <1> QED
    BY <1>1, <1>3, <1>4, <1>5, <1>6

\* Ending the innermost expression gives up its operand registers.
LEMMA CloseKeeps ==
    ASSUME TypeOK, CtxOK, Len(ctx) \in 1 .. MaxCtx, CloseTop
    PROVE  /\ CtxOK'
           /\ \A s \in Unused' :
                 s \in Unused \/ \E k \in 1 .. Len(Top.vals) : s = Temp(Len(ctx), k)
  <1> DEFINE n == Len(ctx) - 1
  <1>1. /\ ctx' = SubSeq(ctx, 1, n) /\ depth' = depth /\ bind' = bind
        /\ n \in Nat /\ n < Len(ctx) /\ depth \in Int /\ n + 1 = Len(ctx)
    BY ArcAssumption DEF CloseTop, TypeOK
  <1>2. ASSUME NEW i \in 1 .. n
        PROVE  ctx[i].at <= depth'
    <2>1. i \in 1 .. Len(ctx)
      BY <1>1
    <2>2. ctx[i].at <= depth
      BY <2>1 DEF CtxOK
    <2> QED
      BY <1>1, <2>2
  <1>3. depth' \in Int /\ depth' <= depth /\ \A d \in 1 .. depth' : bind'[d] = bind[d]
    BY <1>1
  <1> HIDE DEF n
  <1>4. /\ CtxOK'
        /\ \A s \in Unused' :
              \/ s \in Unused
              \/ \E i \in n + 1 .. Len(ctx) : \E k \in 1 .. Len(ctx[i].vals) : s = Temp(i, k)
              \/ s \in Frames /\ s[1] > depth' /\ s[1] <= depth
    BY <1>1, <1>2, <1>3, CutKeeps
  <1>5. ASSUME NEW s \in Frames
        PROVE  ~(s[1] > depth' /\ s[1] <= depth)
    <2>1. s[1] \in Int
      BY SlotKinds, ArcAssumption
    <2> QED
      BY <1>1, <2>1
  <1>6. \A i \in n + 1 .. Len(ctx) : i = Len(ctx)
    BY <1>1
  <1> QED
    BY <1>4, <1>5, <1>6 DEF Top

\* An assignment preserves IInv.
LEMMA StoreKeeps ==
    ASSUME TypeOK, IInv, Store
    PROVE  IInv'
  <1> DEFINE E2 == EmptyNow'
             H2 == HeldNow'
             x == Top.dst
             v == Top.vals[1]
             t == Operand(1)
             f == Flight(1)
             c == code'
  <1>1. CtxOK
    BY DEF IInv
  <1>2. /\ Finish("store") /\ code' = StoreCode(x, v) /\ UNCHANGED heapState /\ CloseTop
        /\ IsWeak(x) /\ Exact => mem[t] = NIL
    BY DEF Store, Emit, Exact, LeakingForms
  <1>3. /\ Ready /\ Len(ctx) \in 1 .. MaxCtx /\ VariableAt(x, depth)
        /\ Top.vals \in Seq(Value) /\ Len(Top.vals) = 1
    <2>1. Arity("store") = 1
      BY DEF Arity
    <2> QED
      BY <1>1, <1>2, <2>1, FinishFacts
  <1>4. x \in Slot /\ x \notin Temps /\ x \notin Unused /\ (~IsWeak(x) => x \in StrongSlot)
    BY <1>3, VariableUsed, SlotKinds DEF VariableAt
  <1>5. t \in Temps /\ t \in StrongSlot /\ t \in Root /\ v \in Value
    <2>1. 1 \in 1 .. MaxArity
      BY ArcAssumption DEF MaxArity
    <2> QED
      BY <1>3, <2>1, TempFacts, SlotFacts DEF Operand
  <1>6. /\ cascade' = <<>> /\ Counts'
        /\ E2 = {s \in StrongSlot : Empty(s)} /\ H2 = {s \in Temps : s \notin stale}
    BY <1>2, <1>3, SameHeap, ReadyFacts DEF IInv, heapState
  <1>7. c \in Seq(Instr)
    BY <1>2, <1>4, <1>5, StoreCodeType
  <1>8. /\ CtxOK'
        /\ \A s \in Unused' : s \in Unused \/ s = t
    BY <1>1, <1>2, <1>3, CloseKeeps DEF Operand
  <1>9. \A s \in Unused : s \in StrongSlot /\ s \in E2
    BY <1>3, <1>6, ReadyFacts
  <1>10. f \in Temps /\ f \in E2
    BY <1>9, FlightUnused
  <1>11. c = StoreCode(x, v)
    BY <1>2
  <1>12. IsWeak(x) /\ Exact => t \in E2
    BY <1>2, <1>5, <1>6 DEF Empty
  <1>13. IF t \notin stale THEN t \in H2 ELSE t \in E2
    BY <1>5, <1>6 DEF Empty
  <1> HIDE DEF E2, H2, x, v, f, c
  <1>14. SafeCode(E2, H2, c) /\ \A s \in Unused' : s \in EmptyAfter(E2, c)
    <2>1. CASE IsWeak(x)
      <3>1. Len(c) = 2 /\ c[1] = Poke(x, v) /\ c[2] = Forget({t})
        BY <1>11, <2>1 DEF StoreCode
      <3>2. /\ SafeCode(E2, H2, c)
            /\ \A s \in StrongSlot : s \in E2 => s \in EmptyAfter(E2, c)
            /\ t \in EmptyAfter(E2, c)
        <4> HIDE DEF t
        <4> QED
          BY <1>4, <1>5, <1>7, <1>12, <2>1, <3>1, StoreWeak
      <3> QED
        BY <1>8, <1>9, <3>2
    <2>2. CASE ~IsWeak(x) /\ Owned(1)
      <3>1. Len(c) = 2 /\ c[1] = Drop(x) /\ c[2] = Move(x, t)
        BY <1>11, <2>2 DEF StoreCode
      <3>2. t \in H2
        BY <1>13, <2>2 DEF Owned
      <3>3. /\ SafeCode(E2, H2, c)
            /\ \A s \in StrongSlot : s \in E2 /\ s # x => s \in EmptyAfter(E2, c)
            /\ t \in EmptyAfter(E2, c)
        <4> HIDE DEF t
        <4> QED
          BY <1>4, <1>5, <1>7, <2>2, <3>1, <3>2, StoreOwned
      <3> QED
        BY <1>4, <1>8, <1>9, <3>3
    <2>3. CASE ~IsWeak(x) /\ ~Owned(1)
      <3>1. Len(c) = 3 /\ c[1] = Retain(v, f) /\ c[2] = Drop(x) /\ c[3] = Move(x, f)
        BY <1>11, <2>3 DEF StoreCode, f
      <3>2. t \in E2 /\ t # x
        BY <1>4, <1>5, <1>13, <2>3 DEF Owned
      <3>3. /\ SafeCode(E2, H2, c)
            /\ \A s \in StrongSlot : s \in E2 /\ s # x => s \in EmptyAfter(E2, c)
        BY <1>4, <1>7, <1>10, <2>3, <3>1, StoreRetained
      <3> QED
        BY <1>4, <1>5, <1>8, <1>9, <3>2, <3>3
    <2> QED
      BY <2>1, <2>2, <2>3
  <1> QED
    BY <1>6, <1>8, <1>14, Emitted DEF E2, H2, c

\* A comparison does.
LEMMA CompareKeeps ==
    ASSUME TypeOK, IInv, Compare
    PROVE  IInv'
  <1> DEFINE E2 == EmptyNow'
             H2 == HeldNow'
             n == Len(ctx)
  <1>1. CtxOK
    BY DEF IInv
  <1>2. PICK kind \in {"compare", "relate"} :
           Finish(kind) /\ code' = DropArgs(n) /\ UNCHANGED heapState /\ CloseTop
    BY DEF Compare, Emit
  <1>3. /\ Ready /\ n \in 1 .. MaxCtx /\ Len(Top.vals) = Arity(kind)
        /\ ctx[n].kind = kind
    BY <1>1, <1>2, FinishFacts
  <1>4. cascade' = <<>> /\ Counts' /\ E2 = EmptyNow
    BY <1>2, <1>3, SameHeap DEF IInv, heapState, Ready
  <1>5. /\ CtxOK'
        /\ \A s \in Unused' : s \in Unused \/ \E k \in 1 .. Len(Top.vals) : s = Temp(n, k)
    BY <1>1, <1>2, <1>3, CloseKeeps
  <1>6. \A s \in Unused : s \in StrongSlot /\ s \in E2
    BY <1>3, <1>4, ReadyFacts
  <1> HIDE DEF E2, H2, n
  <1>7. /\ SafeCode(E2, H2, DropArgs(n))
        /\ \A s \in StrongSlot : s \in E2 => s \in EmptyAfter(E2, DropArgs(n))
        /\ \A k \in 1 .. Arity(ctx[n].kind) : Temp(n, k) \in EmptyAfter(E2, DropArgs(n))
    BY <1>3, DropArgsSafe
  <1>8. \A s \in Unused' : s \in EmptyAfter(E2, code')
    BY <1>2, <1>3, <1>5, <1>6, <1>7
  <1>9. SafeCode(E2, H2, code')
    BY <1>2, <1>7
  <1> QED
    BY <1>4, <1>5, <1>8, <1>9, Emitted DEF E2, H2

\* A procedure entry does.
LEMMA EnterKeeps ==
    ASSUME TypeOK, IInv, Enter
    PROVE  IInv'
  <1> DEFINE E2 == EmptyNow'
             H2 == HeldNow'
             e == depth + 1
             w == Top.vals
  <1>1. CtxOK /\ (Finish("call") \/ Finish("construct"))
    BY DEF IInv, Enter
  <1>2. /\ depth < MaxDepth /\ depth' = e /\ bind' = [bind EXCEPT ![e] = Top.dst]
        /\ code' = EnterCode(e, w) /\ UNCHANGED heapState /\ ctx' = ctx
    BY DEF Enter, Emit
  <1>3. /\ Ready /\ Top.kind # "return" /\ Top = ctx[Len(ctx)]
        /\ w \in Seq(Value) /\ Len(w) = Len(Params)
        /\ Top.dst = NIL \/ VariableAt(Top.dst, depth)
    <2>1. Arity("call") = Len(Params) /\ Arity("construct") = Len(Params)
      BY DEF Arity
    <2> QED
      BY <1>1, <2>1, FinishFacts
  <1>4. /\ depth \in Int /\ depth >= 0 /\ MaxDepth \in Int /\ e \in 1 .. MaxDepth
        /\ bind \in [1 .. MaxDepth -> Slot \cup {NIL}]
        /\ ctx \in Seq(Context) /\ Len(ctx) \in Nat
    BY <1>2, ArcAssumption DEF TypeOK
  <1>5. cascade' = <<>> /\ Counts' /\ E2 = EmptyNow
    BY <1>2, <1>3, SameHeap DEF IInv, heapState, Ready
  <1>6. \A s \in Unused : s \in StrongSlot /\ s \in E2
    BY <1>3, <1>5, ReadyFacts
  <1>7. \A s \in FrameSlots(e) : s \in Frames /\ s[1] = e
    BY <1>4, SlotFacts DEF FrameSlots
  <1>8. FrameSlots(e) \subseteq E2
    <2>1. \A s \in FrameSlots(e) : s \in Unused
      BY <1>4, <1>7, UnusedCases
    <2> QED
      BY <1>6, <2>1
  <1> HIDE DEF E2, H2
  <1>9. /\ SafeCode(E2, H2, code')
        /\ \A s \in StrongSlot : s \in E2 /\ s \notin FrameSlots(e) => s \in EmptyAfter(E2, code')
    <2> HIDE DEF e, w
    <2>1. /\ SafeCode(E2, H2, EnterCode(e, w))
          /\ \A s \in StrongSlot : s \in E2 /\ s \notin FrameSlots(e)
                => s \in EmptyAfter(E2, EnterCode(e, w))
      BY <1>3, <1>4, <1>8, EnterSafe
    <2> QED
      BY <1>2, <2>1
  <1>10. ASSUME NEW s \in Unused'
         PROVE  s \in Unused /\ s \notin FrameSlots(e)
    <2>1. CASE s \in Frames /\ s[1] > depth'
      <3>1. s[1] \in Int
        BY <2>1, SlotKinds, ArcAssumption
      <3> QED
        BY <1>2, <1>4, <1>7, <2>1, <3>1, UnusedCases
    <2>2. CASE \/ \E k \in 1 .. Len(PtrOffsets) + 1 : s = Flight(k)
               \/ \E i \in Len(ctx') + 1 .. MaxCtx, k \in 1 .. MaxArity : s = Temp(i, k)
               \/ \E i \in 1 .. Len(ctx') : \E k \in Len(ctx'[i].vals) + 1 .. MaxArity : s = Temp(i, k)
      <3>1. s \in Unused
        BY <1>2, <2>2, UnusedCases
      <3>2. ASSUME s \in FrameSlots(e)
            PROVE  s \in Frames /\ s[1] > depth'
        <4>1. s \in Frames /\ s \notin Temps /\ s[1] = e
          BY <1>7, <3>2, SlotKinds
        <4>2. s[1] > depth
          BY <1>4, <4>1
        <4>3. \A k \in 1 .. Len(PtrOffsets) + 1 : s # Flight(k)
          BY <4>1, FlightUnused
        <4>4. \A i \in 1 .. MaxCtx, k \in 1 .. MaxArity : s # Temp(i, k)
          BY <4>1, TempFacts
        <4>5. ASSUME NEW i \in Len(ctx) + 1 .. MaxCtx
              PROVE  i \in 1 .. MaxCtx
          BY <1>4, ArcAssumption
        <4>6. ASSUME NEW i \in 1 .. Len(ctx)
              PROVE  i \in 1 .. MaxCtx /\ Len(ctx[i].vals) \in Nat
          <5>1. ctx[i] \in Context /\ Len(ctx) <= MaxCtx /\ MaxCtx \in Nat
            BY <1>4, ArcAssumption DEF TypeOK
          <5> QED
            BY <5>1, <1>4 DEF Context
        <4>7. \A i \in 1 .. Len(ctx) : \A k \in Len(ctx[i].vals) + 1 .. MaxArity : k \in 1 .. MaxArity
          BY <4>6, TempFacts
        <4> QED
          BY <1>2, <2>2, <4>3, <4>4, <4>5, <4>6, <4>7
      <3>3. CASE s \in Frames /\ s[1] > depth'
        BY <2>1, <3>3
      <3> QED
        BY <3>1, <3>2, <3>3
    <2> QED
      BY <2>1, <2>2, UnusedCasesNext
  <1>11. \A s \in Unused' : s \in EmptyAfter(E2, code')
    BY <1>6, <1>9, <1>10
  <1>12. CtxOK'
    <2>1. ASSUME NEW i \in 1 .. Len(ctx)
          PROVE  /\ ctx[i].at <= depth'
                 /\ \A j \in 1 .. i : ctx[j].at <= ctx[i].at
                 /\ (ctx[i].kind \notin {"store", "relate"} /\ ctx[i].dst = NIL) \/ VariableAt(ctx[i].dst, ctx[i].at)
                 /\ ctx[i].kind = "return" => i > 2 /\ ctx[i - 2].at < ctx[i].at
      <3>1. ctx[i] \in Context
        BY <1>4
      <3>2. ctx[i].at \in Int
        BY <3>1, ArcAssumption DEF Context
      <3>3. ctx[i].at <= depth
        BY <1>1 DEF CtxOK
      <3>4. ctx[i].at <= depth'
        BY <1>2, <1>4, <3>2, <3>3
      <3> QED
        BY <1>1, <1>3, <3>3, <3>4 DEF CtxOK
    <2>2. ASSUME NEW d \in 1 .. depth'
          PROVE  bind'[d] = NIL \/ VariableAt(bind'[d], d - 1)
      <3>1. CASE d = e
        <4>1. bind'[d] = Top.dst /\ d - 1 = depth
          BY <1>2, <1>4, <3>1
        <4> QED
          BY <1>3, <4>1
      <3>2. CASE d # e
        <4>1. d \in 1 .. depth /\ d \in 1 .. MaxDepth
          BY <1>2, <1>4, <3>2
        <4>2. bind'[d] = bind[d]
          BY <1>2, <1>4, <3>2, <4>1
        <4> QED
          BY <1>1, <4>1, <4>2 DEF CtxOK
      <3> QED
        BY <3>1, <3>2
    <2> QED
      BY <1>2, <2>1, <2>2 DEF CtxOK, VariableAt
  <1> QED
    BY <1>5, <1>9, <1>11, <1>12, Emitted DEF E2, H2

\* The frame of the activation that returns.
LEMMA FrameOf ==
    ASSUME NEW s \in Frames
    PROVE  s[1] \in 1 .. MaxDepth /\ s \in FrameSlots(s[1])
  <1>1. PICK d \in 1 .. MaxDepth : s \in FrameSlots(d)
    BY DEF Frames
  <1>2. s[1] = d
    BY <1>1 DEF FrameSlots
  <1> QED
    BY <1>1, <1>2

\* What a return leaves behind, once the code it emits is shown to empty the
\* frame, the operand of RETURN and the arguments of the call.
LEMMA LeaveKeeps ==
    ASSUME TypeOK, IInv, NEW i \in 1 .. Len(ctx), depth \in 1 .. MaxDepth,
           NEW front, LeaveTo(i, front),
           \A j \in 1 .. i - 1 : ctx[j].at < depth
    PROVE  /\ CtxOK'
           /\ \A s \in Unused' :
                 \/ s \in Unused
                 \/ s \in FrameSlots(depth)
                 \/ \E j \in i .. Len(ctx) : \E k \in 1 .. Len(ctx[j].vals) : s = Temp(j, k)
  <1> DEFINE n == i - 1
  <1>1. /\ ctx' = SubSeq(ctx, 1, n) /\ depth' = depth - 1 /\ bind' = [bind EXCEPT ![depth] = NIL]
        /\ n \in Nat /\ n < Len(ctx) /\ depth \in Int /\ n + 1 = i /\ ctx \in Seq(Context)
        /\ bind \in [1 .. MaxDepth -> Slot \cup {NIL}] /\ MaxDepth \in Int
    BY ArcAssumption DEF LeaveTo, TypeOK
  <1>2. ASSUME NEW j \in 1 .. n
        PROVE  ctx[j].at <= depth'
    <2>1. j \in 1 .. Len(ctx) /\ ctx[j].at < depth
      BY <1>1
    <2>2. ctx[j] \in Context
      BY <1>1, <2>1
    <2>3. ctx[j].at \in Int
      BY <2>2, ArcAssumption DEF Context
    <2> QED
      BY <1>1, <2>1, <2>3
  <1>3. ASSUME NEW d \in 1 .. depth'
        PROVE  bind'[d] = bind[d]
    <2>1. d # depth /\ d \in 1 .. MaxDepth
      BY <1>1
    <2> QED
      BY <1>1, <2>1
  <1>4. depth' \in Int /\ depth' <= depth
    BY <1>1
  <1> HIDE DEF n
  <1>5. /\ CtxOK'
        /\ \A s \in Unused' :
              \/ s \in Unused
              \/ \E j \in n + 1 .. Len(ctx) : \E k \in 1 .. Len(ctx[j].vals) : s = Temp(j, k)
              \/ s \in Frames /\ s[1] > depth' /\ s[1] <= depth
    BY <1>1, <1>2, <1>3, <1>4, CutKeeps DEF IInv
  <1>6. ASSUME NEW s \in Frames, s[1] > depth', s[1] <= depth
        PROVE  s \in FrameSlots(depth)
    <2>1. s[1] \in Int
      BY FrameOf, ArcAssumption
    <2>2. s[1] = depth
      BY <1>1, <1>6, <2>1
    <2> QED
      BY <2>2, FrameOf
  <1> QED
    BY <1>1, <1>5, <1>6

\* The result's register is not one of those out of use.
LEMMA ResultUsed ==
    ASSUME TypeOK
    PROVE  Result \in Temps /\ Result \notin Unused
  <1>1. Result \in Temps
    BY TempFacts, ArcAssumption DEF Result
  <1>2. Len(ctx) \in Nat /\ ctx \in Seq(Context) /\ Len(PtrOffsets) \in Nat /\ MaxArity \in Nat
        /\ MaxCtx \in Nat
    BY TempFacts, ArcAssumption DEF TypeOK
  <1>3. ASSUME NEW k \in 1 .. Len(PtrOffsets) + 1
        PROVE  Result # Flight(k)
    <2>1. k \in Int /\ k # 0 /\ 0 \in Int
      BY <1>2
    <2> QED
      BY <2>1, TempInjective DEF Result, Flight
  <1>4. ASSUME NEW i \in Nat, i # 0, NEW k \in Int
        PROVE  Result # Temp(i, k)
    <2>1. i \in Int /\ 0 \in Int
      OBVIOUS
    <2> QED
      BY <2>1, <1>4, TempInjective DEF Result
  <1>5. \A i \in Len(ctx) + 1 .. MaxCtx, k \in 1 .. MaxArity : Result # Temp(i, k)
    BY <1>2, <1>4
  <1>6. ASSUME NEW i \in 1 .. Len(ctx), NEW k \in Len(ctx[i].vals) + 1 .. MaxArity
        PROVE  Result # Temp(i, k)
    <2>1. ctx[i] \in Context
      BY <1>2
    <2>2. Len(ctx[i].vals) \in Nat
      BY <2>1 DEF Context
    <2>3. i \in Nat /\ i # 0 /\ k \in Int
      BY <1>2, <2>2
    <2> QED
      BY <1>4, <2>3
  <1> QED
    BY <1>1, <1>3, <1>5, <1>6, SlotKinds, UnusedCases

\* The return of a proper procedure does.
LEMMA ReturnPlainKeeps ==
    ASSUME TypeOK, IInv, Len(Params \o Locals) <= MaxLocalPtrs, ReturnPlain
    PROVE  IInv'
  <1> DEFINE E2 == EmptyNow'
             H2 == HeldNow'
             n == Len(ctx)
             c == LeaveCode(depth) \o DropArgs(n)
  <1>1. /\ Ready /\ ~InStatement /\ ctx # <<>> /\ LeaveTo(n, <<>>) /\ CtxOK
        /\ UNCHANGED heapState
    BY DEF ReturnPlain, Boundary, IInv, LeaveTo, Emit
  <1>2. /\ depth \in 1 .. MaxDepth /\ n \in 1 .. MaxCtx /\ n \in 1 .. Len(ctx)
        /\ ctx \in Seq(Context)
    BY <1>1, ArcAssumption DEF ReturnPlain, TypeOK
  <1>3. ASSUME NEW j \in 1 .. n - 1
        PROVE  ctx[j].at < depth
    <2>1. j \in 1 .. n /\ j \in 1 .. Len(ctx)
      BY <1>2
    <2>2. ctx[j] \in Context /\ ctx[n] \in Context
      BY <1>2, <2>1
    <2>3. ctx[j].at \in Int /\ ctx[n].at \in Int /\ depth \in Int
      <3>1. ctx[j].at \in Int
        BY <2>2, ArcAssumption DEF Context
      <3>2. ctx[n].at \in Int
        BY <2>2, ArcAssumption DEF Context
      <3>3. depth \in Int
        BY <1>2, ArcAssumption
      <3> QED
        BY <3>1, <3>2, <3>3
    <2>4. ctx[j].at <= ctx[n].at /\ ctx[n].at <= depth
      BY <1>1, <1>2, <2>1 DEF CtxOK
    <2>5. ctx[n].at # depth
      BY <1>1 DEF InStatement, Top
    <2> QED
      BY <2>3, <2>4, <2>5
  <1>4. code' = c
    <2>1. code' = <<>> \o LeaveCode(depth) \o DropArgs(n)
      BY <1>1 DEF LeaveTo, Emit
    <2>2. <<>> \o LeaveCode(depth) = LeaveCode(depth)
      BY <1>2, LeaveCodeType, ConcatEmptySeq
    <2> QED
      BY <2>1, <2>2
  <1>5. cascade' = <<>> /\ Counts' /\ E2 = EmptyNow
    BY <1>1, SameHeap DEF IInv, heapState, Ready
  <1>6. \A s \in Unused : s \in StrongSlot /\ s \in E2
    BY <1>1, <1>5, ReadyFacts
  <1>7. /\ CtxOK'
        /\ \A s \in Unused' :
              \/ s \in Unused
              \/ s \in FrameSlots(depth)
              \/ \E j \in n .. Len(ctx) : \E k \in 1 .. Len(ctx[j].vals) : s = Temp(j, k)
    BY <1>1, <1>2, <1>3, LeaveKeeps
  <1>8. \A k \in 1 .. Len(ctx[n].vals) : k \in 1 .. Arity(ctx[n].kind)
    <2>1. ctx[n] \in Context /\ Len(ctx[n].vals) <= Arity(ctx[n].kind)
      BY <1>2 DEF TypeOK
    <2>2. Len(ctx[n].vals) \in Nat /\ Arity(ctx[n].kind) \in Nat
      BY <2>1, TempFacts DEF Context
    <2> QED
      BY <2>1, <2>2
  <1>9. \A j \in n .. Len(ctx) : j = n
    BY <1>2
  <1> HIDE DEF E2, H2, n, c
  <1>10. /\ SafeCode(E2, H2, c)
         /\ \A s \in StrongSlot : s \in E2 => s \in EmptyAfter(E2, c)
         /\ FrameSlots(depth) \subseteq EmptyAfter(E2, c)
         /\ \A k \in 1 .. Arity(ctx[n].kind) : Temp(n, k) \in EmptyAfter(E2, c)
    BY <1>2, FinishSafe DEF c
  <1>11. \A s \in Unused' : s \in EmptyAfter(E2, c)
    BY <1>6, <1>7, <1>8, <1>9, <1>10
  <1> QED
    BY <1>4, <1>5, <1>7, <1>10, <1>11, Emitted DEF E2, H2

\* RETURN of a value does.
LEMMA ReturnValueKeeps ==
    ASSUME TypeOK, IInv, Len(Params \o Locals) <= MaxLocalPtrs, ReturnValue
    PROVE  IInv'
  <1> DEFINE E2 == EmptyNow'
             H2 == HeldNow'
             n == Len(ctx)
             i == Len(ctx) - 1
             t == Operand(1)
             r == Result
             a == ResultCode(Top.vals[1])
             b == LeaveCode(depth) \o DropArgs(i)
  <1>1. /\ Finish("return") /\ (Exact => ~Owned(1)) /\ n > 1 /\ depth > 0 /\ LeaveTo(i, a) /\ CtxOK
        /\ UNCHANGED heapState
    BY DEF ReturnValue, LeaveTo, Emit, IInv, Exact, LeakingForms
  <1>2. /\ Ready /\ ~Pending /\ ctx[n].kind = "return" /\ n \in 1 .. MaxCtx
        /\ Top.vals \in Seq(Value) /\ Len(Top.vals) = 1 /\ Top = ctx[n]
    <2>1. Arity("return") = 1
      BY DEF Arity
    <2>2. Finish("return") /\ CtxOK
      BY <1>1
    <2>3. /\ Ready /\ ~Pending /\ Top.kind = "return" /\ Len(ctx) \in 1 .. MaxCtx
          /\ Top = ctx[Len(ctx)] /\ Top.vals \in Seq(Value) /\ Len(Top.vals) = Arity("return")
      BY <2>2, FinishFacts
    <2> QED
      BY <2>1, <2>3
  <1>3. /\ depth \in 1 .. MaxDepth /\ ctx \in Seq(Context) /\ n \in Nat /\ n \in 1 .. Len(ctx)
        /\ i \in 1 .. Len(ctx) /\ i \in 1 .. MaxCtx /\ i \in Nat /\ i + 1 = n
        /\ depth \in Int
    BY <1>1, <1>2, ArcAssumption DEF TypeOK
  <1>4. n > 2 /\ ctx[n - 2].at < depth
    <2>1. ctx[n].at = depth
      BY <1>1, FinishFacts
    <2> QED
      BY <1>1, <1>2, <1>3, <2>1 DEF CtxOK
  <1>5. ASSUME NEW j \in 1 .. i - 1
        PROVE  ctx[j].at < depth
    <2>1. n - 2 \in 1 .. Len(ctx) /\ j \in 1 .. n - 2 /\ j \in 1 .. Len(ctx)
      BY <1>3, <1>4
    <2>2. ctx[j] \in Context /\ ctx[n - 2] \in Context
      BY <1>3, <2>1
    <2>3. ctx[j].at \in Int /\ ctx[n - 2].at \in Int
      BY <2>2, ArcAssumption DEF Context
    <2>4. ctx[j].at <= ctx[n - 2].at
      BY <1>1, <2>1 DEF CtxOK
    <2> QED
      BY <1>3, <1>4, <2>3, <2>4
  <1>6. cascade' = <<>> /\ Counts' /\ E2 = {s \in StrongSlot : Empty(s)}
    BY <1>1, <1>2, SameHeap, ReadyFacts DEF IInv, heapState
  <1>7. \A s \in Unused : s \in StrongSlot /\ s \in E2 /\ s # r
    BY <1>2, <1>6, ReadyFacts, ResultUsed
  <1>8. r \in Temps /\ r \in E2
    <2>1. r \in Temps /\ r \in StrongSlot
      BY ResultUsed, SlotFacts
    <2> QED
      BY <1>2, <1>6, <2>1 DEF Pending, Empty
  <1>9. t \in Temps /\ t \in StrongSlot /\ t \in Root /\ (Exact => t \in E2) /\ t # r
    <2>1. 1 \in 1 .. MaxArity
      BY ArcAssumption DEF MaxArity
    <2>2. t \in Temps /\ t \in StrongSlot /\ t \in Root
      BY <1>2, <2>1, TempFacts, SlotFacts DEF Operand
    <2>3. t # r
      <3>1. n \in Int /\ n # 0 /\ 0 \in Int /\ 1 \in Int
        BY <1>3, <1>1
      <3> HIDE DEF n
      <3>2. Temp(n, 1) # Temp(0, 0)
        BY <3>1, TempInjective
      <3> QED
        BY <3>2 DEF Operand, Result, n
    <2> QED
      BY <1>1, <1>6, <2>2, <2>3 DEF Owned, Empty
  <1>10. /\ CtxOK'
         /\ \A s \in Unused' :
               \/ s \in Unused
               \/ s \in FrameSlots(depth)
               \/ \E j \in i .. Len(ctx) : \E k \in 1 .. Len(ctx[j].vals) : s = Temp(j, k)
    BY <1>1, <1>3, <1>5, LeaveKeeps
  <1>11. \A k \in 1 .. Len(ctx[i].vals) : k \in 1 .. Arity(ctx[i].kind)
    <2>1. ctx[i] \in Context /\ Len(ctx[i].vals) <= Arity(ctx[i].kind)
      BY <1>3 DEF TypeOK
    <2>2. Len(ctx[i].vals) \in Nat /\ Arity(ctx[i].kind) \in Nat
      BY <2>1, TempFacts DEF Context
    <2> QED
      BY <2>1, <2>2
  <1>12. /\ \A j \in i .. Len(ctx) : j = i \/ j = n
         /\ \A k \in 1 .. Len(ctx[n].vals) : k = 1
         /\ Temp(n, 1) = t
    <2>1. ASSUME NEW j \in i .. Len(ctx)
          PROVE  j = i \/ j = n
      <3>1. Len(ctx) \in Int
        BY <1>3
      <3> QED
        BY <3>1
    <2>2. Len(ctx[n].vals) = 1
      <3> HIDE DEF n
      <3> QED
        BY <1>2
    <2>3. \A k \in 1 .. Len(ctx[n].vals) : k = 1
      BY <2>2
    <2> QED
      BY <2>1, <2>3 DEF Operand
  <1>13. a \in Seq(Instr) /\ b \in Seq(Instr) /\ code' = a \o b
    <2>1. Top.vals[1] \in Value
      BY <1>2
    <2>2. a \in Seq(Instr)
      BY <1>9, <2>1, ResultCodeType
    <2>3. LeaveCode(depth) \in Seq(Instr) /\ DropArgs(i) \in Seq(Instr)
      BY <1>3, LeaveCodeType, DropArgsType
    <2>4. code' = a \o LeaveCode(depth) \o DropArgs(i)
      BY <1>1 DEF LeaveTo, Emit
    <2> DEFINE L == LeaveCode(depth)
               D == DropArgs(i)
    <2> HIDE DEF a, L, D
    <2>5. L \in Seq(Instr) /\ D \in Seq(Instr)
      BY <2>3 DEF L, D
    <2>6. (a \o L) \o D = a \o (L \o D) /\ L \o D \in Seq(Instr)
      BY <2>2, <2>5, ConcatAssociative, ConcatProperties
    <2> QED
      BY <2>2, <2>4, <2>6 DEF L, D
  <1>14. Len(a) = 2 /\ a[1] = Retain(Top.vals[1], r) /\ a[2] = Forget({t})
    BY DEF ResultCode
  <1> DEFINE E3 == EmptyAfter(E2, a)
             H3 == HeldAfter(H2, a)
  <1> HIDE DEF E2, H2, n, i, t, r, a, b
  <1>15. /\ SafeCode(E2, H2, a)
         /\ \A s \in StrongSlot : s \in E2 /\ s # r => s \in E3
         /\ t \in E3
    <2>1. /\ r \in Temps /\ r \in E2 /\ t \in Temps /\ (Exact => t \in E2) /\ t # r
          /\ a \in Seq(Instr)
      BY <1>8, <1>9, <1>13
    <2> QED
      BY <1>14, <2>1, ResultSafe DEF E3
  <1> HIDE DEF E3, H3
  <1>16. /\ SafeCode(E3, H3, b)
         /\ \A s \in StrongSlot : s \in E3 => s \in EmptyAfter(E3, b)
         /\ FrameSlots(depth) \subseteq EmptyAfter(E3, b)
         /\ \A k \in 1 .. Arity(ctx[i].kind) : Temp(i, k) \in EmptyAfter(E3, b)
    BY <1>3, FinishSafe DEF b
  <1>17. /\ SafeCode(E2, H2, a \o b)
         /\ EmptyAfter(E3, b) \subseteq EmptyAfter(E2, a \o b)
    BY <1>13, <1>15, <1>16, Concat DEF E3, H3
  <1>18. ASSUME NEW s \in Unused'
         PROVE  s \in EmptyAfter(E3, b)
    <2>1. CASE s \in Unused
      BY <1>7, <1>15, <1>16, <2>1
    <2>2. CASE s \in FrameSlots(depth)
      BY <1>16, <2>2
    <2>3. CASE \E j \in i .. Len(ctx) : \E k \in 1 .. Len(ctx[j].vals) : s = Temp(j, k)
      <3>1. PICK j \in i .. Len(ctx) : \E k \in 1 .. Len(ctx[j].vals) : s = Temp(j, k)
        BY <2>3
      <3>2. CASE j = i
        BY <1>11, <1>16, <3>1, <3>2
      <3>3. CASE j = n
        <4>1. s = t
          BY <1>12, <3>1, <3>3
        <4> QED
          BY <1>9, <1>15, <1>16, <4>1
      <3> QED
        BY <1>12, <3>1, <3>2, <3>3
    <2> QED
      BY <1>10, <2>1, <2>2, <2>3
  <1>19. \A s \in Unused' : s \in EmptyAfter(E2, code')
    BY <1>13, <1>17, <1>18
  <1>20. SafeCode(E2, H2, code')
    BY <1>13, <1>17
  <1> QED
    BY <1>6, <1>10, <1>19, <1>20, Emitted DEF E2, H2

\* Every step of the program preserves IInv.
LEMMA StatementKeeps ==
    ASSUME TypeOK, IInv, Forms \cap UnbalancedForms = {},
           Len(Params \o Locals) <= MaxLocalPtrs, Statement
    PROVE  IInv'
  <1>1. CASE \E x \in Place, o \in Obj : New(x, o)
    BY <1>1, NewKeeps
  <1>2. CASE \E x, y \in Place : RecordAssign(x, y) \/ ArrayAssign(x, y)
    BY <1>2, RecordKeeps, ArrayKeeps
  <1>3. CASE \/ \E x \in Place : BeginStore(x) \/ BeginRelate(x)
             \/ \E v \in Place \cup {NIL} : BeginCall(v)
             \/ BeginCompare \/ BeginReturn
    BY <1>3, BeginKeeps
  <1>4. CASE \E o \in Obj : BeginConstruct(o)
    BY <1>4, ConstructKeeps
  <1>5. CASE \E s \in Place : Borrow(s)
    BY <1>5, BorrowKeeps DEF Borrow
  <1>6. CASE BorrowNil
    BY <1>6, BorrowKeeps DEF BorrowNil
  <1>7. CASE (\E s \in Place : BorrowFaults(s)) \/ CompareFaults
    BY <1>7, Still DEF BorrowFaults, CompareFaults, Undefined
  <1> QED
    BY <1>1, <1>2, <1>3, <1>4, <1>5, <1>6, <1>7, TakeKeeps, StaticKeeps, StoreKeeps, CompareKeeps,
       EnterKeeps, ReturnValueKeeps, ReturnPlainKeeps, InScopePlace DEF Statement

\* IInv holds initially.
LEMMA InitKeeps == Init => IInv
  <1> SUFFICES ASSUME Init PROVE IInv
    OBVIOUS
  <1>1. /\ live = Immortal /\ rc = [o \in Obj |-> IF o \in Immortal THEN -1 ELSE 0]
        /\ mem = [s \in Slot |-> NIL] /\ cascade = <<>> /\ code = <<>> /\ ctx = <<>> /\ depth = 0
        /\ stale = (Root \ Globals) \cup ((Obj \ Immortal) \X StrongField)
    BY DEF Init, HeapInit
  <1>2. TypeOK
    BY InitType
  <1>3. \A s \in StrongSlot : mem[s] = NIL
    BY <1>1, SlotFacts
  <1>4. Counts
    <2>1. \A o \in Immortal : o \in live /\ rc[o] < 0
      BY <1>1, ArcAssumption
    <2> QED
      BY <1>1, <1>3, <2>1 DEF Counts, Owning
  <1>5. CodeSafe
    BY <1>1 DEF CodeSafe, SafeCode
  <1>6. CascadeSafe
    BY <1>1, Quiet
  <1>7. UnusedEmpty
    <2>1. EmptyNow = {s \in StrongSlot : Empty(s)}
      BY <1>1, Quiet
    <2>2. \A s \in Unused : s \in EmptyNow
      BY <1>2, <1>3, <2>1, UnusedStrong DEF Empty
    <2>3. Len(code) = 0
      BY <1>1
    <2> QED
      BY <2>2, <2>3 DEF UnusedEmpty, EmptyBy
  <1>8. CtxOK
    BY <1>1 DEF CtxOK
  <1> QED
    BY <1>4, <1>5, <1>6, <1>7, <1>8 DEF IInv

\* IInv is kept by stuttering.
LEMMA StutterKeeps ==
    ASSUME IInv, UNCHANGED vars
    PROVE  IInv'
  BY Still DEF vars

\* IInv implies the properties.
LEMMA FromCounts ==
    ASSUME TypeOK, IInv
    PROVE  CountCovers /\ NoDangling /\ (Exact => RefcountExact)
  <1>1. ASSUME NEW o \in live, rc[o] >= 0
        PROVE  Covers(rc[o], Cardinality(Holders(o)))
    <2>1. o \notin Immortal
      <3>1. o \in Immortal => rc[o] < 0 /\ o \in Obj
        BY DEF IInv, Counts, TypeOK
      <3>2. rc[o] \in Int
        BY DEF TypeOK
      <3> QED
        BY <1>1, <3>1, <3>2
    <2> QED
      BY <2>1 DEF IInv, Counts
  <1>2. NoDangling
    BY DEF IInv, Counts, NoDangling
  <1> QED
    BY <1>1, <1>2 DEF CountCovers, RefcountExact, Covers

(* IInv is inductive: at every instruction of every program in the         *)
(* balanced forms and those that leak, the counts cover the owners, the    *)
(* code still to run fills only empty words and moves only held            *)
(* references, and the objects a release has still to free have no owner   *)
(* and empty fields.                                                       *)
THEOREM Inductive ==
    ASSUME Forms \cap UnbalancedForms = {}, Len(Params \o Locals) <= MaxLocalPtrs
    PROVE  Spec => []IInv
  <1>1. Init => IInv
    BY InitKeeps
  <1>2. TypeOK /\ IInv /\ [Next]_vars => IInv'
    <2>1. ASSUME TypeOK, IInv, Next
          PROVE  IInv'
      BY <2>1, RunKeeps, StatementKeeps DEF Next
    <2> QED
      BY <2>1, StutterKeeps
  <1> QED
    BY <1>1, <1>2, TypeCorrect, PTL DEF Spec

(* No count falls below the number of words that own a reference to the    *)
(* object: what RETURN F() and a store of F() to a weak word lose is never *)
(* freed, and it is never freed under an owner.                            *)
THEOREM CountsCover ==
    ASSUME Forms \cap UnbalancedForms = {}, Len(Params \o Locals) <= MaxLocalPtrs
    PROVE  Spec => []CountCovers
  <1>1. TypeOK /\ IInv => CountCovers
    BY FromCounts
  <1> QED
    BY <1>1, Inductive, TypeCorrect, PTL

(* In programs that use neither of these forms the count in every header   *)
(* is the number of words that own a reference to the object: the retains  *)
(* and releases ORG.c emits, with those of oc_release and                  *)
(* oc_record_assign, balance at every instruction.                         *)
THEOREM CountsExact ==
    ASSUME Forms \cap UnbalancedForms = {}, Exact, Len(Params \o Locals) <= MaxLocalPtrs
    PROVE  Spec => []RefcountExact
  <1>1. TypeOK /\ IInv => RefcountExact
    BY FromCounts
  <1> QED
    BY <1>1, Inductive, TypeCorrect, PTL

(* No word that owns a reference points at freed memory.                   *)
THEOREM OwnersAlive ==
    ASSUME Forms \cap UnbalancedForms = {}, Len(Params \o Locals) <= MaxLocalPtrs
    PROVE  Spec => []NoDangling
  <1>1. TypeOK /\ IInv => NoDangling
    BY FromCounts
  <1> QED
    BY <1>1, Inductive, TypeCorrect, PTL

\* free is the only step that takes an object away.
LEMMA OthersKeepLive ==
    ASSUME Next, ~(RunCascade /\ FreeStep)
    PROVE  live \subseteq live'
  <1>1. CASE Statement
    <2>1. \/ \E o \in Obj : oc_alloc(o)
          \/ live' = live
      BY <1>1 DEF Statement, New, RecordAssign, ArrayAssign, Emit, BeginStore, BeginRelate, BeginCall,
         BeginConstruct, BeginCompare, BeginReturn, Borrow, BorrowFaults, Undefined, BorrowNil,
         TakeResult, TakeStatic, AddOperand, Store, Compare, CompareFaults, Enter, ReturnValue, ReturnPlain, LeaveTo, heapState
    <2> QED
      BY <2>1 DEF oc_alloc
  <1>2. CASE Run /\ ~RunCascade
    BY <1>2 DEF Run, RunRetain, RunRetainFaults, RunDrop, RunMove, RunPoke, RunClear, RunCopy,
       RunCopyFaults, RunForget, Trap, Undefined
  <1>3. CASE RunCascade
    BY <1>3 DEF RunCascade, CascadeStep, ReleaseSkips, ReleaseCounts, ReleaseFaults, Undefined
  <1> QED
    BY <1>1, <1>2, <1>3 DEF Next, Run

(* free runs only on an object no word owns a reference to, so no release  *)
(* of a variable or a field frees an object another one still holds.       *)
THEOREM FreesOnlyUnheld ==
    ASSUME Forms \cap UnbalancedForms = {}, Len(Params \o Locals) <= MaxLocalPtrs
    PROVE  Spec => FreesUnheld
  <1>1. ASSUME TypeOK, IInv, Next
        PROVE  \A o \in live \ live' : Holders(o) = {}
    <2>1. CASE RunCascade /\ FreeStep
      <3> DEFINE p == Head(cascade).obj
      <3>1. cascade # <<>> /\ Head(cascade).op = "free" /\ live' = live \ {p}
        BY <2>1 DEF FreeStep
      <3>2. cascade \in Seq(CascadeOp) /\ live \subseteq Obj
        BY <1>1 DEF TypeOK
      <3>3. 1 \in 1 .. Len(cascade) /\ cascade[1] = Head(cascade)
        BY <3>1, <3>2
      <3>4. p \in live /\ rc[p] = 0
        <4>1. SafeCascade(1)
          BY <1>1, <3>3 DEF IInv, CascadeSafe
        <4> QED
          BY <3>1, <3>3, <4>1 DEF SafeCascade
      <3>5. p \notin Immortal
        <4>1. p \in Immortal => rc[p] < 0
          BY <1>1 DEF IInv, Counts
        <4> QED
          BY <3>4, <4>1
      <3>6. Cardinality(Holders(p)) = 0
        <4>1. Cardinality(Holders(p)) <= 0
          BY <1>1, <3>4, <3>5 DEF IInv, Counts, Covers
        <4>2. Cardinality(Holders(p)) \in Nat
          BY HoldersFinite, FS_CardinalityType
        <4> QED
          BY <4>1, <4>2
      <3>7. Holders(p) = {}
        BY <3>6, HoldersFinite, FS_EmptySet
      <3>8. live \ live' = {p} \/ live \ live' = {}
        BY <3>1
      <3> QED
        BY <3>7, <3>8
    <2>2. CASE ~(RunCascade /\ FreeStep)
      BY <1>1, <2>2, OthersKeepLive
    <2> QED
      BY <2>1, <2>2
  <1>2. TypeOK /\ IInv /\ [Next]_vars => [\A o \in live \ live' : Holders(o) = {}]_vars
    BY <1>1
  <1> QED
    BY <1>2, Inductive, TypeCorrect, PTL DEF Spec, FreesUnheld

-----------------------------------------------------------------------------
(***************************************************************************)
(* What is left over between statements is kept by cycles only: no object  *)
(* is forgotten with a count of zero, and with exact counts one that no    *)
(* variable leads to is owned by a field of another such object.           *)
(***************************************************************************)
(* Claims. *)

\* The claim of an object stands while its free, its retain or its
\* construction is still to come.
LEMMA ClaimKeeps ==
    ASSUME NEW o, Claimed(o), UNCHANGED <<depth, ctx>>,
           \A k \in 1 .. Len(cascade) : cascade[k] = Free(o)
              => \E j \in 1 .. Len(cascade') : cascade'[j] = Free(o),
           \A k \in 1 .. Len(code) : code[k].op = "retain" /\ code[k].val = o
              => \E j \in 1 .. Len(code') : code'[j].op = "retain" /\ code'[j].val = o
    PROVE  Claimed(o)'
  BY DEF Claimed, NotEntered

\* The rest of the code has the retains of the code, but for the first.
LEMMA TailRetains ==
    ASSUME TypeOK, code # <<>>, code' = Tail(code), NEW o,
           ~(Head(code).op = "retain" /\ Head(code).val = o)
    PROVE  \A k \in 1 .. Len(code) : code[k].op = "retain" /\ code[k].val = o
              => \E j \in 1 .. Len(code') : code'[j].op = "retain" /\ code'[j].val = o
  <1>1. code \in Seq(Instr) /\ Len(code) \in Nat /\ code[1] = Head(code)
    BY DEF TypeOK
  <1>2. Len(code') = Len(code) - 1 /\ \A j \in 1 .. Len(code') : code'[j] = code[j + 1]
    BY <1>1
  <1>3. ASSUME NEW k \in 1 .. Len(code), code[k].op = "retain", code[k].val = o
        PROVE  \E j \in 1 .. Len(code') : code'[j].op = "retain" /\ code'[j].val = o
    <2>1. k # 1
      BY <1>1, <1>3
    <2>2. k - 1 \in 1 .. Len(code') /\ (k - 1) + 1 = k
      BY <1>1, <1>2, <2>1
    <2> QED
      BY <1>2, <1>3, <2>2
  <1> QED
    BY <1>3

\* An instruction that counts nothing.
LEMMA UncountedClaims ==
    ASSUME TypeOK, ZeroClaimed, code # <<>>, Head(code).op # "retain", code' = Tail(code),
           cascade = <<>>, UNCHANGED <<live, rc, depth, ctx>>
    PROVE  ZeroClaimed'
  <1>1. \A k \in 1 .. Len(cascade) : FALSE
    OBVIOUS
  <1>2. ASSUME NEW o \in live \ Immortal, rc[o] = 0
        PROVE  Claimed(o)'
    <2>1. Claimed(o)
      BY <1>2 DEF ZeroClaimed
    <2> QED
      BY <1>1, <2>1, TailRetains, ClaimKeeps
  <1>3. Called'
    BY DEF ZeroClaimed, Called
  <1> QED
    BY <1>2, <1>3 DEF ZeroClaimed

\* The object a retain names has an owner from then on.
LEMMA RetainClaims ==
    ASSUME TypeOK, IInv, ZeroClaimed, RunRetain
    PROVE  ZeroClaimed'
  <1> DEFINE v == Head(code).val
  <1>1. /\ cascade = <<>> /\ code # <<>> /\ code' = Tail(code) /\ UNCHANGED <<live, depth, ctx>>
        /\ rc' = IF Skips(v) THEN rc ELSE [rc EXCEPT ![v] = @ + 1]
        /\ \A k \in 1 .. Len(cascade) : FALSE
    BY DEF RunRetain, Next1, Step, control, oc_retain
  <1>2. ASSUME NEW o \in live \ Immortal, rc'[o] = 0
        PROVE  Claimed(o)'
    <2>1. o \in Obj /\ rc \in [Obj -> Int] /\ rc[o] >= 0 /\ rc[o] \in Int /\ NIL \notin Obj
      <3>1. o \in Obj /\ rc \in [Obj -> Int] /\ rc[o] \in Int /\ NIL \notin Obj
        BY ArcAssumption DEF TypeOK
      <3>2. rc[o] >= Cardinality(Holders(o)) /\ Cardinality(Holders(o)) \in Nat
        BY HoldersFinite, FS_CardinalityType DEF IInv, Counts, Covers
      <3> QED
        BY <3>1, <3>2
    <2> HIDE DEF v
    <2>2. o # v
      <3>1. SUFFICES ASSUME o = v PROVE FALSE
        OBVIOUS
      <3>2. ~Skips(v)
        BY <2>1, <3>1 DEF Skips
      <3>3. rc'[o] = rc[o] + 1
        BY <1>1, <2>1, <3>1, <3>2
      <3> QED
        BY <1>2, <2>1, <3>3
    <2>3. rc[o] = 0
      BY <1>1, <1>2, <2>1, <2>2
    <2>4. Claimed(o)
      BY <2>3 DEF ZeroClaimed
    <2> QED
      BY <1>1, <2>2, <2>4, TailRetains, ClaimKeeps DEF v
  <1>3. Called'
    BY <1>1 DEF ZeroClaimed, Called
  <1> QED
    BY <1>1, <1>2, <1>3 DEF ZeroClaimed

\* A release that reaches zero goes on to free the object.
LEMMA CascadeClaims ==
    ASSUME TypeOK, IInv, ZeroClaimed, RunCascade
    PROVE  ZeroClaimed'
  <1>1. UNCHANGED <<depth, bind, ctx, code>>
        /\ (ReleaseSkips \/ ReleaseCounts \/ ReleaseFaults \/ FreeStep)
    BY DEF RunCascade, CascadeStep
  <1>2. Called'
    BY <1>1 DEF ZeroClaimed, Called
  <1>3. cascade \in Seq(CascadeOp) /\ live \subseteq Obj /\ rc \in [Obj -> Int]
    BY DEF TypeOK
  <1>4. ASSUME NEW U \in Seq(CascadeOp), cascade # <<>>, cascade' = U \o Tail(cascade),
               NEW o, Head(cascade) # Free(o),
               Claimed(o)
        PROVE  Claimed(o)'
    <2>1. ASSUME NEW k \in 1 .. Len(cascade), cascade[k] = Free(o)
          PROVE  \E j \in 1 .. Len(cascade') : cascade'[j] = Free(o)
      <3>1. k # 1
        BY <1>4, <2>1, Popped
      <3>2. PICK m \in 1 .. Len(cascade) - 1 : k = m + 1
        BY <1>4, <3>1, Popped
      <3>3. cascade'[Len(U) + m] = Free(o)
        BY <1>4, <2>1, <3>2, Popped
      <3>4. Len(U) + m \in 1 .. Len(cascade')
        <4>1. Len(cascade) \in Nat /\ Len(U) \in Nat /\ Len(cascade') = Len(U) + (Len(cascade) - 1)
          BY <1>4, Popped
        <4> QED
          BY <4>1
      <3> QED
        BY <3>3, <3>4
    <2>2. \A k \in 1 .. Len(code) : code[k].op = "retain" /\ code[k].val = o
              => \E j \in 1 .. Len(code') : code'[j].op = "retain" /\ code'[j].val = o
      BY <1>1
    <2> QED
      BY <1>1, <1>4, <2>1, <2>2, ClaimKeeps
  <1>5. ASSUME cascade # <<>>
        PROVE  /\ Tail(cascade) = <<>> \o Tail(cascade) /\ <<>> \in Seq(CascadeOp)
               /\ cascade[1] = Head(cascade) /\ 1 \in 1 .. Len(cascade)
    BY <1>3, <1>5
  <1>6. \A s, o : Release(s) # Free(o)
    BY DEF Release, Free
  <1>7. CASE ReleaseFaults
    <2>1. UNCHANGED <<live, rc, cascade>>
      BY <1>7 DEF ReleaseFaults, Undefined
    <2> QED
      BY <1>1, <1>2, <2>1 DEF ZeroClaimed, Claimed, NotEntered
  <1>8. CASE ReleaseSkips
    <2>1. cascade # <<>> /\ Head(cascade).op = "release" /\ cascade' = Tail(cascade)
          /\ UNCHANGED <<live, rc>>
      BY <1>8 DEF ReleaseSkips
    <2>2. \A o : Head(cascade) # Free(o)
      BY <2>1 DEF Free
    <2>3. ASSUME NEW o \in live \ Immortal, rc[o] = 0
          PROVE  Claimed(o)'
      <3>1. Claimed(o)
        BY <2>3 DEF ZeroClaimed
      <3> QED
        BY <1>4, <1>5, <2>1, <2>2, <3>1
    <2> QED
      BY <1>2, <2>1, <2>3 DEF ZeroClaimed
  <1>9. CASE ReleaseCounts
    <2> DEFINE v == mem[Head(cascade).slot]
               U == IF rc[v] - 1 > 0 THEN <<>> ELSE Unwind(v)
    <2>1. /\ cascade # <<>> /\ Head(cascade).op = "release" /\ v \in live /\ ~Skips(v)
          /\ rc' = [rc EXCEPT ![v] = @ - 1] /\ live' = live
          /\ cascade' = IF rc[v] - 1 > 0 THEN Tail(cascade) ELSE Unwind(v) \o Tail(cascade)
      BY <1>9 DEF ReleaseCounts
    <2>2. \A o : Head(cascade) # Free(o)
      BY <2>1 DEF Free
    <2>3. v \in Obj /\ rc[v] \in Int
      BY <1>3, <2>1
    <2> HIDE DEF v
    <2>4. U \in Seq(CascadeOp) /\ cascade' = U \o Tail(cascade)
      <3>1. CASE rc[v] - 1 > 0
        BY <1>5, <2>1, <3>1
      <3>2. CASE ~(rc[v] - 1 > 0)
        BY <2>1, <2>3, <3>2, UnwindFacts
      <3> QED
        BY <3>1, <3>2
    <2>5. ASSUME NEW o \in live \ Immortal, rc'[o] = 0
          PROVE  Claimed(o)'
      <3>1. CASE o # v
        <4>1. rc[o] = 0
          BY <1>3, <2>1, <2>5, <3>1
        <4>2. Claimed(o)
          BY <4>1 DEF ZeroClaimed
        <4> HIDE DEF U
        <4> QED
          BY <1>4, <2>1, <2>2, <2>4, <4>2
      <3>2. CASE o = v
        <4>1. rc[v] - 1 = 0
          BY <1>3, <2>1, <2>3, <2>5, <3>2
        <4>2. U = Unwind(v)
          BY <4>1
        <4> HIDE DEF U
        <4> DEFINE n == Len(PtrOffsets) + 1
        <4>3. n \in Nat /\ n > 0 /\ Len(U) = n /\ U[n] = Free(v)
          BY <2>3, <4>2, UnwindFacts
        <4> HIDE DEF n
        <4>4. n \in 1 .. Len(U)
          BY <4>3
        <4>5. cascade'[n] = Free(o)
          BY <2>1, <2>4, <3>2, <4>3, <4>4, Popped
        <4>6. n \in 1 .. Len(cascade')
          <5>1. Len(cascade') = Len(U) + (Len(cascade) - 1) /\ Len(cascade) \in Nat
                /\ 1 \in 1 .. Len(cascade)
            BY <2>1, <2>4, Popped
          <5> QED
            BY <4>3, <5>1
        <4> QED
          BY <4>5, <4>6 DEF Claimed
      <3> QED
        BY <3>1, <3>2
    <2> QED
      BY <1>2, <2>1, <2>5 DEF ZeroClaimed
  <1>10. CASE FreeStep
    <2> DEFINE p == Head(cascade).obj
    <2>1. cascade # <<>> /\ live' = live \ {p} /\ rc' = rc /\ cascade' = Tail(cascade)
      BY <1>10 DEF FreeStep
    <2>2. ASSUME NEW o \in live' \ Immortal, rc[o] = 0
          PROVE  Claimed(o)'
      <3>1. Claimed(o) /\ o # p
        BY <2>1, <2>2 DEF ZeroClaimed
      <3>2. Head(cascade) # Free(o)
        BY <3>1 DEF Free
      <3> QED
        BY <1>4, <1>5, <2>1, <3>1, <3>2
    <2> QED
      BY <1>2, <2>1, <2>2 DEF ZeroClaimed
  <1> QED
    BY <1>1, <1>7, <1>8, <1>9, <1>10

\* Between statements only constructions claim objects.
LEMMA ReadyClaims ==
    ASSUME Ready, NEW o, Claimed(o)
    PROVE  \E i \in 1 .. Len(ctx) : /\ NotEntered(i) /\ ctx[i].kind = "construct"
                                    /\ Len(ctx[i].vals) > 0 /\ ctx[i].vals[1] = o
  <1>1. Len(cascade) = 0 /\ Len(code) = 0
    BY DEF Ready
  <1> QED
    BY <1>1 DEF Claimed

\* The claims of constructions that go on.
LEMMA ConstructClaims ==
    ASSUME Ready, ZeroClaimed, Called', NEW n \in Nat, n <= Len(ctx'), n <= Len(ctx),
           Len(ctx) \in Nat,
           \A i \in 1 .. Len(ctx) : NotEntered(i) /\ ctx[i].kind = "construct" =>
              i \in 1 .. n /\ NotEntered(i)' /\ ctx'[i].kind = "construct"
                /\ (Len(ctx[i].vals) > 0 =>
                       Len(ctx'[i].vals) > 0 /\ ctx'[i].vals[1] = ctx[i].vals[1]),
           Len(ctx') \in Nat,
           \A o \in live' \ Immortal : rc'[o] = 0 => (o \in live /\ rc[o] = 0) \/ Claimed(o)'
    PROVE  ZeroClaimed'
  <1>1. ASSUME NEW o \in live' \ Immortal, rc'[o] = 0
        PROVE  Claimed(o)'
    <2>1. CASE o \in live /\ rc[o] = 0
      <3>1. Claimed(o)
        BY <1>1, <2>1 DEF ZeroClaimed
      <3>2. PICK i \in 1 .. Len(ctx) : /\ NotEntered(i) /\ ctx[i].kind = "construct"
                                       /\ Len(ctx[i].vals) > 0 /\ ctx[i].vals[1] = o
        BY <3>1, ReadyClaims
      <3>3. i \in 1 .. Len(ctx')
        BY <3>2
      <3>4. /\ NotEntered(i)' /\ ctx'[i].kind = "construct"
            /\ Len(ctx'[i].vals) > 0 /\ ctx'[i].vals[1] = o
        BY <3>2
      <3> QED
        BY <3>3, <3>4 DEF Claimed
    <2> QED
      BY <1>1, <2>1
  <1> QED
    BY <1>1 DEF ZeroClaimed

\* A statement that leaves the expressions alone.
LEMMA PlainClaims ==
    ASSUME TypeOK, ZeroClaimed, Ready, UNCHANGED control,
           \/ UNCHANGED <<live, rc>>
           \/ \E o \in Obj : \E x : oc_alloc(o) /\ code' = NewCode(x, o)
    PROVE  ZeroClaimed'
  <1>1. Called'
    BY DEF ZeroClaimed, Called, control
  <1>2. Len(ctx) \in Nat /\ ctx' = ctx /\ depth' = depth
    BY DEF TypeOK, control
  <1>3. \A i \in 1 .. Len(ctx) : NotEntered(i) => NotEntered(i)'
    BY <1>2 DEF NotEntered
  <1>4. ASSUME NEW o \in live' \ Immortal, rc'[o] = 0
        PROVE  (o \in live /\ rc[o] = 0) \/ Claimed(o)'
    <2>1. CASE UNCHANGED <<live, rc>>
      BY <1>4, <2>1
    <2>2. CASE \E p \in Obj : \E x : oc_alloc(p) /\ code' = NewCode(x, p)
      <3>0. PICK p \in Obj : \E x : oc_alloc(p) /\ code' = NewCode(x, p)
        BY <2>2
      <3>1. PICK x : oc_alloc(p) /\ code' = NewCode(x, p)
        BY <3>0
      <3>2. CASE o = p
        <4>1. /\ code' = <<Retain(o, Flight(1)), Drop(x), Move(x, Flight(1))>>
          BY <3>1, <3>2 DEF NewCode
        <4>2. Len(code') = 3 /\ code'[1] = Retain(o, Flight(1))
          BY <4>1
        <4>3. Len(code') = 3 /\ code'[1].op = "retain" /\ code'[1].val = o
          BY <4>2 DEF Retain
        <4>4. 1 \in 1 .. Len(code')
          BY <4>3
        <4> QED
          BY <4>3, <4>4 DEF Claimed
      <3>3. CASE o # p
        <4>1. o \in live /\ rc'[o] = rc[o]
          BY <1>4, <3>1, <3>3 DEF oc_alloc, TypeOK
        <4> QED
          BY <1>4, <4>1
      <3> QED
        BY <3>2, <3>3
    <2> QED
      BY <2>1, <2>2
  <1> QED
    BY <1>1, <1>2, <1>3, <1>4, ConstructClaims

\* An expression starts, a construction with its fresh receiver.
LEMMA OpenClaims ==
    ASSUME TypeOK, ZeroClaimed, Ready, NEW kind, NEW dst, NEW vals, Open(kind, dst, vals),
           kind = "return" => ctx # <<>> /\ ctx[Len(ctx)].at < depth,
           \/ UNCHANGED <<live, rc>>
           \/ \E o \in Obj : oc_alloc(o) /\ kind = "construct" /\ vals = <<o>>
    PROVE  ZeroClaimed'
  <1> DEFINE e == [kind |-> kind, at |-> depth, dst |-> dst, vals |-> vals]
             n == Len(ctx)
  <1>1. /\ ctx' = Append(ctx, e) /\ depth' = depth /\ ctx \in Seq(Context) /\ n \in Nat
    BY DEF Open, TypeOK
  <1>2. Len(ctx') = n + 1 /\ ctx'[n + 1] = e /\ \A i \in 1 .. n : ctx'[i] = ctx[i]
    BY <1>1
  <1>3. e.kind = kind /\ e.at = depth /\ e.vals = vals
    OBVIOUS
  <1> HIDE DEF e, n
  <1>4. Called'
    <2>1. ASSUME NEW d \in 0 .. depth' - 1
          PROVE  \E i \in 1 .. Len(ctx') : ctx'[i].at = d
      <3>1. PICK i \in 1 .. n : ctx[i].at = d
        BY <1>1 DEF ZeroClaimed, Called, n
      <3> QED
        BY <1>1, <1>2, <3>1
    <2>2. ASSUME NEW i \in 1 .. Len(ctx'), ctx'[i].kind = "return"
          PROVE  i > 1 /\ ctx'[i - 1].at < ctx'[i].at
      <3>1. CASE i \in 1 .. n
        <4>1. i > 1 /\ ctx[i - 1].at < ctx[i].at
          BY <1>2, <2>2, <3>1 DEF ZeroClaimed, Called, n
        <4>2. i - 1 \in 1 .. n
          BY <1>1, <3>1, <4>1
        <4> QED
          BY <1>2, <3>1, <4>1, <4>2
      <3>2. CASE i = n + 1
        <4>1. n >= 1 /\ ctx[n].at < depth
          BY <1>1, <1>2, <1>3, <2>2, <3>2 DEF n
        <4>2. i - 1 = n /\ n \in 1 .. n
          BY <1>1, <3>2, <4>1
        <4> QED
          BY <1>1, <1>2, <1>3, <3>2, <4>1, <4>2
      <3> QED
        BY <1>1, <1>2, <3>1, <3>2
    <2> QED
      BY <2>1, <2>2 DEF Called
  <1>5. ASSUME NEW i \in 1 .. n, NotEntered(i)
        PROVE  NotEntered(i)'
    <2>1. CASE ctx[i].at = depth
      BY <1>1, <1>2, <2>1 DEF NotEntered
    <2>2. CASE \E j \in i + 1 .. n : ctx[j].at = ctx[i].at
      <3>1. PICK j \in i + 1 .. n : ctx[j].at = ctx[i].at
        BY <2>2
      <3>2. j \in 1 .. n /\ j \in i + 1 .. Len(ctx')
        BY <1>1, <1>2, <3>1
      <3> QED
        BY <1>2, <3>1, <3>2 DEF NotEntered
    <2> QED
      BY <1>5, <2>1, <2>2 DEF NotEntered, n
  <1>6. ASSUME NEW o \in live' \ Immortal, rc'[o] = 0
        PROVE  (o \in live /\ rc[o] = 0) \/ Claimed(o)'
    <2>1. CASE UNCHANGED <<live, rc>>
      BY <1>6, <2>1
    <2>2. CASE \E p \in Obj : oc_alloc(p) /\ kind = "construct" /\ vals = <<p>>
      <3>1. PICK p \in Obj : oc_alloc(p) /\ kind = "construct" /\ vals = <<p>>
        BY <2>2
      <3>2. CASE o = p
        <4>1. n + 1 \in 1 .. Len(ctx')
          BY <1>1, <1>2
        <4>2. /\ ctx'[n + 1].kind = "construct" /\ Len(ctx'[n + 1].vals) > 0
              /\ ctx'[n + 1].vals[1] = o /\ ctx'[n + 1].at = depth'
          BY <1>1, <1>2, <1>3, <3>1, <3>2
        <4> QED
          BY <4>1, <4>2 DEF Claimed, NotEntered
      <3>3. CASE o # p
        <4>1. o \in live /\ rc'[o] = rc[o]
          BY <1>6, <3>1, <3>3 DEF oc_alloc, TypeOK
        <4> QED
          BY <1>6, <4>1
      <3> QED
        BY <3>2, <3>3
    <2> QED
      BY <2>1, <2>2
  <1>7. Len(ctx') \in Nat /\ n <= Len(ctx') /\ Len(ctx) = n
    BY <1>1, <1>2 DEF n
  <1> QED
    BY <1>1, <1>2, <1>4, <1>5, <1>6, <1>7, ConstructClaims

\* Contexts are counted from one and have types.
LEMMA CtxFacts ==
    ASSUME TypeOK
    PROVE  /\ ctx \in Seq(Context) /\ Len(ctx) \in Nat /\ depth \in Int /\ depth >= 0
           /\ \A i \in 1 .. Len(ctx) : ctx[i].at \in Int /\ Len(ctx[i].vals) \in Nat
  <1>1. ctx \in Seq(Context) /\ Len(ctx) \in Nat /\ depth \in Int /\ depth >= 0
    BY ArcAssumption DEF TypeOK
  <1>2. ASSUME NEW i \in 1 .. Len(ctx)
        PROVE  ctx[i].at \in Int /\ Len(ctx[i].vals) \in Nat
    <2>1. ctx[i] \in Context
      BY <1>1
    <2> QED
      BY <2>1, ArcAssumption DEF Context
  <1> QED
    BY <1>1, <1>2

\* An operand is added.
LEMMA AddClaims ==
    ASSUME TypeOK, ZeroClaimed, Ready, Wants, NEW v, NEW own, AddOperand(v, own)
    PROVE  ZeroClaimed'
  <1> DEFINE n == Len(ctx)
             e == [ctx[n] EXCEPT !.vals = Append(@, v)]
  <1>1. /\ ctx' = [ctx EXCEPT ![n] = e] /\ UNCHANGED <<depth, live, rc>>
        /\ ctx \in Seq(Context) /\ n \in Nat /\ n \in 1 .. n
    <2>1. ctx # <<>> /\ ctx \in Seq(Context) /\ Len(ctx) \in Nat
      BY DEF Wants, InStatement, TypeOK
    <2>2. n \in Nat /\ n \in 1 .. n
      BY <2>1
    <2> QED
      BY <2>1, <2>2 DEF AddOperand
  <1>2. /\ ctx[n] \in Context /\ ctx[n].vals \in Seq(Value)
    <2>1. ctx[n] \in Context
      BY <1>1
    <2> QED
      BY <2>1 DEF Context
  <1>3. /\ e.kind = ctx[n].kind /\ e.at = ctx[n].at
        /\ e.vals = Append(ctx[n].vals, v)
    BY <1>2 DEF Context
  <1>4. Len(ctx[n].vals) > 0 => Len(e.vals) > 0 /\ e.vals[1] = ctx[n].vals[1]
    BY <1>2, <1>3
  <1> HIDE DEF e
  <1>5. DOMAIN ctx = 1 .. n /\ DOMAIN ctx' = 1 .. n
    BY <1>1
  <1>6. Len(ctx') = n
    BY <1>1, <1>5
  <1>7. \A i \in 1 .. n : ctx'[i] = IF i = n THEN e ELSE ctx[i]
    BY <1>1
  <1> HIDE DEF n
  <1>8. \A i \in 1 .. n : /\ ctx'[i].kind = ctx[i].kind /\ ctx'[i].at = ctx[i].at
                          /\ Len(ctx[i].vals) > 0 =>
                                Len(ctx'[i].vals) > 0 /\ ctx'[i].vals[1] = ctx[i].vals[1]
    BY <1>3, <1>4, <1>7
  <1>9. Called'
    <2>1. ASSUME NEW i \in 1 .. n, ctx'[i].kind = "return"
          PROVE  i > 1 /\ ctx'[i - 1].at < ctx'[i].at
      <3>1. i > 1 /\ ctx[i - 1].at < ctx[i].at
        BY <1>8, <2>1 DEF ZeroClaimed, Called, n
      <3>2. i - 1 \in 1 .. n
        BY <1>1, <3>1
      <3> QED
        BY <1>8, <3>1, <3>2
    <2>2. \A d \in 0 .. depth - 1 : \E i \in 1 .. n : ctx[i].at = d
      BY DEF ZeroClaimed, Called, n
    <2> QED
      BY <1>1, <1>6, <1>8, <2>1, <2>2 DEF Called
  <1>10. ASSUME NEW i \in 1 .. n, NotEntered(i)
         PROVE  NotEntered(i)'
    <2>1. \A j \in i + 1 .. n : j \in 1 .. n
      BY <1>1
    <2> QED
      BY <1>1, <1>6, <1>8, <1>10, <2>1 DEF NotEntered, n
  <1>11. /\ Len(ctx) = n /\ n \in Nat /\ Len(ctx') \in Nat /\ n <= Len(ctx') /\ n <= Len(ctx)
         /\ live' = live /\ rc' = rc
    BY <1>1, <1>6 DEF n
  <1> QED
    BY <1>8, <1>9, <1>10, <1>11, ConstructClaims

\* An assignment or a comparison ends.
LEMMA CloseClaims ==
    ASSUME TypeOK, ZeroClaimed, Ready, ctx # <<>>, Top.at = depth, Top.kind # "construct",
           CloseTop, UNCHANGED <<live, rc>>
    PROVE  ZeroClaimed'
  <1> DEFINE n == Len(ctx) - 1
  <1>1. /\ ctx' = SubSeq(ctx, 1, n) /\ depth' = depth /\ ctx \in Seq(Context)
        /\ n \in Nat /\ n + 1 = Len(ctx) /\ depth \in Int
        /\ ctx[n + 1].at = depth /\ ctx[n + 1].kind # "construct"
    BY CtxFacts DEF CloseTop, Top
  <1>2. Len(ctx') = n /\ \A i \in 1 .. n : ctx'[i] = ctx[i]
    BY <1>1
  <1> HIDE DEF n
  <1>3. \A i \in 1 .. Len(ctx) : i = n + 1 \/ i \in 1 .. n
    <2>1. n \in Nat /\ n + 1 = Len(ctx)
      BY <1>1
    <2>2. \A i \in 1 .. n + 1 : i = n + 1 \/ i \in 1 .. n
      BY <2>1
    <2> QED
      BY <2>1, <2>2
  <1>4. Called'
    <2>1. ASSUME NEW d \in 0 .. depth - 1
          PROVE  \E i \in 1 .. n : ctx'[i].at = d
      <3>1. PICK i \in 1 .. Len(ctx) : ctx[i].at = d
        BY DEF ZeroClaimed, Called
      <3>2. d # depth
        BY <1>1
      <3> QED
        BY <1>1, <1>2, <1>3, <3>1, <3>2
    <2>2. ASSUME NEW i \in 1 .. n, ctx'[i].kind = "return"
          PROVE  i > 1 /\ ctx'[i - 1].at < ctx'[i].at
      <3>1. i \in 1 .. Len(ctx)
        BY <1>1
      <3>2. i > 1 /\ ctx[i - 1].at < ctx[i].at
        BY <1>2, <2>2, <3>1 DEF ZeroClaimed, Called
      <3>3. i - 1 \in 1 .. n
        BY <1>1, <3>2
      <3> QED
        BY <1>2, <3>2, <3>3
    <2> QED
      BY <1>1, <1>2, <2>1, <2>2 DEF Called
  <1>5. ASSUME NEW i \in 1 .. n, NotEntered(i)
        PROVE  NotEntered(i)'
    <2>1. CASE ctx[i].at = depth
      BY <1>1, <1>2, <2>1 DEF NotEntered
    <2>2. CASE \E j \in i + 1 .. Len(ctx) : ctx[j].at = ctx[i].at
      <3>1. PICK j \in i + 1 .. Len(ctx) : ctx[j].at = ctx[i].at
        BY <2>2
      <3>2. CASE j = n + 1
        BY <1>1, <1>2, <3>1, <3>2 DEF NotEntered
      <3>3. CASE j # n + 1
        <4>1. j \in i + 1 .. n /\ j \in 1 .. n
          BY <1>1, <3>1, <3>3
        <4> QED
          BY <1>2, <3>1, <4>1 DEF NotEntered
      <3> QED
        BY <3>2, <3>3
    <2> QED
      BY <1>5, <2>1, <2>2 DEF NotEntered
  <1>6. Len(ctx') \in Nat /\ Len(ctx) \in Nat /\ n <= Len(ctx') /\ n <= Len(ctx)
    BY <1>1, <1>2
  <1> QED
    BY <1>1, <1>2, <1>3, <1>4, <1>5, <1>6, ConstructClaims

\* An initialiser is entered: its code retains the receiver first.
LEMMA EnterClaims ==
    ASSUME TypeOK, ZeroClaimed, Enter
    PROVE  ZeroClaimed'
  <1> DEFINE n == Len(ctx)
             e == depth + 1
             w == Top.vals
  <1>1. /\ Ready /\ depth' = e /\ ctx' = ctx /\ UNCHANGED <<live, rc>>
        /\ code' = EnterCode(e, w) /\ ctx # <<>> /\ Top.at = depth
        /\ Len(w) = Len(Params) /\ Top = ctx[n]
    <2>1. Arity("call") = Len(Params) /\ Arity("construct") = Len(Params)
      BY DEF Arity
    <2> QED
      BY <2>1 DEF Enter, Emit, heapState, Finish, Complete, InStatement, Top
  <1>2. /\ ctx \in Seq(Context) /\ n \in Nat /\ depth \in Int /\ n \in 1 .. n
        /\ \A i \in 1 .. n : ctx[i].at \in Int
    BY <1>1, CtxFacts
  <1> HIDE DEF n
  <1>3. Called'
    <2>1. ASSUME NEW d \in 0 .. depth' - 1
          PROVE  \E i \in 1 .. n : ctx[i].at = d
      <3>1. CASE d = depth
        BY <1>1, <1>2, <3>1
      <3>2. CASE d # depth
        <4>1. d \in 0 .. depth - 1
          BY <1>1, <1>2, <3>2
        <4> QED
          BY <4>1 DEF ZeroClaimed, Called, n
      <3> QED
        BY <3>1, <3>2
    <2> QED
      BY <1>1, <2>1 DEF ZeroClaimed, Called, n
  <1>4. ASSUME NEW o \in live' \ Immortal, rc'[o] = 0
        PROVE  Claimed(o)'
    <2>1. Claimed(o)
      BY <1>1, <1>4 DEF ZeroClaimed
    <2>2. PICK i \in 1 .. n : /\ NotEntered(i) /\ ctx[i].kind = "construct"
                              /\ Len(ctx[i].vals) > 0 /\ ctx[i].vals[1] = o
      BY <1>1, <2>1, ReadyClaims DEF n
    <2>3. CASE i = n
      <3>1. Len(Params) > 0 /\ w[1] = o /\ Len(Params) \in Nat /\ Len(Locals) \in Nat
        BY <1>1, <2>2, <2>3, ArcAssumption
      <3> DEFINE p == Len(Params)
                 a == [k \in 1 .. p |-> Retain(w[k], <<e, Params[k]>>)]
                 b == [k \in 1 .. Len(Locals) |-> Clear(<<e, Locals[k]>>)]
      <3>2. code' = a \o b
        BY <1>1 DEF EnterCode, ForEach
      <3>3. a[1] = Retain(o, <<e, Params[1]>>) /\ p \in Nat /\ 1 \in 1 .. p
        BY <3>1
      <3>4. a[1].op = "retain" /\ a[1].val = o
        BY <3>3 DEF Retain
      <3> DEFINE S == {a[k] : k \in 1 .. p} \cup {b[k] : k \in 1 .. Len(Locals)}
      <3>5. a \in [1 .. p -> S] /\ b \in [1 .. Len(Locals) -> S]
        OBVIOUS
      <3> HIDE DEF a, b, S, p
      <3>6. a \in Seq(S) /\ b \in Seq(S) /\ Len(a) = p /\ Len(b) \in Nat
        BY <3>1, <3>3, <3>5
      <3>7. (a \o b)[1] = a[1] /\ 1 \in 1 .. Len(a \o b)
        BY <3>3, <3>6
      <3> QED
        BY <3>2, <3>4, <3>7 DEF Claimed
    <2>4. CASE i # n
      <3>1. n \in i + 1 .. n
        BY <1>2, <2>2, <2>4
      <3>2. ctx[i].at = depth \/ \E j \in i + 1 .. n : ctx[j].at = ctx[i].at
        BY <2>2 DEF NotEntered, n
      <3>3. \E j \in i + 1 .. n : ctx[j].at = ctx[i].at
        BY <1>1, <3>1, <3>2
      <3>4. NotEntered(i)'
        BY <1>1, <3>3 DEF NotEntered, n
      <3> QED
        BY <1>1, <2>2, <3>4 DEF Claimed, n
    <2> QED
      BY <2>3, <2>4
  <1> QED
    BY <1>3, <1>4 DEF ZeroClaimed

\* A procedure returns to expression i0, and what the callee was evaluating is
\* dropped with it.
LEMMA LeaveClaims ==
    ASSUME TypeOK, ZeroClaimed, Ready, NEW i0 \in 1 .. Len(ctx), NEW front,
           LeaveTo(i0, front), UNCHANGED <<live, rc>>,
           ctx[i0].at < depth,
           \A i, j \in 1 .. Len(ctx) : i <= j => ctx[i].at <= ctx[j].at,
           \A i \in i0 + 1 .. Len(ctx) : ctx[i].at = depth /\ ctx[i].kind # "construct"
    PROVE  ZeroClaimed'
  <1> DEFINE n == i0 - 1
  <1>1. /\ ctx' = SubSeq(ctx, 1, n) /\ depth' = depth - 1 /\ ctx \in Seq(Context)
        /\ i0 \in Nat /\ n \in Nat /\ n + 1 = i0 /\ depth \in Int /\ Len(ctx) \in Nat
        /\ n <= Len(ctx)
        /\ \A i \in 1 .. Len(ctx) : ctx[i].at \in Int
    <2>1. /\ ctx' = SubSeq(ctx, 1, n) /\ depth' = depth - 1
      BY DEF LeaveTo
    <2>2. /\ ctx \in Seq(Context) /\ depth \in Int /\ Len(ctx) \in Nat
          /\ \A i \in 1 .. Len(ctx) : ctx[i].at \in Int
      BY CtxFacts
    <2>3. i0 \in Nat /\ n \in Nat /\ n + 1 = i0 /\ n <= Len(ctx)
      BY <2>2
    <2> QED
      BY <2>1, <2>2, <2>3
  <1>2. Len(ctx') = n /\ \A i \in 1 .. n : ctx'[i] = ctx[i] /\ i \in 1 .. Len(ctx)
    BY <1>1
  <1> HIDE DEF n
  <1>3. \A i \in 1 .. Len(ctx) : i \in 1 .. n \/ i = i0 \/ i \in i0 + 1 .. Len(ctx)
    BY <1>1
  <1>4. depth - 1 >= 0
    <2>1. ctx[i0] \in Context
      BY <1>1
    <2>2. ctx[i0].at >= 0
      BY <2>1, ArcAssumption DEF Context
    <2> QED
      BY <1>1, <2>2
  <1>5. ctx[i0].at = depth - 1
    <2>0. depth - 1 \in 0 .. depth - 1
      BY <1>1, <1>4
    <2>1. PICK i \in 1 .. Len(ctx) : ctx[i].at = depth - 1
      BY <2>0 DEF ZeroClaimed, Called
    <2>2. i \notin i0 + 1 .. Len(ctx)
      BY <1>1, <2>1
    <2>3. i <= i0
      BY <1>1, <1>3, <2>2
    <2>4. ctx[i].at <= ctx[i0].at
      BY <2>3
    <2> QED
      BY <1>1, <2>1, <2>4
  <1>6. Called'
    <2>1. ASSUME NEW d \in 0 .. depth' - 1
          PROVE  \E i \in 1 .. n : ctx'[i].at = d
      <3>1. PICK i \in 1 .. Len(ctx) : ctx[i].at = d
        BY <1>1 DEF ZeroClaimed, Called
      <3>2. i # i0 /\ i \notin i0 + 1 .. Len(ctx)
        BY <1>1, <1>5, <3>1
      <3> QED
        BY <1>2, <1>3, <3>1, <3>2
    <2>2. ASSUME NEW i \in 1 .. n, ctx'[i].kind = "return"
          PROVE  i > 1 /\ ctx'[i - 1].at < ctx'[i].at
      <3>1. i > 1 /\ ctx[i - 1].at < ctx[i].at
        BY <1>2, <2>2 DEF ZeroClaimed, Called
      <3>2. i - 1 \in 1 .. n
        BY <1>1, <3>1
      <3> QED
        BY <1>2, <3>1, <3>2
    <2> QED
      BY <1>2, <2>1, <2>2 DEF Called
  <1>7. ASSUME NEW i \in 1 .. Len(ctx), NotEntered(i), ctx[i].kind = "construct"
        PROVE  i \in 1 .. n /\ NotEntered(i)' /\ ctx'[i] = ctx[i]
    <2>1. ctx[i].at < depth
      <3>1. i \notin i0 + 1 .. Len(ctx)
        BY <1>7
      <3>2. i <= i0
        BY <1>1, <1>3, <3>1
      <3>3. ctx[i].at <= ctx[i0].at
        BY <3>2
      <3> QED
        BY <1>1, <3>3
    <2>2. PICK j \in i + 1 .. Len(ctx) : ctx[j].at = ctx[i].at
      BY <1>1, <1>7, <2>1 DEF NotEntered
    <2>3. j \in 1 .. Len(ctx) /\ j \notin i0 + 1 .. Len(ctx)
      <3>1. j \in 1 .. Len(ctx)
        BY <1>1
      <3> QED
        BY <1>1, <2>1, <2>2, <3>1
    <2>4. i \in 1 .. n /\ (j = i0 \/ j \in 1 .. n)
      BY <1>1, <1>3, <2>3
    <2>5. CASE j = i0
      BY <1>1, <1>2, <1>5, <2>2, <2>4, <2>5 DEF NotEntered
    <2>6. CASE j \in 1 .. n
      <3>1. j \in i + 1 .. n
        BY <1>1, <2>6
      <3> QED
        BY <1>2, <2>2, <2>4, <2>6, <3>1 DEF NotEntered
    <2> QED
      BY <1>2, <2>4, <2>5, <2>6
  <1>8. n <= Len(ctx') /\ Len(ctx') \in Nat
    BY <1>1, <1>2
  <1> QED
    BY <1>1, <1>6, <1>7, <1>8, ConstructClaims

\* Return from a function or from a procedure.
LEMMA ReturnClaims ==
    ASSUME TypeOK, CtxOK, ZeroClaimed, ReturnValue \/ ReturnPlain
    PROVE  ZeroClaimed'
  <1> DEFINE n == Len(ctx)
  <1>1. /\ n \in Nat /\ depth \in Int /\ \A i \in 1 .. n : ctx[i].at \in Int
        /\ Ready /\ depth > 0 /\ ctx # <<>> /\ n > 0
        /\ \A i, j \in 1 .. n : i <= j => ctx[i].at <= ctx[j].at
        /\ \A i \in 1 .. n : ctx[i].at <= depth
    <2>1. n \in Nat /\ depth \in Int /\ ctx \in Seq(Context)
          /\ \A i \in 1 .. n : ctx[i].at \in Int
      BY CtxFacts
    <2>2. Ready /\ depth > 0 /\ ctx # <<>>
      BY DEF ReturnValue, ReturnPlain, Finish, Boundary, Complete, InStatement
    <2>3. n > 0
      BY <2>1, <2>2
    <2>4. \A i \in 1 .. n : ctx[i].at <= depth /\ \A j \in 1 .. i : ctx[j].at <= ctx[i].at
      BY DEF CtxOK
    <2>5. \A i, j \in 1 .. n : i <= j => i \in 1 .. j
      BY <2>1
    <2> QED
      BY <2>1, <2>2, <2>3, <2>4, <2>5
  <1>2. CASE ReturnPlain
    <2>1. LeaveTo(n, <<>>) /\ ~(Top.at = depth) /\ UNCHANGED <<live, rc>>
      BY <1>2 DEF ReturnPlain, Boundary, InStatement, LeaveTo, Emit, heapState
    <2>2. n \in 1 .. n /\ ctx[n].at < depth
      BY <1>1, <2>1 DEF Top
    <2>3. \A i \in n + 1 .. n : FALSE
      BY <1>1
    <2> QED
      BY <1>1, <2>1, <2>2, <2>3, LeaveClaims
  <1>3. CASE ReturnValue
    <2>1. /\ Len(ctx) > 1 /\ Top.kind = "return" /\ Top.at = depth
          /\ LeaveTo(n - 1, ResultCode(Top.vals[1])) /\ UNCHANGED <<live, rc>>
      BY <1>3 DEF ReturnValue, Finish, Complete, InStatement, LeaveTo, Emit, heapState
    <2>2. n - 1 \in 1 .. n /\ n \in 1 .. n
      BY <1>1, <2>1
    <2>3. ctx[n - 1].at < depth
      BY <2>1, <2>2 DEF ZeroClaimed, Called, Top
    <2>4. \A i \in (n - 1) + 1 .. n : i = n
      BY <1>1
    <2>5. ctx[n].at = depth /\ ctx[n].kind # "construct"
      BY <2>1 DEF Top
    <2> HIDE DEF n
    <2>6. \A i \in (n - 1) + 1 .. n : ctx[i].at = depth /\ ctx[i].kind # "construct"
      BY <2>4, <2>5
    <2> QED
      BY <1>1, <2>1, <2>2, <2>3, <2>6, LeaveClaims DEF n
  <1> QED
    BY <1>2, <1>3

\* Every step keeps the claims.
LEMMA ClaimsKept ==
    ASSUME TypeOK, IInv, ZeroClaimed, Next
    PROVE  ZeroClaimed'
  <1>1. CASE Run
    <2>1. CASE RunRetain
      BY <2>1, RetainClaims
    <2>2. CASE RunCascade
      BY <2>2, CascadeClaims
    <2>3. CASE RunRetainFaults \/ RunCopyFaults \/ (RunMove /\ Trap) \/ (RunPoke /\ Trap)
      BY <2>3 DEF RunRetainFaults, RunCopyFaults, Trap, Undefined, ZeroClaimed, Called, Claimed,
         NotEntered
    <2>4. CASE \/ RunDrop \/ RunClear \/ RunCopy \/ RunForget
               \/ (RunMove /\ ~Trap) \/ (RunPoke /\ ~Trap)
      <3>1. /\ code # <<>> /\ Head(code).op # "retain" /\ code' = Tail(code)
            /\ cascade = <<>> /\ UNCHANGED <<live, rc, depth, ctx>>
        BY <2>4 DEF RunDrop, RunClear, RunCopy, RunForget, RunMove, RunPoke, Next1, Step, control
      <3> QED
        BY <3>1, UncountedClaims
    <2> QED
      BY <1>1, <2>1, <2>2, <2>3, <2>4 DEF Run
  <1>2. CASE \E x \in Place, o \in Obj : New(x, o)
    BY <1>2, PlainClaims DEF New, Boundary, control
  <1>3. CASE \E x, y \in Place : RecordAssign(x, y) \/ ArrayAssign(x, y)
    BY <1>3, PlainClaims DEF RecordAssign, ArrayAssign, Boundary, Emit, heapState
  <1>4. CASE \/ \E x \in Place : BeginStore(x) \/ BeginRelate(x)
             \/ \E v \in Place \cup {NIL} : BeginCall(v)
             \/ BeginCompare
    BY <1>4, OpenClaims DEF BeginStore, BeginRelate, BeginCall, BeginCompare, Boundary, MayCall, heapState
  <1>5. CASE BeginReturn
    <2>1. ctx # <<>> /\ ctx[Len(ctx)].at < depth
      <3>1. /\ ctx # <<>> /\ Top.at # depth /\ Len(ctx) > 1
        BY <1>5 DEF BeginReturn, Boundary, InStatement
      <3>2. Len(ctx) \in 1 .. Len(ctx) /\ Top.at \in Int /\ depth \in Int
        BY <3>1, CtxFacts DEF Top
      <3>3. Top.at <= depth
        BY <3>2 DEF IInv, CtxOK, Top
      <3> QED
        BY <3>1, <3>2, <3>3 DEF Top
    <2> QED
      BY <1>5, <2>1, OpenClaims DEF BeginReturn, Boundary, heapState
  <1>6. CASE \E o \in Obj : BeginConstruct(o)
    BY <1>6, OpenClaims DEF BeginConstruct, MayCall
  <1>7. CASE (\E s \in Place : BorrowFaults(s)) \/ CompareFaults
    BY <1>7 DEF BorrowFaults, CompareFaults, Undefined, ZeroClaimed, Called, Claimed, NotEntered
  <1>8. CASE \/ \E s \in Place : Borrow(s)
             \/ BorrowNil \/ TakeResult
             \/ \E o \in Immortal : TakeStatic(o)
    <2>1. Ready /\ Wants /\ \E v, own : AddOperand(v, own)
      BY <1>8 DEF Borrow, BorrowNil, TakeResult, TakeStatic
    <2> QED
      BY <2>1, AddClaims
  <1>9. CASE Store \/ Compare
    <2>1. /\ Ready /\ ctx # <<>> /\ Top.at = depth /\ Top.kind # "construct" /\ CloseTop
          /\ UNCHANGED <<live, rc>>
      BY <1>9 DEF Store, Compare, Finish, Complete, InStatement, Emit, heapState
    <2> QED
      BY <2>1, CloseClaims
  <1>10. CASE Enter
    BY <1>10, EnterClaims
  <1>11. CASE ReturnValue \/ ReturnPlain
    BY <1>11, ReturnClaims DEF IInv
  <1> QED
    BY <1>1, <1>2, <1>3, <1>4, <1>5, <1>6, <1>7, <1>8, <1>9, <1>10, <1>11, InScopePlace
       DEF Next, Statement

(* Every object with a count of zero is about to be freed, about to be     *)
(* retained or the receiver of a construction: the emitted code forgets    *)
(* none of them.                                                           *)
THEOREM NoneForgotten ==
    ASSUME Forms \cap UnbalancedForms = {}, Len(Params \o Locals) <= MaxLocalPtrs
    PROVE  Spec => []ZeroClaimed
  <1>1. Init => ZeroClaimed
    <2>1. SUFFICES ASSUME Init PROVE ZeroClaimed
      OBVIOUS
    <2>2. depth = 0 /\ ctx = <<>> /\ live = Immortal
      BY <2>1 DEF Init, HeapInit
    <2>3. Len(ctx) = 0 /\ \A d \in 0 .. depth - 1 : FALSE
      BY <2>2
    <2> QED
      BY <2>2, <2>3 DEF ZeroClaimed, Called
  <1>2. TypeOK /\ IInv /\ ZeroClaimed /\ [Next]_vars => ZeroClaimed'
    <2>1. ASSUME ZeroClaimed, UNCHANGED vars
          PROVE  ZeroClaimed'
      BY <2>1 DEF vars, ZeroClaimed, Called, Claimed, NotEntered
    <2> QED
      BY <2>1, ClaimsKept
  <1> QED
    BY <1>1, <1>2, Inductive, TypeCorrect, PTL DEF Spec

-----------------------------------------------------------------------------
(* Garbage. *)

\* Garbage is alive, counted and not the receiver of a construction, and no
\* variable or register in use holds it.
LEMMA GarbageFacts ==
    ASSUME TypeOK, NEW o \in Garbage
    PROVE  /\ o \in live /\ o \in Obj /\ o \notin Immortal /\ o \notin Unborn
           /\ \A s \in Root \ stale : mem[s] # o
  <1>1. PICK S \in SUBSET live : Closed(S) /\ o \notin S
    BY DEF Garbage
  <1>2. o \in live /\ o \notin Anchored
    BY <1>1 DEF Garbage, Closed
  <1> QED
    BY <1>2 DEF Anchored, TypeOK

(* Between statements an object that no variable, register, static record  *)
(* or construction leads to is owned by a strong field of another such     *)
(* object: only cycles of strong fields leak.                              *)
THEOREM OnlyCycles ==
    ASSUME Forms \cap UnbalancedForms = {}, Exact, Len(Params \o Locals) <= MaxLocalPtrs
    PROVE  Spec => []OnlyCyclesLeak
  <1>1. ASSUME TypeOK, IInv, ZeroClaimed, Ready, NEW o \in Garbage
        PROVE  \E q \in Garbage : o \in Strong(q)
    <2>1. /\ o \in live /\ o \in Obj /\ o \notin Immortal /\ o \notin Unborn
          /\ \A s \in Root \ stale : mem[s] # o
      BY <1>1, GarbageFacts
    <2>2. rc[o] # 0
      <3>1. SUFFICES ASSUME rc[o] = 0 PROVE FALSE
        OBVIOUS
      <3>2. Claimed(o)
        BY <1>1, <2>1, <3>1 DEF ZeroClaimed
      <3>3. o \in Unborn
        BY <1>1, <2>1, <3>1, <3>2, ReadyClaims DEF Unborn
      <3> QED
        BY <2>1, <3>3
    <2>3. Holders(o) # {}
      <3>1. rc[o] = Cardinality(Holders(o))
        BY <1>1, <2>1 DEF IInv, Counts, Covers
      <3> QED
        BY <2>2, <3>1, FS_EmptySet
    <2>4. PICK s \in StrongSlot \ stale : mem[s] = o
      BY <2>3 DEF Holders, Owning
    <2>5. s \notin Root
      BY <2>1, <2>4
    <2>6. PICK q \in Obj, f \in StrongField : s = <<q, f>>
      BY <2>4, <2>5 DEF StrongSlot
    <2>7. q \in live
      BY <1>1, <2>4, <2>6 DEF IInv, Counts
    <2>8. o \in Strong(q)
      BY <2>1, <2>4, <2>6, ArcAssumption DEF Strong
    <2>9. PICK S \in SUBSET live : Closed(S) /\ o \notin S
      BY <1>1 DEF Garbage
    <2>10. q \notin S
      BY <2>1, <2>8, <2>9 DEF Closed
    <2> QED
      BY <2>7, <2>8, <2>9, <2>10 DEF Garbage
  <1>2. TypeOK /\ IInv /\ ZeroClaimed => OnlyCyclesLeak
    BY <1>1 DEF OnlyCyclesLeak
  <1> QED
    BY <1>2, Inductive, NoneForgotten, TypeCorrect, PTL
=============================================================================
