------------------------------- MODULE ArcInv -------------------------------
(***************************************************************************)
(* The inductive invariant behind CountCovers and RefcountExact (module    *)
(* Arc): the first for programs that may use the forms that leak, the      *)
(* second for those that use none of the forms that do not balance.        *)
(*                                                                         *)
(* Counts are exact at every instruction, not just between statements, so  *)
(* the invariant has to say what the rest of the emitted code will do:     *)
(* an instruction that fills a slot must find it empty by then, and a move *)
(* must find its source still holding a reference.                         *)
(*                                                                         *)
(* Sound, at the end, is the invariant behind NoFault: it adds what keeps  *)
(* alive the memory that the rest of the code reads and writes.            *)
(***************************************************************************)
EXTENDS Arc

(* Forms that count an owner that is none, or the other way round; and     *)
(* forms that only lose a reference, whose object then leaks.              *)
UnbalancedForms == {"array copy", "new weak"}
LeakingForms    == {"return call", "weak own"}
Exact           == Forms \cap LeakingForms = {}

\* A slot that can be overwritten without losing a reference.
Empty(s) == s \in stale \/ mem[s] = NIL

Released(s) == \E k \in 1 .. Len(cascade) : cascade[k] = Release(s)

\* Slots that are empty once the running release is over, and registers that
\* still hold a reference then.
EmptyNow == {s \in StrongSlot : Empty(s) \/ Released(s)}
HeldNow  == {s \in Temps : s \notin stale /\ ~Released(s)}

Fills(c, s) ==
    /\ c.op \in {"retain", "move", "clear", "poke"}
    /\ c.slot = s

Empties(c, s) ==
    \/ c.op = "release" /\ c.slot = s
    \/ c.op = "move" /\ c.from = s
    \/ c.op = "forget" /\ s \in c.slots

(* What is known when the first i - 1 instructions of c have run, E and H *)
(* being the empty and the held slots before: s was emptied, or was empty *)
(* already, and was not filled since; and the converse.                   *)
EmptyBy(E, c, s, i) ==
    \/ \E j \in 1 .. i - 1 : /\ Empties(c[j], s)
                             /\ \A m \in j + 1 .. i - 1 : ~Fills(c[m], s)
    \/ s \in E /\ \A m \in 1 .. i - 1 : ~Fills(c[m], s)

HeldBy(H, c, s, i) ==
    \/ \E j \in 1 .. i - 1 : /\ Fills(c[j], s)
                             /\ \A m \in j + 1 .. i - 1 : ~Empties(c[m], s)
    \/ s \in H /\ \A m \in 1 .. i - 1 : ~Empties(c[m], s)

SafeInstr(E, H, c, i) ==
    \/ c[i].op \in {"retain", "clear"} /\ c[i].slot \in Root /\ EmptyBy(E, c, c[i].slot, i)
    \/ c[i].op = "release" /\ c[i].slot \in StrongSlot
    \/ /\ c[i].op = "move" /\ c[i].slot \in StrongSlot \ Temps /\ c[i].from \in Temps
       /\ EmptyBy(E, c, c[i].slot, i) /\ HeldBy(H, c, c[i].from, i)
    \/ c[i].op = "poke" /\ c[i].slot \in Slot /\ IsWeak(c[i].slot)
    \/ c[i].op = "copy"
    \/ c[i].op = "forget" /\ (Exact => \A s \in c[i].slots : EmptyBy(E, c, s, i))

SafeCode(E, H, c) == \A i \in 1 .. Len(c) : SafeInstr(E, H, c, i)

CodeSafe == SafeCode(EmptyNow, HeldNow, code)

(* What oc_release still has to do: each object to be freed is freed once, *)
(* nothing refers to it, and its fields are released first.                *)
SafeCascade(k) ==
    LET c == cascade[k]
    IN  \/ c.op = "release" /\ c.slot \in StrongSlot
        \/ /\ c.op = "free" /\ c.obj \in live /\ rc[c.obj] = 0
           /\ \A f \in StrongField :
                 \/ <<c.obj, f>> \in stale
                 \/ \E j \in 1 .. k - 1 : cascade[j] = Release(<<c.obj, f>>)
           /\ \A m \in 1 .. Len(cascade) : cascade[m] = Free(c.obj) => m = k

CascadeSafe == \A k \in 1 .. Len(cascade) : SafeCascade(k)

\* Registers and frames out of use are empty once the emitted code has run.
Unused == {Flight(k) : k \in 1 .. Len(PtrOffsets) + 1}
            \cup {s \in Frames : s[1] > depth}
            \cup {Temp(i, k) : i \in Len(ctx) + 1 .. MaxCtx, k \in 1 .. MaxArity}
            \cup UNION {{Temp(i, k) : k \in Len(ctx[i].vals) + 1 .. MaxArity} :
                           i \in 1 .. Len(ctx)}

UnusedEmpty == \A s \in Unused : EmptyBy(EmptyNow, code, s, Len(code) + 1)

\* A variable of activation d or of one that called it, or a heap field.
VariableAt(s, d) == /\ s \in Slot /\ s \notin Temps
                    /\ s \in Frames => s[1] <= d

CtxOK ==
    /\ \A i \in 1 .. Len(ctx) :
          /\ ctx[i].at <= depth
          /\ \A j \in 1 .. i : ctx[j].at <= ctx[i].at
          /\ (ctx[i].kind \notin {"store", "relate"} /\ ctx[i].dst = NIL) \/ VariableAt(ctx[i].dst, ctx[i].at)
          /\ ctx[i].kind = "return" => i > 2 /\ ctx[i - 2].at < ctx[i].at
    /\ \A d \in 1 .. depth : bind[d] = NIL \/ VariableAt(bind[d], d - 1)

\* The count covers the owners, and leaves none out when no form leaks.
Covers(count, owners) == count >= owners /\ (Exact => count = owners)

Counts ==
    /\ \A o \in Immortal : o \in live /\ rc[o] < 0
    /\ \A o \in live \ Immortal : Covers(rc[o], Cardinality(Holders(o)))
    /\ \A s \in Owning : mem[s] \in live \cup {NIL}
    /\ \A o \in Obj \ live, f \in StrongField : <<o, f>> \in stale

IInv == Counts /\ CascadeSafe /\ CodeSafe /\ UnusedEmpty /\ CtxOK

-----------------------------------------------------------------------------
(* The inductive invariant behind OnlyCyclesLeak.                          *)

\* Expression i has not called its procedure yet: it is the innermost one, or
\* an operand of it is being evaluated.
NotEntered(i) == \/ ctx[i].at = depth
                 \/ \E j \in i + 1 .. Len(ctx) : ctx[j].at = ctx[i].at

(* An object that nothing owns is about to be freed, about to be retained, *)
(* or the receiver of a construction whose initialiser has still to run.   *)
Claimed(o) ==
    \/ \E k \in 1 .. Len(cascade) : cascade[k] = Free(o)
    \/ \E k \in 1 .. Len(code) : code[k].op = "retain" /\ code[k].val = o
    \/ \E i \in 1 .. Len(ctx) : /\ NotEntered(i) /\ ctx[i].kind = "construct"
                                 /\ Len(ctx[i].vals) > 0 /\ ctx[i].vals[1] = o

\* Every activation was called by an expression of the one before, and RETURN
\* starts as a statement of its own.
Called == /\ \A d \in 0 .. depth - 1 : \E i \in 1 .. Len(ctx) : ctx[i].at = d
          /\ \A i \in 1 .. Len(ctx) :
                ctx[i].kind = "return" => i > 1 /\ ctx[i - 1].at < ctx[i].at

ZeroClaimed == Called /\ \A o \in live \ Immortal : rc[o] = 0 => Claimed(o)

-----------------------------------------------------------------------------
(* The inductive invariant behind NoFault: why compiled code that uses none *)
(* of the unprotected forms never touches a freed object.                   *)

\* A slot that owns its reference, also when the running release is over.
Held == {s \in StrongSlot : s \notin stale /\ ~Released(s)}

Touches(c, s)      == Fills(c, s) \/ Empties(c, s)
UntilThen(c, s, i) == \A j \in 1 .. i - 1 : ~Touches(c[j], s)

\* The variables of the module and of the activations.
Variables == Globals \cup UNION {FrameSlots(d) : d \in 1 .. depth}

\* A variable holds o until instruction i of c: o is not freed before.
Guarded(o, c, i) == \E r \in Variables \cap Held : mem[r] = o /\ UntilThen(c, r, i)

\* The receiver of a construction that no slot holds yet.
Newborn(o) == \E i \in 1 .. Len(ctx) : /\ NotEntered(i) /\ ctx[i].kind = "construct"
                                        /\ Len(ctx[i].vals) > 0 /\ ctx[i].vals[1] = o

Freeing(o) == \E k \in 1 .. Len(cascade) : cascade[k] = Free(o)

(* Variables and fields hold their references when the emitted code ends,  *)
(* whatever it displaces meanwhile.                                         *)
VariablesHeld == \A s \in Variables : HeldBy(Held, code, s, Len(code) + 1)
FieldsHeld    == \A o \in live, f \in StrongField :
                    HeldBy(Held, code, <<o, f>>, Len(code) + 1) \/ Freeing(o)

\* A released register is cleared before it is read again, and those of no
\* operand come to own nothing.
RegistersWiped ==
    /\ \A t \in Temps : (t \in stale \/ Released(t)) /\ mem[t] # NIL =>
          \E j \in 1 .. Len(code) : code[j].op = "forget" /\ t \in code[j].slots
    /\ \A i \in 1 .. Len(code) : code[i].op = "release" /\ code[i].slot \in Temps =>
          \E j \in i + 1 .. Len(code) : code[j].op = "forget" /\ code[i].slot \in code[j].slots
    /\ \A i \in 1 .. MaxCtx, k \in 1 .. MaxArity :
          i > Len(ctx) \/ k > Len(ctx[i].vals) =>
             \/ Temp(i, k) \in stale \/ Released(Temp(i, k))
             \/ \E j \in 1 .. Len(code) : Empties(code[j], Temp(i, k))

\* What a release may be asked of: a slot that owns what it holds, or NIL.
Clean(s) == s \notin stale \/ mem[s] = NIL

(* Retains come first; a slot is released at most once; a heap slot is     *)
(* touched while a variable holds its object; operands are left alone.     *)
SoundInstr(c, i) ==
    /\ c[i].op = "retain" => /\ c[i].val \in live \cup {NIL} /\ ~Newborn(c[i].val)
                             /\ cascade = <<>>
                             /\ \A j \in 1 .. i - 1 : c[j].op # "release"
    /\ c[i].op = "release" => /\ Clean(c[i].slot) /\ ~Released(c[i].slot)
                              /\ UntilThen(c, c[i].slot, i)
    /\ c[i].op \in {"release", "move", "poke"} /\ Heap(c[i].slot) =>
          Guarded(c[i].slot[1], c, i)
    /\ c[i].op = "copy" => Guarded(c[i].obj, c, i) /\ Guarded(c[i].from, c, i)
    /\ \A p \in 1 .. MaxCtx, k \in 1 .. MaxArity :
          ~Fills(c[i], Temp(p, k)) /\ (p <= Len(ctx) => ~Empties(c[i], Temp(p, k)))

CodeSound == \A i \in 1 .. Len(code) : SoundInstr(code, i)

(* The release of a field runs while its object is being freed, or held.   *)
SoundRelease(k) ==
    LET s == cascade[k].slot
    IN  /\ Clean(s)
        /\ \A m \in 1 .. Len(cascade) : cascade[m] = Release(s) => m = k
        /\ Heap(s) => \/ Guarded(s[1], <<>>, 1)
                      \/ \E m \in k + 1 .. Len(cascade) : cascade[m] = Free(s[1])
        /\ \A p \in 1 .. Len(ctx), j \in 1 .. MaxArity : s # Temp(p, j)

CascadeSound == \A k \in 1 .. Len(cascade) : cascade[k].op = "release" => SoundRelease(k)

Idle == cascade = <<>> /\ code = <<>>

\* Operand k of expression i is a receiver that its initialiser still has to
\* retain.
Receiver(i, k) == ctx[i].kind = "construct" /\ k = 1

(* The operands of expressions that wait: a fresh receiver, none, owned by a *)
(* register, or, when nothing can run in between, borrowed.                  *)
SoundOperand(i, k) ==
    LET v == ctx[i].vals[k]
        t == Temp(i, k)
    IN  \/ Receiver(i, k) /\ v \in live /\ rc[v] = 0 /\ ~Freeing(v)
        \/ /\ ~Receiver(i, k)
           /\ \/ v = NIL
              \/ t \notin stale /\ mem[t] = v
              \/ /\ i = Len(ctx) /\ ctx[i].at = depth /\ Idle
                 /\ t \in stale /\ v \in live /\ rc[v] # 0

OperandsSound ==
    /\ \A i \in 1 .. Len(ctx) : NotEntered(i) =>
          /\ \A k \in 1 .. Len(ctx[i].vals) : SoundOperand(i, k)
          /\ ctx[i].dst # NIL /\ Heap(ctx[i].dst) =>
                /\ i = Len(ctx) /\ ctx[i].at = depth /\ Idle
                /\ ctx[i].kind \in {"store", "relate"}
                /\ Guarded(ctx[i].dst[1], <<>>, 1)
    /\ \A i, j \in 1 .. Len(ctx) :
          /\ NotEntered(i) /\ ctx[i].kind = "construct" /\ Len(ctx[i].vals) > 0
          /\ NotEntered(j) /\ ctx[j].kind = "construct" /\ Len(ctx[j].vals) > 0
          /\ ctx[i].vals[1] = ctx[j].vals[1]
          => i = j
    /\ \A d \in 1 .. depth : bind[d] = NIL \/ ~Heap(bind[d])
    /\ \A i \in 1 .. Len(ctx) : ctx[i].kind = "construct" => ctx[i].vals # <<>>

(* What keeps compiled code from faulting: variables and fields hold       *)
(* references whenever a statement's code has run, what is left of the     *)
(* code and of a release touches only words that are alive then, and an    *)
(* operand that waits for others is owned, unless nothing runs meanwhile.  *)
Sound == /\ ~fault
         /\ VariablesHeld /\ FieldsHeld /\ RegistersWiped
         /\ CodeSound /\ CascadeSound /\ OperandsSound
=============================================================================
