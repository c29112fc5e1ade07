------------------------------ MODULE ArcHeap ------------------------------
(***************************************************************************)
(* The ARC runtime, src/runtime/posix/runtime.c (the android, ios and wasm *)
(* copies are the same file).                                              *)
(*                                                                         *)
(* The heap is a set of objects, each with a count and fields.  A "slot"   *)
(* is any word that can hold a pointer: a root (a variable, a parameter or *)
(* a register of compiled code) or a field of an object.  Fields named in  *)
(* the type descriptor's ptr_offsets list are strong; the others are WEAK  *)
(* POINTER fields, which the list omits (ORG.c:387-392).                   *)
(*                                                                         *)
(* oc_release is recursive in C.  Here its recursion is the sequence       *)
(* `cascade` of what the activations still have to do, innermost first, so *)
(* that one step is one call of oc_release on one pointer, and the order   *)
(* of releases and frees is that of the C code.                            *)
(*                                                                         *)
(* A slot in `stale` holds no reference of its own: a word of a frame not  *)
(* in use, a field of memory not allocated, or a slot whose reference was  *)
(* released and that has not been stored to since.  Touching freed memory, *)
(* or releasing what a slot no longer owns, is undefined behaviour in C:   *)
(* `fault` becomes TRUE and the machine stops.                             *)
(***************************************************************************)
EXTENDS Integers, Sequences, FiniteSets

CONSTANTS Obj,         \* addresses oc_alloc can return
          Immortal,    \* those of static records, whose count is negative
          NIL,
          Root,        \* slots outside the heap, pairs <<_, _>>
          PtrOffsets,  \* the strong fields, in the order of td.ptr_offsets
          WeakField    \* the fields the list omits

VARIABLES live,     \* objects allocated and not yet freed
          rc,       \* the count in each object's header
          mem,      \* what each slot holds
          stale,    \* slots that own nothing
          cascade,  \* what the running oc_release still has to do
          fault     \* undefined behaviour was reached

heapVars == <<live, rc, mem, stale, cascade, fault>>

StrongField == {PtrOffsets[i] : i \in 1 .. Len(PtrOffsets)}
StrongSlot  == Root \cup (Obj \X StrongField)
Slot        == StrongSlot \cup (Obj \X WeakField)

\* The object a slot lies in was freed: reading or writing it is undefined.
Gone(s) == s[1] \in Obj \ live

Release(s) == [op |-> "release", slot |-> s]
Free(o)    == [op |-> "free", obj |-> o]
CascadeOp  == {Release(s) : s \in Slot} \cup {Free(o) : o \in Obj}

\* Slots that own a counted reference, and those that own one to o.
Owning     == StrongSlot \ stale
Holders(o) == {s \in Owning : mem[s] = o}

\* The slots in S belong to no activation yet.
HeapInit(S) ==
    /\ live = Immortal
    /\ rc = [o \in Obj |-> IF o \in Immortal THEN -1 ELSE 0]
    /\ mem = [s \in Slot |-> NIL]
    /\ stale = S \cup ((Obj \ Immortal) \X StrongField)
    /\ cascade = <<>>
    /\ fault = FALSE

-----------------------------------------------------------------------------
(* calloc: every field NIL, the count 0 until the first oc_retain. *)
oc_alloc(o) ==
    /\ o \notin live
    /\ live' = live \cup {o}
    /\ rc' = [rc EXCEPT ![o] = 0]
    /\ mem' = [s \in Slot |-> IF s[1] = o THEN NIL ELSE mem[s]]
    /\ stale' = stale \ ({o} \X StrongField)

\* No object, or OC_IS_IMMORTAL.
Skips(v) == v \in {NIL} \cup {o \in Obj : rc[o] < 0}

(* oc_retain(v), the new reference being the one slot t holds next. *)
oc_retain(v, t) ==
    /\ v \in live \cup {NIL}
    /\ rc' = IF Skips(v) THEN rc ELSE [rc EXCEPT ![v] = @ + 1]
    /\ mem' = [mem EXCEPT ![t] = v]
    /\ stale' = stale \ {t}

\* Mutant: the fields are not released.
UnwindFreesOnly(v) == <<Free(v)>>

(* The activation that frees v: its ptr_offsets loop, then free. *)
Unwind(v) == [i \in 1 .. Len(PtrOffsets) |-> Release(<<v, PtrOffsets[i]>>)]
               \o <<Free(v)>>

Undefined == /\ fault' = TRUE
             /\ UNCHANGED <<live, rc, mem, stale, cascade>>

\* Mutant: a NIL or immortal field does not advance the ptr_offsets loop.
ReleaseSkipsForever ==
    /\ cascade # <<>> /\ Head(cascade).op = "release"
    /\ LET s == Head(cascade).slot
       IN  /\ ~Gone(s) /\ mem[s] \in live \cup {NIL} /\ Skips(mem[s])
           /\ stale' = stale \cup {s}
    /\ UNCHANGED <<cascade, live, rc, mem, fault>>

(* oc_release(p) with p loaded from slot s. *)
ReleaseSkips ==
    /\ cascade # <<>> /\ Head(cascade).op = "release"
    /\ LET s == Head(cascade).slot
       IN  /\ ~Gone(s) /\ mem[s] \in live \cup {NIL} /\ Skips(mem[s])
           /\ stale' = stale \cup {s}
    /\ cascade' = Tail(cascade)
    /\ UNCHANGED <<live, rc, mem, fault>>

\* Mutant: off by one, frees when one owner is left.
ReleaseCountsEarly ==
    /\ cascade # <<>> /\ Head(cascade).op = "release"
    /\ LET s == Head(cascade).slot
           v == mem[s]
       IN  /\ ~Gone(s) /\ v \in live /\ ~Skips(v) /\ s \notin stale
           /\ rc' = [rc EXCEPT ![v] = @ - 1]
           /\ stale' = stale \cup {s}
           /\ cascade' = IF rc[v] - 1 > 1 THEN Tail(cascade)
                                          ELSE Unwind(v) \o Tail(cascade)
    /\ UNCHANGED <<live, mem, fault>>

(* --rc, and the recursion when that reaches zero. *)
ReleaseCounts ==
    /\ cascade # <<>> /\ Head(cascade).op = "release"
    /\ LET s == Head(cascade).slot
           v == mem[s]
       IN  /\ ~Gone(s) /\ v \in live /\ ~Skips(v) /\ s \notin stale
           /\ rc' = [rc EXCEPT ![v] = @ - 1]
           /\ stale' = stale \cup {s}
           /\ cascade' = IF rc[v] - 1 > 0 THEN Tail(cascade)
                                          ELSE Unwind(v) \o Tail(cascade)
    /\ UNCHANGED <<live, mem, fault>>

(* A freed pointer, a freed container, or a reference released twice. *)
ReleaseFaults ==
    /\ cascade # <<>> /\ Head(cascade).op = "release"
    /\ LET s == Head(cascade).slot
       IN  \/ Gone(s)
           \/ mem[s] \in Obj \ live
           \/ mem[s] \in live /\ ~Skips(mem[s]) /\ s \in stale
    /\ Undefined

FreeStep ==
    /\ cascade # <<>> /\ Head(cascade).op = "free"
    /\ LET o == Head(cascade).obj
       IN  /\ live' = live \ {o}
           /\ mem' = [s \in Slot |-> IF s[1] = o THEN NIL ELSE mem[s]]
    /\ cascade' = Tail(cascade)
    /\ UNCHANGED <<rc, stale, fault>>

CascadeStep == ReleaseSkips \/ ReleaseCounts \/ ReleaseFaults \/ FreeStep
=============================================================================
