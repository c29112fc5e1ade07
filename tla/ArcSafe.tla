------------------------------ MODULE ArcSafe ------------------------------
(***************************************************************************)
(* Compiled code never touches a freed object and never releases a         *)
(* reference twice: proved for every set of objects, record layout, frame  *)
(* and bounds, for programs that use none of the forms that leave a borrow *)
(* or an address unprotected.  Sound of ArcInv is the inductive invariant, *)
(* on top of IInv and ZeroClaimed.                                         *)
(***************************************************************************)
EXTENDS ArcCount

-----------------------------------------------------------------------------
(* What a held reference guarantees. *)

\* A slot that owns its reference leads to a counted live object, or to NIL.
LEMMA OwnedFacts ==
    ASSUME TypeOK, Counts, NEW s \in StrongSlot, s \notin stale
    PROVE  /\ mem[s] \in live \cup {NIL}
           /\ mem[s] # NIL => mem[s] \in Obj /\ rc[mem[s]] # 0
  <1>1. mem[s] \in live \cup {NIL} /\ live \subseteq Obj
    BY DEF Counts, Owning, TypeOK
  <1> DEFINE o == mem[s]
  <1>2. ASSUME o # NIL
        PROVE  o \in Obj /\ rc[o] # 0
    <2>1. o \in live /\ o \in Obj /\ rc[o] \in Int
      BY <1>1, <1>2 DEF TypeOK
    <2>2. CASE o \in Immortal
      BY <2>1, <2>2 DEF Counts
    <2>3. CASE o \notin Immortal
      <3>1. Covers(rc[o], Cardinality(Holders(o)))
        BY <2>1, <2>3 DEF Counts
      <3>2. s \in Holders(o)
        BY DEF Holders, Owning
      <3>3. Cardinality(Holders(o)) \in Nat /\ Cardinality(Holders(o)) # 0
        BY <3>2, HoldersFinite, FS_CardinalityType, FS_EmptySet
      <3> QED
        BY <2>1, <3>1, <3>3 DEF Covers
    <2> QED
      BY <2>1, <2>2, <2>3
  <1> QED
    BY <1>1, <1>2

\* Two owners are counted twice.
LEMMA TwoOwners ==
    ASSUME TypeOK, Counts, NEW s \in StrongSlot \ stale, NEW r \in StrongSlot \ stale, r # s,
           mem[r] = mem[s], mem[s] # NIL
    PROVE  ~(rc[mem[s]] \in 0 .. 1)
  <1> DEFINE o == mem[s]
  <1>1. o \in live /\ o \in Obj /\ rc[o] \in Int
    BY OwnedFacts DEF TypeOK
  <1>2. CASE o \in Immortal
    BY <1>1, <1>2 DEF Counts
  <1>3. CASE o \notin Immortal
    <2>1. Covers(rc[o], Cardinality(Holders(o)))
      BY <1>1, <1>3 DEF Counts
    <2>2. s \in Holders(o) /\ r \in Holders(o) /\ IsFiniteSet(Holders(o))
      BY HoldersFinite DEF Holders, Owning
    <2> DEFINE T == Holders(o) \ {s}
    <2>3. IsFiniteSet(T) /\ T # {} /\ Cardinality(T) = Cardinality(Holders(o)) - 1
      BY <2>2, FS_RemoveElement
    <2>4. Cardinality(T) \in Nat /\ Cardinality(T) # 0 /\ Cardinality(Holders(o)) \in Nat
      BY <2>2, <2>3, FS_CardinalityType, FS_EmptySet
    <2> HIDE DEF T
    <2> QED
      BY <1>1, <2>1, <2>3, <2>4 DEF Covers
  <1> QED
    BY <1>2, <1>3

\* Variables are words outside the heap and no registers.
LEMMA VariableFacts ==
    ASSUME TypeOK
    PROVE  \A r \in Variables : /\ r \in Root /\ r \in StrongSlot /\ r \in Slot /\ r \notin Temps
                                /\ ~Heap(r) /\ r[1] \in Int
  <1>1. ASSUME NEW r \in Globals
        PROVE  r \in Root /\ r \notin Temps
    <2>1. r[1] = 0
      BY DEF Globals
    <2> QED
      BY <2>1, SlotKinds, SlotFacts
  <1>2. ASSUME NEW d \in 1 .. depth, NEW r \in FrameSlots(d)
        PROVE  r \in Root /\ r \notin Temps
    <2>1. d \in 1 .. MaxDepth
      BY ArcAssumption DEF TypeOK
    <2> QED
      BY <2>1, SlotKinds, SlotFacts
  <1>3. \A r \in Variables : r \in Root /\ r \notin Temps
    BY <1>1, <1>2 DEF Variables
  <1> QED
    BY <1>3, SlotKinds, SlotFacts DEF Heap

\* A guarded object is live and counted.
LEMMA GuardedFacts ==
    ASSUME TypeOK, Counts, NEW o \in Obj, NEW c, NEW i, Guarded(o, c, i)
    PROVE  /\ o \in live /\ rc[o] # 0
           /\ \A s \in StrongSlot \ stale : mem[s] = o /\ s \notin Variables \cap Held =>
                 ~(rc[o] \in 0 .. 1)
  <1>1. PICK r \in Variables \cap Held : mem[r] = o
    BY DEF Guarded
  <1>2. r \in StrongSlot \ stale /\ o # NIL
    BY <1>1, ArcAssumption DEF Held
  <1>3. o \in live /\ rc[o] # 0
    BY <1>1, <1>2, OwnedFacts
  <1>4. ASSUME NEW s \in StrongSlot \ stale, mem[s] = o, s \notin Variables \cap Held
        PROVE  ~(rc[o] \in 0 .. 1)
    BY <1>1, <1>2, <1>4, TwoOwners
  <1> QED
    BY <1>3, <1>4

-----------------------------------------------------------------------------
(* One instruction. *)

\* What lasts to the end of the code lasts to the end of what remains of it.
LEMMA ShiftHeld ==
    ASSUME NEW H, NEW H2, NEW c \in Seq(Instr), c # <<>>, NEW s,
           s \in H /\ ~Empties(Head(c), s) => s \in H2,
           Fills(Head(c), s) => s \in H2,
           HeldBy(H, c, s, Len(c) + 1)
    PROVE  HeldBy(H2, Tail(c), s, Len(Tail(c)) + 1)
  <1> DEFINE t == Tail(c)
             n == Len(c)
             h == Head(c)
  <1>1. n \in Nat /\ n > 0 /\ c[1] = h /\ Len(t) = n - 1 /\ \A m \in 1 .. n - 1 : t[m] = c[m + 1]
    BY HeadTailProperties
  <1> HIDE DEF t, n, h
  <1>2. CASE s \in H /\ \A m \in 1 .. n : ~Empties(c[m], s)
    <2>1. s \in H2 /\ \A m \in 1 .. n - 1 : ~Empties(t[m], s)
      BY <1>1, <1>2 DEF h
    <2> QED
      BY <1>1, <2>1 DEF HeldBy, t
  <1>3. ASSUME NEW j \in 1 .. n, Fills(c[j], s), \A m \in j + 1 .. n : ~Empties(c[m], s)
        PROVE  HeldBy(H2, t, s, Len(t) + 1)
    <2>1. CASE j = 1
      <3>1. s \in H2 /\ \A m \in 1 .. n - 1 : ~Empties(t[m], s)
        BY <1>1, <1>3, <2>1 DEF h
      <3> QED
        BY <1>1, <3>1 DEF HeldBy
    <2>2. CASE j > 1
      <3>1. j - 1 \in 1 .. n - 1 /\ Fills(t[j - 1], s)
        BY <1>1, <1>3, <2>2
      <3>2. \A m \in (j - 1) + 1 .. n - 1 : ~Empties(t[m], s)
        BY <1>1, <1>3
      <3> QED
        BY <1>1, <3>1, <3>2 DEF HeldBy
    <2> QED
      BY <2>1, <2>2
  <1>4. (n + 1) - 1 = n
    BY <1>1
  <1> QED
    BY <1>2, <1>3, <1>4 DEF HeldBy, n, t

\* What the code leaves alone until one of its instructions, its rest does.
LEMMA ShiftUntil ==
    ASSUME NEW c \in Seq(Instr), c # <<>>, NEW s, NEW i \in 1 .. Len(Tail(c)),
           UntilThen(c, s, i + 1)
    PROVE  ~Touches(Head(c), s) /\ UntilThen(Tail(c), s, i)
  <1>1. /\ Len(c) \in Nat /\ c[1] = Head(c) /\ Len(Tail(c)) = Len(c) - 1
        /\ \A m \in 1 .. Len(c) - 1 : Tail(c)[m] = c[m + 1]
    BY HeadTailProperties
  <1>2. \A j \in 1 .. i : ~Touches(c[j], s)
    BY <1>1 DEF UntilThen
  <1>3. 1 \in 1 .. i /\ \A j \in 1 .. i - 1 : j + 1 \in 1 .. i /\ j \in 1 .. Len(c) - 1
    BY <1>1
  <1>4. \A j \in 1 .. i - 1 : ~Touches(Tail(c)[j], s)
    BY <1>1, <1>2, <1>3
  <1> QED
    BY <1>1, <1>2, <1>3, <1>4 DEF UntilThen

\* What running instruction c does to the words.
Runs(c) ==
    /\ cascade = <<>> /\ code # <<>> /\ c = Head(code) /\ code' = Tail(code)
    /\ UNCHANGED <<live, fault, depth, bind, ctx>>
    /\ cascade' = IF c.op = "release" THEN <<Release(c.slot)>> ELSE <<>>
    /\ c.op = "release" => UNCHANGED <<mem, stale>>
    /\ \A s \in StrongSlot : /\ s \in Held /\ ~Empties(c, s) => s \in Held'
                             /\ Fills(c, s) => s \in Held'
                             /\ ~Touches(c, s) => /\ mem'[s] = mem[s]
                                                  /\ s \in stale' <=> s \in stale
    /\ \A o : Newborn(o) => rc'[o] = rc[o]
    /\ \A t \in Temps : /\ Touches(c, t) => t \in Held' \/ mem'[t] = NIL \/ c.op = "release"
                        /\ Empties(c, t) => t \in stale' \/ Released(t)'

\* How the code moves up.
LEMMA RunsShift ==
    ASSUME TypeOK, NEW c, Runs(c)
    PROVE  /\ code \in Seq(Instr) /\ code' \in Seq(Instr) /\ code[1] = c /\ 1 \in 1 .. Len(code)
           /\ Len(code) \in Nat /\ Len(code') = Len(code) - 1
           /\ \A i \in 1 .. Len(code') : code'[i] = code[i + 1] /\ i + 1 \in 1 .. Len(code)
           /\ \A j \in 1 .. Len(code) : j = 1 \/ (j - 1 \in 1 .. Len(code') /\ code'[j - 1] = code[j])
           /\ \A o : Newborn(o)' <=> Newborn(o)
           /\ \A i \in 1 .. Len(ctx) : NotEntered(i)' <=> NotEntered(i)
           /\ Variables' = Variables
  <1>1. code \in Seq(Instr) /\ code # <<>> /\ code' = Tail(code) /\ c = Head(code)
    BY DEF TypeOK, Runs
  <1>2. /\ Len(code) \in Nat /\ Len(code) > 0 /\ code[1] = c /\ code' \in Seq(Instr)
        /\ Len(code') = Len(code) - 1
        /\ \A i \in 1 .. Len(code) - 1 : code'[i] = code[i + 1]
    BY <1>1, HeadTailProperties
  <1>3. \A j \in 1 .. Len(code) : j = 1 \/ (j - 1 \in 1 .. Len(code') /\ code'[j - 1] = code[j])
    <2> SUFFICES ASSUME NEW j \in 1 .. Len(code), j # 1
                 PROVE  j - 1 \in 1 .. Len(code') /\ code'[j - 1] = code[j]
      OBVIOUS
    <2>1. j - 1 \in 1 .. Len(code') /\ (j - 1) + 1 = j /\ j - 1 \in 1 .. Len(code) - 1
      BY <1>2
    <2> QED
      BY <1>2, <2>1
  <1>4. UNCHANGED <<depth, ctx>>
    BY DEF Runs
  <1>5. \A i \in 1 .. Len(ctx) : NotEntered(i)' <=> NotEntered(i)
    BY <1>4 DEF NotEntered
  <1>6. \A o : Newborn(o)' <=> Newborn(o)
    BY <1>4, <1>5 DEF Newborn
  <1>7. Variables' = Variables
    BY <1>4 DEF Variables
  <1> QED
    BY <1>1, <1>2, <1>3, <1>5, <1>6, <1>7

\* A guard keeps guarding, until the instruction it is for,
LEMMA RunsGuard ==
    ASSUME TypeOK, NEW c, Runs(c), NEW o, NEW i \in 1 .. Len(code'), Guarded(o, code, i + 1)
    PROVE  Guarded(o, code, i)'
  <1>1. PICK r \in Variables \cap Held : mem[r] = o /\ UntilThen(code, r, i + 1)
    BY DEF Guarded
  <1>2. code # <<>> /\ code' = Tail(code) /\ c = Head(code) /\ code \in Seq(Instr)
    BY DEF Runs, TypeOK
  <1>3. ~Touches(c, r) /\ UntilThen(code', r, i)
    BY <1>1, <1>2, ShiftUntil
  <1>4. r \in StrongSlot
    BY <1>1 DEF Held
  <1>5. r \in Held' /\ mem'[r] = o
    BY <1>1, <1>3, <1>4 DEF Runs, Touches
  <1>6. r \in Variables'
    BY <1>1, RunsShift
  <1> QED
    BY <1>3, <1>5, <1>6 DEF Guarded

\* and through a release of another word.
LEMMA RunsGuardNow ==
    ASSUME TypeOK, NEW c, Runs(c), NEW o, Guarded(o, code, 1), c.op = "release",
           c.slot \notin Variables
    PROVE  Guarded(o, <<>>, 1)'
  <1>1. PICK r \in Variables \cap Held : mem[r] = o
    BY DEF Guarded
  <1>2. ~Touches(c, r)
    BY <1>1 DEF Touches, Fills, Empties
  <1>3. r \in StrongSlot
    BY <1>1 DEF Held
  <1>4. r \in Held' /\ mem'[r] = o
    BY <1>1, <1>2, <1>3 DEF Runs, Touches
  <1>5. r \in Variables'
    BY <1>1, RunsShift
  <1> QED
    BY <1>4, <1>5 DEF Guarded, UntilThen

\* Variables and fields last.
LEMMA RunsHeld ==
    ASSUME TypeOK, NEW c, Runs(c), VariablesHeld, FieldsHeld
    PROVE  VariablesHeld' /\ FieldsHeld'
  <1>1. ASSUME NEW s \in StrongSlot, HeldBy(Held, code, s, Len(code) + 1)
        PROVE  HeldBy(Held, code, s, Len(code) + 1)'
    <2>1. code # <<>> /\ code' = Tail(code) /\ c = Head(code) /\ code \in Seq(Instr)
      BY DEF Runs, TypeOK
    <2>2. s \in Held /\ ~Empties(c, s) => s \in Held'
      BY DEF Runs
    <2>3. Fills(c, s) => s \in Held'
      BY DEF Runs
    <2> DEFINE H == Held
               H2 == Held'
    <2> HIDE DEF H, H2
    <2>4. HeldBy(H2, Tail(code), s, Len(Tail(code)) + 1)
      BY <1>1, <2>1, <2>2, <2>3, ShiftHeld DEF H, H2
    <2>5. HeldBy(Held', code', s, Len(code') + 1)
      BY <2>1, <2>4 DEF H2
    <2> QED
      BY <2>5 DEF HeldBy
  <1>2. VariablesHeld'
    BY <1>1, RunsShift, VariableFacts DEF VariablesHeld
  <1>3. \A o \in live, f \in StrongField : ~Freeing(o) /\ <<o, f>> \in StrongSlot
    BY DEF Freeing, Runs, TypeOK, StrongSlot
  <1>4. live' = live
    BY DEF Runs
  <1>5. FieldsHeld'
    BY <1>1, <1>3, <1>4 DEF FieldsHeld
  <1> QED
    BY <1>2, <1>5

\* Registers are wiped.
LEMMA RunsWiped ==
    ASSUME TypeOK, NEW c, Runs(c), RegistersWiped, CodeSound
    PROVE  RegistersWiped'
  <1>1. cascade = <<>> /\ \A s : ~Released(s)
    BY DEF Runs, Released
  <1>2. \A s : Released(s)' => c.op = "release" /\ s = c.slot
    BY DEF Runs, Released, Release
  <1>3. ASSUME NEW t \in Temps, NEW j \in 1 .. Len(code), j # 1,
               code[j].op = "forget", t \in code[j].slots
        PROVE  \E m \in 1 .. Len(code') : code'[m].op = "forget" /\ t \in code'[m].slots
    BY <1>3, RunsShift
  <1>4. ASSUME NEW t \in Temps, t \in stale' \/ Released(t)', mem'[t] # NIL
        PROVE  \E j \in 1 .. Len(code') : code'[j].op = "forget" /\ t \in code'[j].slots
    <2>1. CASE c.op = "release" /\ t = c.slot
      <3>1. code[1] = c /\ 1 \in 1 .. Len(code)
        BY RunsShift
      <3>2. PICK j \in 1 + 1 .. Len(code) : code[j].op = "forget" /\ t \in code[j].slots
        BY <2>1, <3>1 DEF RegistersWiped
      <3>3. j \in 1 .. Len(code) /\ j # 1
        BY RunsShift
      <3> QED
        BY <1>3, <3>2, <3>3
    <2>2. CASE ~(c.op = "release" /\ t = c.slot)
      <3>1. t \in StrongSlot
        BY SlotFacts
      <3>2. t \in stale' /\ t \notin Held'
        BY <1>2, <1>4, <2>2 DEF Held
      <3>3. ~Touches(c, t)
        <4>1. c.op # "release" => ~Touches(c, t)
          BY <1>4, <3>2 DEF Runs
        <4>2. c.op = "release" => ~Touches(c, t)
          BY <2>2 DEF Touches, Fills, Empties
        <4> QED
          BY <4>1, <4>2
      <3>4. mem'[t] = mem[t] /\ t \in stale
        BY <3>1, <3>2, <3>3 DEF Runs
      <3>5. PICK j \in 1 .. Len(code) : code[j].op = "forget" /\ t \in code[j].slots
        BY <1>4, <3>4 DEF RegistersWiped
      <3>6. j # 1
        BY <3>3, <3>5, RunsShift DEF Touches, Empties
      <3> QED
        BY <1>3, <3>5, <3>6
    <2> QED
      BY <2>1, <2>2
  <1>5. ASSUME NEW i \in 1 .. Len(code'), code'[i].op = "release", code'[i].slot \in Temps
        PROVE  \E j \in i + 1 .. Len(code') :
                  code'[j].op = "forget" /\ code'[i].slot \in code'[j].slots
    <2>1. code'[i] = code[i + 1] /\ i + 1 \in 1 .. Len(code)
      BY RunsShift
    <2>2. PICK j \in (i + 1) + 1 .. Len(code) :
                  code[j].op = "forget" /\ code[i + 1].slot \in code[j].slots
      BY <1>5, <2>1 DEF RegistersWiped
    <2>3. j \in 1 .. Len(code) /\ j # 1 /\ j - 1 >= i + 1
      BY RunsShift
    <2>4. j - 1 \in 1 .. Len(code') /\ code'[j - 1] = code[j]
      BY <2>3, RunsShift
    <2>5. j - 1 \in i + 1 .. Len(code')
      BY <2>3, <2>4
    <2> QED
      BY <2>1, <2>2, <2>4, <2>5
  <1>6. ASSUME NEW i \in 1 .. MaxCtx, NEW k \in 1 .. MaxArity,
               i > Len(ctx') \/ k > Len(ctx'[i].vals)
        PROVE  \/ Temp(i, k) \in stale' \/ Released(Temp(i, k))'
               \/ \E j \in 1 .. Len(code') : Empties(code'[j], Temp(i, k))
    <2> DEFINE t == Temp(i, k)
    <2>1. t \in Temps /\ t \in StrongSlot
      BY TempFacts, SlotFacts
    <2>2. ctx' = ctx
      BY DEF Runs
    <2>3. t \in stale \/ \E j \in 1 .. Len(code) : Empties(code[j], t)
      BY <1>1, <1>6, <2>2 DEF RegistersWiped
    <2> HIDE DEF t
    <2>4. CASE Empties(c, t)
      BY <2>1, <2>4 DEF Runs, t
    <2>5. CASE t \in stale /\ ~Empties(c, t)
      <3>1. CASE Fills(c, t)
        <4>1. code[1] = c /\ 1 \in 1 .. Len(code)
          BY RunsShift
        <4>2. SoundInstr(code, 1)
          BY <4>1 DEF CodeSound
        <4> QED
          BY <3>1, <4>1, <4>2 DEF SoundInstr, t
      <3>2. CASE ~Fills(c, t)
        BY <2>1, <2>5, <3>2 DEF Runs, Touches, t
      <3> QED
        BY <3>1, <3>2
    <2>6. ASSUME NEW j \in 1 .. Len(code), Empties(code[j], t), ~Empties(c, t)
          PROVE  \E m \in 1 .. Len(code') : Empties(code'[m], t)
      BY <2>6, RunsShift
    <2> QED
      BY <2>3, <2>4, <2>5, <2>6 DEF t
  <1> QED
    BY <1>4, <1>5, <1>6 DEF RegistersWiped

\* The rest of the code stays sound.
LEMMA RunsCode ==
    ASSUME TypeOK, NEW c, Runs(c), CodeSound, CodeSafe
    PROVE  CodeSound'
  <1> SUFFICES ASSUME NEW i \in 1 .. Len(code')
               PROVE  SoundInstr(code, i)'
    BY DEF CodeSound
  <1>0. PICK e : e = code[i + 1]
    OBVIOUS
  <1>1. /\ code \in Seq(Instr) /\ code[1] = c /\ 1 \in 1 .. Len(code) /\ code'[i] = e
        /\ i + 1 \in 1 .. Len(code) /\ e \in Instr
        /\ \A o : Newborn(o)' <=> Newborn(o)
    BY <1>0, RunsShift
  <1>2. SoundInstr(code, i + 1)
    BY <1>1 DEF CodeSound
  <1>3. ASSUME e.op = "retain"
        PROVE  /\ e.val \in live' \cup {NIL} /\ ~Newborn(e.val)' /\ cascade' = <<>>
               /\ \A j \in 1 .. i - 1 : code'[j].op # "release"
    <2>1. /\ e.val \in live \cup {NIL} /\ ~Newborn(e.val)
          /\ \A j \in 1 .. (i + 1) - 1 : code[j].op # "release"
      BY <1>0, <1>2, <1>3 DEF SoundInstr
    <2>2. 1 \in 1 .. (i + 1) - 1 /\ \A j \in 1 .. i - 1 : j + 1 \in 1 .. (i + 1) - 1
      BY <1>1
    <2>3. c.op # "release"
      BY <1>1, <2>1, <2>2
    <2>4. \A j \in 1 .. i - 1 : j \in 1 .. Len(code')
      BY RunsShift
    <2>5. \A j \in 1 .. i - 1 : code'[j] = code[j + 1]
      BY <2>4, RunsShift
    <2> QED
      BY <1>1, <2>1, <2>2, <2>3, <2>5 DEF Runs
  <1>4. ASSUME e.op = "release"
        PROVE  /\ Clean(e.slot)' /\ ~Released(e.slot)' /\ UntilThen(code', e.slot, i)
    <2>0. PICK s : s = e.slot
      OBVIOUS
    <2>1. /\ Clean(s) /\ ~Released(s) /\ UntilThen(code, s, i + 1)
      BY <1>0, <1>2, <1>4, <2>0 DEF SoundInstr
    <2>2. s \in StrongSlot
      <3>1. SafeInstr(EmptyNow, HeldNow, code, i + 1)
        BY <1>1 DEF CodeSafe, SafeCode
      <3> QED
        BY <1>0, <1>4, <2>0, <3>1 DEF SafeInstr
    <2>3. ~Touches(c, s) /\ UntilThen(code', s, i)
      <3>1. code # <<>> /\ code' = Tail(code) /\ c = Head(code)
        BY DEF Runs
      <3> QED
        BY <1>1, <2>1, <3>1, ShiftUntil
    <2>4. mem'[s] = mem[s] /\ (s \in stale' <=> s \in stale)
      BY <2>2, <2>3 DEF Runs
    <2>5. Clean(s)'
      BY <2>1, <2>4 DEF Clean
    <2>6. ~Released(s)'
      BY <2>3 DEF Runs, Released, Release, Touches, Empties
    <2> QED
      BY <2>0, <2>3, <2>5, <2>6
  <1>5. ASSUME NEW o, Guarded(o, code, i + 1)
        PROVE  Guarded(o, code, i)'
    BY <1>5, RunsGuard
  <1>6. ASSUME e.op \in {"release", "move", "poke"}, Heap(e.slot)
        PROVE  Guarded(e.slot[1], code, i)'
    BY <1>0, <1>2, <1>5, <1>6 DEF SoundInstr
  <1>7. ASSUME e.op = "copy"
        PROVE  Guarded(e.obj, code, i)' /\ Guarded(e.from, code, i)'
    BY <1>0, <1>2, <1>5, <1>7 DEF SoundInstr
  <1>8. ASSUME NEW p \in 1 .. MaxCtx, NEW k \in 1 .. MaxArity
        PROVE  ~Fills(e, Temp(p, k)) /\ (p <= Len(ctx') => ~Empties(e, Temp(p, k)))
    BY <1>0, <1>2 DEF SoundInstr, Runs
  <1> QED
    BY <1>1, <1>3, <1>4, <1>6, <1>7, <1>8 DEF SoundInstr, Heap

\* The release an instruction starts is sound.
LEMMA RunsCascade ==
    ASSUME TypeOK, NEW c, Runs(c), CodeSound, CodeSafe
    PROVE  CascadeSound'
  <1>1. CASE c.op # "release"
    <2>1. cascade' = <<>>
      BY <1>1 DEF Runs
    <2> QED
      BY <2>1 DEF CascadeSound
  <1>2. CASE c.op = "release"
    <2>1. PICK s : s = c.slot
      OBVIOUS
    <2>2. cascade' = <<Release(s)>> /\ UNCHANGED <<mem, stale, ctx>>
      BY <1>2, <2>1 DEF Runs
    <2>3. code[1] = c /\ 1 \in 1 .. Len(code) /\ code \in Seq(Instr)
      BY RunsShift
    <2>4. SoundInstr(code, 1)
      BY <2>3 DEF CodeSound
    <2>5. Clean(s)
      BY <1>2, <2>1, <2>3, <2>4 DEF SoundInstr
    <2>6. ASSUME Heap(s)
          PROVE  Guarded(s[1], <<>>, 1)'
      <3>1. Guarded(s[1], code, 1)
        BY <1>2, <2>1, <2>3, <2>4, <2>6 DEF SoundInstr
      <3>2. s \notin Variables
        BY <2>6, VariableFacts
      <3> QED
        BY <1>2, <2>1, <3>1, <3>2, RunsGuardNow
    <2>7. \A p \in 1 .. Len(ctx'), j \in 1 .. MaxArity : s # Temp(p, j)
      <3>1. Len(ctx) <= MaxCtx /\ Len(ctx) \in Nat /\ MaxCtx \in Nat
        BY ArcAssumption DEF TypeOK
      <3>2. \A p \in 1 .. Len(ctx) : p \in 1 .. MaxCtx /\ p <= Len(ctx)
        BY <3>1
      <3>3. \A p \in 1 .. Len(ctx), j \in 1 .. MaxArity : ~Empties(c, Temp(p, j))
        BY <2>3, <2>4, <3>2 DEF SoundInstr
      <3> QED
        BY <1>2, <2>1, <2>2, <3>3 DEF Empties
    <2>8. Len(cascade') = 1 /\ cascade'[1] = Release(s) /\ cascade'[1].slot = s
      BY <2>2 DEF Release
    <2>9. Clean(s)'
      BY <2>2, <2>5 DEF Clean
    <2>10. SoundRelease(1)'
      BY <2>6, <2>7, <2>8, <2>9 DEF SoundRelease, Heap
    <2> QED
      BY <2>8, <2>10 DEF CascadeSound
  <1> QED
    BY <1>1, <1>2

\* Operands that wait are left alone.
LEMMA RunsOperands ==
    ASSUME TypeOK, NEW c, Runs(c), CodeSound, OperandsSound
    PROVE  OperandsSound'
  <1>1. /\ UNCHANGED <<live, depth, bind, ctx>>
        /\ code # <<>> /\ ~Idle
    BY DEF Runs, Idle
  <1>2. \A i \in 1 .. Len(ctx) : NotEntered(i)' <=> NotEntered(i)
    BY RunsShift
  <1>3. \A o : ~Freeing(o)'
    <2>1. cascade' = <<>> \/ cascade' = <<Release(c.slot)>>
      BY DEF Runs
    <2>2. \A k \in 1 .. Len(cascade') : cascade'[k] = Release(c.slot)
      BY <2>1
    <2> QED
      BY <2>2 DEF Freeing, Release, Free
  <1>4. ASSUME NEW i \in 1 .. Len(ctx), NotEntered(i), NEW k \in 1 .. Len(ctx[i].vals)
        PROVE  SoundOperand(i, k)'
    <2>1. PICK v : v = ctx[i].vals[k]
      OBVIOUS
    <2>2. PICK t : t = Temp(i, k)
      OBVIOUS
    <2>3. SoundOperand(i, k)
      BY <1>4 DEF OperandsSound
    <2>4. CASE ~Receiver(i, k) /\ v = NIL
      BY <1>1, <2>1, <2>4 DEF SoundOperand, Receiver
    <2>5. CASE ~Receiver(i, k) /\ t \notin stale /\ mem[t] = v
      <3>1. i \in 1 .. MaxCtx /\ i <= Len(ctx) /\ k \in 1 .. MaxArity
        <4>1. /\ Len(ctx) \in Nat /\ Len(ctx) <= MaxCtx /\ MaxCtx \in Nat
              /\ ctx[i] \in Context /\ Len(ctx[i].vals) <= Arity(ctx[i].kind)
          BY ArcAssumption DEF TypeOK
        <4>2. Len(ctx[i].vals) \in Nat
          BY <4>1 DEF Context
        <4>3. Arity(ctx[i].kind) <= MaxArity /\ MaxArity \in Nat /\ Arity(ctx[i].kind) \in Nat
          BY TempFacts
        <4> QED
          BY <4>1, <4>2, <4>3
      <3>2. code[1] = c /\ 1 \in 1 .. Len(code)
        BY RunsShift
      <3>3. ~Touches(c, t)
        BY <2>2, <3>1, <3>2 DEF CodeSound, SoundInstr, Touches
      <3>4. t \in StrongSlot
        BY <2>2, <3>1, TempFacts, SlotFacts
      <3>5. t \notin stale' /\ mem'[t] = v
        BY <2>5, <3>3, <3>4 DEF Runs
      <3> QED
        BY <1>1, <2>1, <2>2, <2>5, <3>5 DEF SoundOperand, Receiver
    <2>6. CASE Receiver(i, k) /\ v \in live /\ rc[v] = 0
      <3>1. Newborn(v)
        BY <1>4, <2>1, <2>6 DEF Newborn, Receiver
      <3>2. rc'[v] = rc[v]
        BY <3>1 DEF Runs
      <3> QED
        BY <1>1, <1>3, <2>1, <2>6, <3>2 DEF SoundOperand, Receiver
    <2> QED
      BY <1>1, <2>1, <2>2, <2>3, <2>4, <2>5, <2>6 DEF SoundOperand
  <1>5. \A i \in 1 .. Len(ctx) : NotEntered(i) => ctx[i].dst = NIL \/ ~Heap(ctx[i].dst)
    BY <1>1 DEF OperandsSound
  <1>6. \A i, j \in 1 .. Len(ctx) :
          /\ NotEntered(i) /\ ctx[i].kind = "construct" /\ Len(ctx[i].vals) > 0
          /\ NotEntered(j) /\ ctx[j].kind = "construct" /\ Len(ctx[j].vals) > 0
          /\ ctx[i].vals[1] = ctx[j].vals[1]
          => i = j
    BY DEF OperandsSound
  <1>7. \A d \in 1 .. depth : bind[d] = NIL \/ ~Heap(bind[d])
    BY DEF OperandsSound
  <1>8. \A i \in 1 .. Len(ctx) : ctx[i].kind = "construct" => ctx[i].vals # <<>>
    BY DEF OperandsSound
  <1> QED
    BY <1>1, <1>2, <1>4, <1>5, <1>6, <1>7, <1>8 DEF OperandsSound, Heap

\* An instruction preserves Sound.
LEMMA RunsSound ==
    ASSUME TypeOK, IInv, Sound, NEW c, Runs(c)
    PROVE  Sound'
  <1>1. ~fault'
    BY DEF Sound, Runs
  <1>2. VariablesHeld' /\ FieldsHeld'
    BY RunsHeld DEF Sound
  <1>3. RegistersWiped'
    BY RunsWiped DEF Sound
  <1>4. CodeSound' /\ CascadeSound'
    BY RunsCode, RunsCascade DEF Sound, IInv
  <1>5. OperandsSound'
    BY RunsOperands DEF Sound
  <1> QED
    BY <1>1, <1>2, <1>3, <1>4, <1>5 DEF Sound

\* With no release running, a held slot is one that is not stale.
LEMMA HeldQuiet ==
    /\ cascade = <<>> => Held = {s \in StrongSlot : s \notin stale} /\ \A s : ~Released(s)
    /\ cascade' = <<>> => Held' = {s \in StrongSlot : s \notin stale'} /\ \A s : ~Released(s)'
  BY DEF Held, Released

\* The first instruction is sound and safe.
LEMMA FirstSound ==
    ASSUME TypeOK, IInv, Sound, code # <<>>
    PROVE  LET c == Head(code)
           IN  /\ c \in Instr
               /\ SafeInstr(EmptyNow, HeldNow, code, 1) /\ SoundInstr(code, 1)
               /\ code[1] = c
               /\ \/ c.op \in {"retain", "clear"} /\ c.slot \in Root
                  \/ c.op = "release" /\ c.slot \in StrongSlot
                  \/ c.op = "move" /\ c.slot \in StrongSlot \ Temps /\ c.from \in Temps
                  \/ c.op = "poke" /\ c.slot \in Slot /\ IsWeak(c.slot)
                  \/ c.op = "copy"
                  \/ c.op = "forget" /\ c.slots \subseteq Root
  <1>1. code \in Seq(Instr) /\ code[1] = Head(code) /\ 1 \in 1 .. Len(code) /\ Head(code) \in Instr
    BY HeadTailProperties DEF TypeOK
  <1>2. SafeInstr(EmptyNow, HeldNow, code, 1) /\ SoundInstr(code, 1)
    BY <1>1 DEF IInv, CodeSafe, SafeCode, Sound, CodeSound
  <1>3. Head(code).op = "forget" => Head(code).slots \subseteq Root
    BY <1>1 DEF Instr
  <1> QED
    BY <1>1, <1>2, <1>3 DEF SafeInstr

\* A word alone is filled.
LEMMA FillRuns ==
    ASSUME TypeOK, IInv, Sound, NEW c, c = Head(code), code # <<>>, code' = Tail(code),
           cascade = <<>>, UNCHANGED <<live, cascade, fault, depth, bind, ctx>>,
           c.op \in {"retain", "clear"}, NEW v \in Value,
           mem' = [mem EXCEPT ![c.slot] = v], stale' = stale \ {c.slot},
           \A o : Newborn(o) => rc'[o] = rc[o]
    PROVE  Sound'
  <1>1. c.slot \in Root /\ c.slot \in StrongSlot
    BY FirstSound, SlotFacts
  <1>2. \A s : ~Empties(c, s) /\ (Fills(c, s) <=> s = c.slot) /\ (Touches(c, s) <=> s = c.slot)
    BY DEF Touches, Fills, Empties
  <1>3. \A s \in StrongSlot : s # c.slot => mem'[s] = mem[s]
    BY SlotFacts DEF TypeOK
  <1>4. /\ Held = {s \in StrongSlot : s \notin stale}
        /\ Held' = {s \in StrongSlot : s \notin stale'}
    BY HeldQuiet
  <1>5. Runs(c)
    BY <1>1, <1>2, <1>3, <1>4 DEF Runs
  <1> QED
    BY <1>5, RunsSound

LEMMA RetainSound ==
    ASSUME TypeOK, IInv, Sound, RunRetain
    PROVE  Sound'
  <1>1. PICK c : c = Head(code)
    OBVIOUS
  <1>2. /\ c.op = "retain" /\ c.val \in live \cup {NIL} /\ cascade = <<>> /\ code # <<>>
        /\ code' = Tail(code) /\ UNCHANGED <<live, cascade, fault, depth, bind, ctx>>
        /\ rc' = IF Skips(c.val) THEN rc ELSE [rc EXCEPT ![c.val] = @ + 1]
        /\ mem' = [mem EXCEPT ![c.slot] = c.val] /\ stale' = stale \ {c.slot}
    BY <1>1 DEF RunRetain, Next1, Step, oc_retain, control
  <1>3. ~Newborn(c.val)
    BY <1>1, <1>2, FirstSound DEF SoundInstr
  <1>4. ASSUME NEW o, Newborn(o)
        PROVE  rc'[o] = rc[o]
    BY <1>2, <1>3, <1>4 DEF TypeOK
  <1>5. c.val \in Value
    BY <1>2 DEF Value, TypeOK
  <1> QED
    BY <1>1, <1>2, <1>4, <1>5, FillRuns

LEMMA ClearSound ==
    ASSUME TypeOK, IInv, Sound, RunClear
    PROVE  Sound'
  <1>1. PICK c : c = Head(code)
    OBVIOUS
  <1>2. /\ c.op = "clear" /\ cascade = <<>> /\ code # <<>>
        /\ code' = Tail(code) /\ UNCHANGED <<live, rc, cascade, fault, depth, bind, ctx>>
        /\ mem' = [mem EXCEPT ![c.slot] = NIL] /\ stale' = stale \ {c.slot}
    BY <1>1 DEF RunClear, Next1, Step, control
  <1>3. NIL \in Value
    BY DEF Value
  <1> QED
    BY <1>1, <1>2, <1>3, FillRuns

LEMMA DropSound ==
    ASSUME TypeOK, IInv, Sound, RunDrop
    PROVE  Sound'
  <1>1. PICK c : c = Head(code)
    OBVIOUS
  <1>2. /\ c.op = "release" /\ cascade = <<>> /\ code # <<>>
        /\ code' = Tail(code) /\ UNCHANGED <<live, rc, mem, stale, fault, depth, bind, ctx>>
        /\ cascade' = <<Release(c.slot)>>
    BY <1>1 DEF RunDrop, Next1, Step, control
  <1>3. \A s : Released(s)' <=> s = c.slot
    <2>1. Len(cascade') = 1 /\ cascade'[1] = Release(c.slot)
      BY <1>2
    <2> QED
      BY <2>1 DEF Released, Release
  <1>4. \A s : ~Fills(c, s) /\ (Empties(c, s) <=> s = c.slot)
    BY <1>2 DEF Fills, Empties
  <1>5. /\ Held = {s \in StrongSlot : s \notin stale}
        /\ Held' = {s \in StrongSlot : s \notin stale /\ s # c.slot}
    BY <1>2, <1>3, HeldQuiet DEF Held
  <1>6. Runs(c)
    BY <1>1, <1>2, <1>3, <1>4, <1>5 DEF Runs, Touches
  <1> QED
    BY <1>6, RunsSound

\* A move finds its destination allocated.
LEMMA MoveSound ==
    ASSUME TypeOK, IInv, Sound, RunMove
    PROVE  Sound'
  <1>1. PICK c : c = Head(code)
    OBVIOUS
  <1>2. PICK x : x = c.slot
    OBVIOUS
  <1>3. PICK t : t = c.from
    OBVIOUS
  <1>4. c.op = "move" /\ cascade = <<>> /\ code # <<>>
    BY <1>1 DEF RunMove, Next1
  <1>5. x \in StrongSlot \ Temps /\ t \in Temps /\ t \in StrongSlot /\ x # t
    BY <1>1, <1>2, <1>3, <1>4, FirstSound, SlotFacts
  <1>6. ~Gone(x)
    <2>1. CASE Heap(x)
      <3>1. Guarded(x[1], code, 1)
        BY <1>1, <1>2, <1>4, <2>1, FirstSound DEF SoundInstr
      <3>2. x[1] \in live
        BY <2>1, <3>1, GuardedFacts DEF Heap, IInv
      <3> QED
        BY <3>2 DEF Gone
    <2>2. CASE ~Heap(x)
      BY <2>2 DEF Heap, Gone
    <2> QED
      BY <2>1, <2>2
  <1>7. /\ mem' = [mem EXCEPT ![x] = mem[t], ![t] = NIL] /\ stale' = (stale \cup {t}) \ {x}
        /\ code' = Tail(code) /\ UNCHANGED <<live, rc, cascade, fault, depth, bind, ctx>>
    BY <1>1, <1>2, <1>3, <1>6 DEF RunMove, Step, control
  <1>8. \A s : /\ Fills(c, s) <=> s = x
               /\ Empties(c, s) <=> s = t
    BY <1>2, <1>3, <1>4 DEF Fills, Empties
  <1>9. mem'[t] = NIL /\ \A s \in StrongSlot : s # x /\ s # t => mem'[s] = mem[s]
    BY <1>5, <1>7, SlotFacts DEF TypeOK
  <1>10. /\ Held = {s \in StrongSlot : s \notin stale}
         /\ Held' = {s \in StrongSlot : s \notin stale'}
    BY <1>4, <1>7, HeldQuiet
  <1>11. Runs(c)
    BY <1>1, <1>4, <1>5, <1>7, <1>8, <1>9, <1>10 DEF Runs, Touches
  <1> QED
    BY <1>11, RunsSound

\* A store to a weak field touches no counted word.
LEMMA PokeSound ==
    ASSUME TypeOK, IInv, Sound, RunPoke
    PROVE  Sound'
  <1>1. PICK c : c = Head(code)
    OBVIOUS
  <1>2. PICK x : x = c.slot
    OBVIOUS
  <1>3. c.op = "poke" /\ cascade = <<>> /\ code # <<>>
    BY <1>1 DEF RunPoke, Next1
  <1>4. x \in Slot /\ IsWeak(x) /\ x \notin StrongSlot
    BY <1>1, <1>2, <1>3, FirstSound, SlotKinds
  <1>5. ~Gone(x)
    <2>1. Guarded(x[1], code, 1) /\ x[1] \in Obj
      BY <1>1, <1>2, <1>3, <1>4, FirstSound DEF SoundInstr, IsWeak, Heap
    <2>2. x[1] \in live
      BY <2>1, GuardedFacts DEF IInv
    <2> QED
      BY <2>2 DEF Gone
  <1>6. /\ mem' = [mem EXCEPT ![x] = c.val] /\ stale' = stale \ {x}
        /\ code' = Tail(code) /\ UNCHANGED <<live, rc, cascade, fault, depth, bind, ctx>>
    BY <1>1, <1>2, <1>5 DEF RunPoke, Step, control
  <1>7. \A s : (Fills(c, s) => s = x) /\ ~Empties(c, s)
    BY <1>2, <1>3 DEF Fills, Empties
  <1>8. \A s \in StrongSlot : mem'[s] = mem[s] /\ (s \in stale' <=> s \in stale)
    BY <1>4, <1>6, SlotFacts DEF TypeOK
  <1>9. /\ Held = {s \in StrongSlot : s \notin stale}
        /\ Held' = {s \in StrongSlot : s \notin stale'}
    BY <1>3, <1>6, HeldQuiet
  <1>10. \A s \in StrongSlot : ~Touches(c, s)
    BY <1>4, <1>7 DEF Touches
  <1>11. Runs(c)
    BY <1>1, <1>3, <1>6, <1>7, <1>8, <1>9, <1>10, SlotFacts DEF Runs, Touches
  <1> QED
    BY <1>11, RunsSound

\* The copy of a record body writes its weak fields only.
LEMMA CopySound ==
    ASSUME TypeOK, IInv, Sound, RunCopy
    PROVE  Sound'
  <1>1. PICK c : c = Head(code)
    OBVIOUS
  <1>2. /\ c.op = "copy" /\ cascade = <<>> /\ code # <<>>
        /\ mem' = [s \in Slot |-> IF s[1] = c.obj /\ IsWeak(s) THEN mem[<<c.from, s[2]>>]
                                                               ELSE mem[s]]
        /\ code' = Tail(code) /\ UNCHANGED <<live, rc, stale, cascade, fault, depth, bind, ctx>>
    BY <1>1 DEF RunCopy, Next1, Step, control
  <1>3. \A s : ~Fills(c, s) /\ ~Empties(c, s) /\ ~Touches(c, s)
    BY <1>2 DEF Touches, Fills, Empties
  <1>4. \A s \in StrongSlot : mem'[s] = mem[s]
    BY <1>2, SlotFacts, SlotKinds
  <1>5. /\ Held = {s \in StrongSlot : s \notin stale}
        /\ Held' = {s \in StrongSlot : s \notin stale'}
    BY <1>2, HeldQuiet
  <1>6. Runs(c)
    BY <1>1, <1>2, <1>3, <1>4, <1>5 DEF Runs
  <1> QED
    BY <1>6, RunsSound

LEMMA ForgetSound ==
    ASSUME TypeOK, IInv, Sound, RunForget
    PROVE  Sound'
  <1>1. PICK c : c = Head(code)
    OBVIOUS
  <1>2. /\ c.op = "forget" /\ cascade = <<>> /\ code # <<>>
        /\ mem' = [s \in Slot |-> IF s \in c.slots THEN NIL ELSE mem[s]]
        /\ stale' = stale \cup c.slots
        /\ code' = Tail(code) /\ UNCHANGED <<live, rc, cascade, fault, depth, bind, ctx>>
    BY <1>1 DEF RunForget, Next1, Step, control
  <1>3. \A s : /\ ~Fills(c, s)
               /\ Empties(c, s) <=> s \in c.slots
               /\ Touches(c, s) <=> s \in c.slots
    BY <1>2 DEF Touches, Fills, Empties
  <1>4. \A s \in StrongSlot : mem'[s] = IF s \in c.slots THEN NIL ELSE mem[s]
    BY <1>2, SlotFacts
  <1>5. /\ Held = {s \in StrongSlot : s \notin stale}
        /\ Held' = {s \in StrongSlot : s \notin stale'}
    BY <1>2, HeldQuiet
  <1>6. /\ \A s \in StrongSlot : /\ s \in Held /\ ~Empties(c, s) => s \in Held'
                                 /\ Fills(c, s) => s \in Held'
                                 /\ ~Touches(c, s) => /\ mem'[s] = mem[s]
                                                      /\ s \in stale' <=> s \in stale
    BY <1>2, <1>3, <1>4, <1>5
  <1>7. \A t \in Temps : /\ Touches(c, t) => t \in Held' \/ mem'[t] = NIL
                         /\ Empties(c, t) => t \in stale'
    BY <1>2, <1>3, <1>4, SlotFacts
  <1>8. Runs(c)
    BY <1>1, <1>2, <1>6, <1>7 DEF Runs
  <1> QED
    BY <1>8, RunsSound

\* No instruction but a release can fault.
LEMMA RunsNoFault ==
    ASSUME TypeOK, IInv, Sound
    PROVE  ~RunRetainFaults /\ ~RunCopyFaults
  <1>1. ASSUME RunRetainFaults
        PROVE  FALSE
    <2>1. code # <<>> /\ Head(code).op = "retain" /\ Head(code).val \in Obj \ live
      BY <1>1 DEF RunRetainFaults, Next1
    <2>2. Head(code).val \in live \cup {NIL}
      BY <2>1, FirstSound DEF SoundInstr
    <2> QED
      BY <2>1, <2>2, ArcAssumption
  <1>2. ASSUME RunCopyFaults
        PROVE  FALSE
    <2>1. PICK c : c = Head(code)
      OBVIOUS
    <2>2. code # <<>> /\ c.op = "copy" /\ ~({c.obj, c.from} \subseteq live)
      BY <1>2, <2>1 DEF RunCopyFaults, Next1
    <2>3. Guarded(c.obj, code, 1) /\ Guarded(c.from, code, 1) /\ c \in Instr
      BY <2>1, <2>2, FirstSound DEF SoundInstr
    <2>4. c.obj \in Obj /\ c.from \in Obj
      BY <2>2, <2>3 DEF Instr
    <2>5. c.obj \in live /\ c.from \in live
      BY <2>3, <2>4, GuardedFacts DEF IInv
    <2> QED
      BY <2>2, <2>5
  <1> QED
    BY <1>1, <1>2

-----------------------------------------------------------------------------
(* One step of a release. *)

\* What a call of oc_release on the pointer in s does: it frees the object of
\* s after U, or counts down.
Releases(s, U) ==
    /\ cascade # <<>> /\ cascade[1] = Release(s)
    /\ U \in Seq(CascadeOp) /\ cascade' = U \o Tail(cascade)
    /\ UNCHANGED <<live, mem, fault, depth, bind, ctx, code>>
    /\ stale' = stale \cup {s}
    /\ \A o \in live : rc[o] = 0 => rc'[o] = 0
    /\ \/ U = <<>>
       \/ s \notin stale /\ mem[s] \in Obj /\ rc[mem[s]] \in 0 .. 1 /\ U = Unwind(mem[s])

\* Entries of the cascade are told apart.
LEMMA EntriesDiffer ==
    /\ \A s, r : Release(s) = Release(r) => s = r
    /\ \A o, p : Free(o) = Free(p) => o = p
    /\ \A s, o : Release(s) # Free(o) /\ Free(o) # Release(s)
    /\ \A s : Release(s).op = "release" /\ Release(s).slot = s
    /\ \A o : Free(o).op = "free" /\ Free(o).obj = o
  <1>1. \A s : Release(s).op = "release" /\ Release(s).slot = s
    BY DEF Release
  <1>2. \A o : Free(o).op = "free" /\ Free(o).obj = o
    BY DEF Free
  <1>3. \A s, o : Release(s) # Free(o)
    <2> SUFFICES ASSUME NEW s, NEW o, Release(s) = Free(o) PROVE FALSE
      OBVIOUS
    <2>1. "release" = "free"
      BY <1>1, <1>2
    <2> QED
      BY <2>1
  <1>4. \A s, r : Release(s) = Release(r) => s = r
    BY <1>1
  <1>5. \A o, p : Free(o) = Free(p) => o = p
    BY <1>2
  <1> QED
    BY <1>1, <1>2, <1>3, <1>4, <1>5

\* The slot released is sound to release.
LEMMA ReleasedSlot ==
    ASSUME TypeOK, IInv, Sound, NEW s, NEW U, Releases(s, U)
    PROVE  /\ s \in StrongSlot /\ Released(s) /\ s \notin Held /\ SoundRelease(1)
           /\ cascade \in Seq(CascadeOp) /\ 1 \in 1 .. Len(cascade) /\ Clean(s)
           /\ \A m \in 1 .. Len(cascade) : cascade[m] = Release(s) => m = 1
           /\ \A p \in 1 .. Len(ctx), j \in 1 .. MaxArity : s # Temp(p, j)
  <1>1. cascade \in Seq(CascadeOp) /\ cascade # <<>> /\ cascade[1] = Release(s)
    BY DEF TypeOK, Releases
  <1>2. 1 \in 1 .. Len(cascade) /\ cascade[1].op = "release" /\ cascade[1].slot = s
    BY <1>1 DEF Release
  <1>3. s \in StrongSlot
    BY <1>2 DEF IInv, CascadeSafe, SafeCascade
  <1>4. Released(s)
    BY <1>1, <1>2 DEF Released
  <1>5. SoundRelease(1)
    BY <1>2 DEF Sound, CascadeSound
  <1>6. s \notin Held
    BY <1>4 DEF Held
  <1> QED
    BY <1>1, <1>2, <1>3, <1>4, <1>5, <1>6 DEF SoundRelease

\* The object whose fields are to be released is guarded by nothing, is not
\* being freed already, and its fields hold their references.
LEMMA UnwoundFacts ==
    ASSUME TypeOK, IInv, Sound, NEW s, NEW U, Releases(s, U), U # <<>>, NEW v, v = mem[s]
    PROVE  /\ v \in live /\ v \in Obj /\ rc[v] # 0 /\ U = Unwind(v)
           /\ \A c, i : ~Guarded(v, c, i)
           /\ ~Freeing(v)
           /\ \A f \in StrongField : <<v, f>> \in Held
  <1>1. /\ s \in StrongSlot \ stale /\ s \notin Held /\ v \in Obj /\ rc[v] \in 0 .. 1
        /\ U = Unwind(v)
    BY ReleasedSlot DEF Releases
  <1>2. v \in live /\ rc[v] # 0 /\ Counts
    BY <1>1, OwnedFacts, ArcAssumption DEF IInv
  <1>3. ASSUME NEW c, NEW i, Guarded(v, c, i)
        PROVE  FALSE
    BY <1>1, <1>2, <1>3, GuardedFacts
  <1>4. ASSUME NEW k \in 1 .. Len(cascade), cascade[k] = Free(v)
        PROVE  FALSE
    <2>1. SafeCascade(k)
      BY DEF IInv, CascadeSafe
    <2> QED
      BY <1>2, <1>4, <2>1 DEF SafeCascade, Free
  <1>5. ASSUME NEW f \in StrongField
        PROVE  <<v, f>> \in Held
    <2>1. HeldBy(Held, code, <<v, f>>, Len(code) + 1)
      BY <1>2, <1>4 DEF Sound, FieldsHeld, Freeing
    <2>2. ASSUME NEW j \in 1 .. Len(code), Fills(code[j], <<v, f>>)
          PROVE  FALSE
      <3>1. SafeInstr(EmptyNow, HeldNow, code, j) /\ SoundInstr(code, j)
        BY DEF IInv, CodeSafe, SafeCode, Sound, CodeSound
      <3>2. code[j].slot = <<v, f>> /\ Heap(code[j].slot) /\ code[j].slot[1] = v
        BY <1>1, <2>2 DEF Fills, Heap
      <3>3. code[j].slot \notin Root
        BY <1>1, <3>2, SlotKinds
      <3>4. code[j].op \in {"move", "poke"}
        BY <2>2, <3>1, <3>3 DEF Fills, SafeInstr
      <3>5. Guarded(v, code, j)
        BY <3>1, <3>2, <3>4 DEF SoundInstr
      <3> QED
        BY <1>3, <3>5
    <2>3. Len(code) \in Nat
      BY DEF TypeOK
    <2> QED
      BY <2>1, <2>2, <2>3 DEF HeldBy
  <1> QED
    BY <1>1, <1>2, <1>3, <1>4, <1>5 DEF Freeing

\* Who holds a reference, and what is being released and freed, afterwards.
LEMMA ReleasesShift ==
    ASSUME TypeOK, IInv, Sound, NEW s, NEW U, Releases(s, U), NEW v, v = mem[s]
    PROVE  /\ \A r : Released(r) => Released(r)' \/ r = s
           /\ \A r : Released(r)' => \/ Released(r)
                                     \/ U # <<>> /\ \E f \in StrongField : r = <<v, f>>
           /\ \A r \in StrongSlot : r \in Held =>
                 r \in Held' \/ (U # <<>> /\ \E f \in StrongField : r = <<v, f>>)
           /\ \A r \in Root : r \in Held => r \in Held'
           /\ \A r \in Root : Released(r)' => Released(r)
           /\ \A o : Freeing(o) => Freeing(o)'
           /\ \A o : Freeing(o)' => Freeing(o) \/ (U # <<>> /\ o = v)
           /\ U # <<>> => Freeing(v)'
  <1>1. /\ cascade # <<>> /\ cascade[1] = Release(s) /\ U \in Seq(CascadeOp)
        /\ cascade' = U \o Tail(cascade) /\ stale' = stale \cup {s}
    BY DEF Releases
  <1>2. v = mem[s]
    OBVIOUS
  <1>3. ASSUME NEW k \in 1 .. Len(U)
        PROVE  /\ U # <<>> /\ v \in Obj
               /\ \/ \E f \in StrongField : U[k] = Release(<<v, f>>)
                  \/ U[k] = Free(v)
    <2>1. U # <<>>
      BY <1>1, <1>3
    <2>2. v \in Obj /\ U = Unwind(v)
      BY <1>2, <2>1 DEF Releases
    <2>3. k \in 1 .. Len(PtrOffsets) \/ k = Len(PtrOffsets) + 1
      BY <2>2, UnwindFacts
    <2> QED
      BY <2>1, <2>2, <2>3, UnwindFacts DEF StrongField
  <1>4. \A r : Released(r) => Released(r)' \/ r = s
    BY <1>1, PoppedReleased, EntriesDiffer
  <1>5. \A r : Released(r)' => Released(r) \/ (U # <<>> /\ \E f \in StrongField : r = <<v, f>>)
    <2>1. SUFFICES ASSUME NEW r, Released(r)', ~Released(r)
                   PROVE  U # <<>> /\ \E f \in StrongField : r = <<v, f>>
      OBVIOUS
    <2>2. PICK k \in 1 .. Len(U) : U[k] = Release(r)
      BY <1>1, <2>1, PoppedReleased
    <2> QED
      BY <1>3, <2>2, EntriesDiffer
  <1>6. s \notin Held
    BY ReleasedSlot
  <1>7. \A r \in StrongSlot : r \in Held =>
           r \in Held' \/ (U # <<>> /\ \E f \in StrongField : r = <<v, f>>)
    BY <1>1, <1>5, <1>6 DEF Held
  <1>8. \A r \in Root, f \in StrongField : U # <<>> => r # <<v, f>>
    <2>1. U # <<>> => v \in Obj
      BY <1>2 DEF Releases
    <2> QED
      BY <2>1, SlotKinds
  <1>9. Root \subseteq StrongSlot
    BY SlotFacts
  <1>10. ASSUME NEW o, Freeing(o)
         PROVE  Freeing(o)'
    <2>1. PICK k \in 1 .. Len(cascade) : cascade[k] = Free(o)
      BY <1>10 DEF Freeing
    <2>2. k # 1
      BY <1>1, <2>1 DEF Release, Free
    <2>3. PICK m \in 1 .. Len(cascade) - 1 : k = m + 1
      BY <1>1, <2>2, Popped
    <2>4. cascade'[Len(U) + m] = Free(o) /\ Len(U) + m \in 1 .. Len(cascade')
      BY <1>1, <2>1, <2>3, Popped
    <2> QED
      BY <2>4 DEF Freeing
  <1>11. ASSUME NEW o, Freeing(o)', ~Freeing(o)
         PROVE  U # <<>> /\ o = v
    <2>1. PICK k \in 1 .. Len(cascade') : cascade'[k] = Free(o)
      BY <1>11 DEF Freeing
    <2>2. CASE k \in 1 .. Len(U)
      <3>1. U[k] = Free(o)
        BY <1>1, <2>1, <2>2, Popped
      <3> QED
        BY <1>3, <2>2, <3>1, EntriesDiffer, ZenonT(30)
    <2>3. ASSUME NEW m \in 1 .. Len(cascade) - 1, k = Len(U) + m
          PROVE  FALSE
      <3>1. cascade[m + 1] = Free(o) /\ m + 1 \in 1 .. Len(cascade)
        BY <1>1, <2>1, <2>3, Popped
      <3> QED
        BY <1>11, <3>1 DEF Freeing
    <2> QED
      BY <1>1, <2>2, <2>3, Popped
  <1>12. ASSUME U # <<>>
         PROVE  Freeing(v)'
    <2>1. v \in Obj /\ U = Unwind(v)
      BY <1>2, <1>12 DEF Releases
    <2>2. PICK k \in 1 .. Len(U) : U[k] = Free(v)
      BY <2>1, UnwindFacts
    <2>3. cascade'[k] = Free(v) /\ k \in 1 .. Len(cascade')
      BY <1>1, <2>2, Popped
    <2> QED
      BY <2>3 DEF Freeing
  <1>13. \A r \in Root : r \in Held => r \in Held'
    BY <1>7, <1>8, <1>9
  <1>14. \A r \in Root : Released(r)' => Released(r)
    BY <1>5, <1>8
  <1> QED
    BY <1>4, <1>5, <1>7, <1>10, <1>11, <1>12, <1>13, <1>14

\* A slot held before is held as long, when more is held.
LEMMA HeldGrows ==
    ASSUME NEW H, NEW H2, NEW c, NEW s, NEW i, s \in H => s \in H2, HeldBy(H, c, s, i)
    PROVE  HeldBy(H2, c, s, i)
  BY DEF HeldBy

\* Guards survive a release.
LEMMA ReleasesGuard ==
    ASSUME TypeOK, IInv, Sound, NEW s, NEW U, Releases(s, U), NEW o
    PROVE  /\ \A i : Guarded(o, code, i) => Guarded(o, code, i)'
           /\ Guarded(o, <<>>, 1) => Guarded(o, <<>>, 1)'
  <1>1. mem' = mem /\ code' = code /\ Variables' = Variables
    BY DEF Releases, Variables
  <1>2. \A r \in Variables \cap Held : r \in Variables' \cap Held' /\ mem'[r] = mem[r]
    BY <1>1, ReleasesShift, VariableFacts
  <1> QED
    BY <1>1, <1>2 DEF Guarded

LEMMA ReleasesHeld ==
    ASSUME TypeOK, IInv, Sound, NEW s, NEW U, Releases(s, U)
    PROVE  VariablesHeld' /\ FieldsHeld'
  <1>1. PICK v : v = mem[s]
    OBVIOUS
  <1>2. code' = code /\ live' = live /\ Variables' = Variables
    BY DEF Releases, Variables
  <1>3. ASSUME NEW r, r \in Held => r \in Held', HeldBy(Held, code, r, Len(code) + 1)
        PROVE  HeldBy(Held, code, r, Len(code) + 1)'
    <2> DEFINE H == Held
               H2 == Held'
    <2> HIDE DEF H, H2
    <2>1. HeldBy(H2, code, r, Len(code) + 1)
      BY <1>3, HeldGrows DEF H, H2
    <2>2. HeldBy(Held', code', r, Len(code') + 1)
      BY <1>2, <2>1 DEF H2
    <2> QED
      BY <2>2 DEF HeldBy
  <1>4. VariablesHeld'
    <2>1. \A r \in Variables : HeldBy(Held, code, r, Len(code) + 1) /\ r \in Root
      BY VariableFacts DEF Sound, VariablesHeld
    <2>2. \A r \in Variables : r \in Held => r \in Held'
      BY <2>1, ReleasesShift
    <2> QED
      BY <1>2, <1>3, <2>1, <2>2 DEF VariablesHeld
  <1>5. ASSUME NEW o \in live, NEW f \in StrongField
        PROVE  HeldBy(Held, code, <<o, f>>, Len(code) + 1)' \/ Freeing(o)'
    <2>1. CASE Freeing(o)
      BY <1>1, <2>1, ReleasesShift
    <2>2. CASE U # <<>> /\ o = v
      BY <1>1, <2>2, ReleasesShift
    <2>3. CASE ~Freeing(o) /\ ~(U # <<>> /\ o = v)
      <3>1. HeldBy(Held, code, <<o, f>>, Len(code) + 1)
        BY <2>3 DEF Sound, FieldsHeld
      <3>2. <<o, f>> \in StrongSlot
        BY DEF TypeOK, StrongSlot
      <3>3. \A g : <<o, f>> = <<v, g>> => o = v
        OBVIOUS
      <3>4. <<o, f>> \in Held => <<o, f>> \in Held'
        BY <1>1, <2>3, <3>2, <3>3, ReleasesShift
      <3> QED
        BY <1>3, <3>1, <3>4
    <2> QED
      BY <2>1, <2>2, <2>3
  <1> QED
    BY <1>2, <1>4, <1>5 DEF FieldsHeld

LEMMA ReleasesWiped ==
    ASSUME TypeOK, IInv, Sound, NEW s, NEW U, Releases(s, U)
    PROVE  RegistersWiped'
  <1>1. /\ UNCHANGED <<mem, ctx, code>> /\ stale' = stale \cup {s} /\ Released(s)
        /\ RegistersWiped
    BY ReleasedSlot DEF Releases, Sound
  <1>2. \A r : Released(r) => Released(r)' \/ r = s
    BY ReleasesShift
  <1>3. \A t \in Temps : Released(t)' => Released(t)
    BY ReleasesShift, SlotFacts
  <1>4. \A t \in Temps : (t \in stale' \/ Released(t)') => (t \in stale \/ Released(t))
    BY <1>1, <1>3
  <1>5. \A t : (t \in stale \/ Released(t)) => (t \in stale' \/ Released(t)')
    BY <1>1, <1>2
  <1> QED
    BY <1>1, <1>4, <1>5 DEF RegistersWiped

\* No release of the code meets one of the cascade.
LEMMA ReleasesCode ==
    ASSUME TypeOK, IInv, Sound, NEW s, NEW U, Releases(s, U)
    PROVE  CodeSound'
  <1> SUFFICES ASSUME NEW i \in 1 .. Len(code')
               PROVE  SoundInstr(code, i)'
    BY DEF CodeSound
  <1>1. UNCHANGED <<live, mem, depth, ctx, code>> /\ stale' = stale \cup {s} /\ cascade # <<>>
    BY DEF Releases
  <1>2. PICK e : e = code[i]
    OBVIOUS
  <1>3. SoundInstr(code, i) /\ SafeInstr(EmptyNow, HeldNow, code, i)
    BY <1>1 DEF Sound, CodeSound, IInv, CodeSafe, SafeCode
  <1>4. e.op # "retain"
    BY <1>1, <1>2, <1>3 DEF SoundInstr
  <1>5. ASSUME e.op = "release"
        PROVE  Clean(e.slot)' /\ ~Released(e.slot)' /\ UntilThen(code', e.slot, i)
    <2>1. PICK r : r = e.slot
      OBVIOUS
    <2>2. Clean(r) /\ ~Released(r) /\ UntilThen(code, r, i) /\ r \in StrongSlot
      BY <1>2, <1>3, <1>5, <2>1 DEF SoundInstr, SafeInstr
    <2>3. r # s
      BY <2>2, ReleasedSlot
    <2>4. Clean(r)'
      BY <1>1, <2>2, <2>3 DEF Clean
    <2>5. PICK v : v = mem[s]
      OBVIOUS
    <2>6. ASSUME U # <<>>, NEW f \in StrongField, r = <<v, f>>
          PROVE  FALSE
      <3>1. v \in Obj /\ ~Guarded(v, code, i)
        BY <2>5, <2>6, UnwoundFacts
      <3>2. Heap(r) /\ r[1] = v
        BY <2>6, <3>1 DEF Heap
      <3>3. Guarded(v, code, i)
        BY <1>2, <1>3, <1>5, <2>1, <3>2 DEF SoundInstr
      <3> QED
        BY <3>1, <3>3
    <2>7. ~Released(r)'
      BY <2>2, <2>5, <2>6, ReleasesShift
    <2> QED
      BY <1>1, <2>1, <2>2, <2>4, <2>7
  <1>6. ASSUME NEW o, Guarded(o, code, i)
        PROVE  Guarded(o, code, i)'
    BY <1>6, ReleasesGuard
  <1>7. ASSUME e.op \in {"release", "move", "poke"}, Heap(e.slot)
        PROVE  Guarded(e.slot[1], code, i)'
    BY <1>2, <1>3, <1>6, <1>7 DEF SoundInstr
  <1>8. ASSUME e.op = "copy"
        PROVE  Guarded(e.obj, code, i)' /\ Guarded(e.from, code, i)'
    BY <1>2, <1>3, <1>6, <1>8 DEF SoundInstr
  <1>9. \A p \in 1 .. MaxCtx, k \in 1 .. MaxArity :
          ~Fills(e, Temp(p, k)) /\ (p <= Len(ctx') => ~Empties(e, Temp(p, k)))
    BY <1>1, <1>2, <1>3 DEF SoundInstr
  <1>10. code'[i] = e
    BY <1>1, <1>2
  <1> QED
    BY <1>4, <1>5, <1>7, <1>8, <1>9, <1>10 DEF SoundInstr, Heap

\* The releases that stay, and those of the object's fields, are sound.
LEMMA ReleasesCascade ==
    ASSUME TypeOK, IInv, Sound, NEW s, NEW U, Releases(s, U)
    PROVE  CascadeSound'
  <1>1. PICK v : v = mem[s]
    OBVIOUS
  <1>2. /\ cascade # <<>> /\ cascade[1] = Release(s) /\ U \in Seq(CascadeOp)
        /\ cascade' = U \o Tail(cascade) /\ UNCHANGED <<mem, ctx>> /\ stale' = stale \cup {s}
    BY DEF Releases
  <1>3. ASSUME U # <<>>
        PROVE  /\ v \in Obj /\ U = Unwind(v) /\ ~Freeing(v) /\ \A c, i : ~Guarded(v, c, i)
               /\ \A f \in StrongField : <<v, f>> \in Held
    BY <1>1, <1>3, UnwoundFacts
  <1>4. ASSUME NEW k \in 1 .. Len(U), NEW r, U[k] = Release(r)
        PROVE  /\ U # <<>> /\ k \in 1 .. Len(PtrOffsets) /\ r = <<v, PtrOffsets[k]>>
               /\ PtrOffsets[k] \in StrongField
    <2>1. U # <<>>
      BY <1>2, <1>4
    <2>2. k \in 1 .. Len(PtrOffsets) \/ k = Len(PtrOffsets) + 1
      BY <1>3, <2>1, UnwindFacts
    <2>3. k # Len(PtrOffsets) + 1
      BY <1>3, <1>4, <2>1, UnwindFacts, EntriesDiffer
    <2>4. U[k] = Release(<<v, PtrOffsets[k]>>)
      BY <1>3, <2>1, <2>2, <2>3, UnwindFacts
    <2>5. r = <<v, PtrOffsets[k]>>
      BY <1>4, <2>4, EntriesDiffer
    <2> QED
      BY <2>1, <2>2, <2>3, <2>5 DEF StrongField
  <1>5. ASSUME NEW k \in 1 .. Len(U), NEW r, U[k] = Release(r)
        PROVE  r \in Held /\ ~Released(r) /\ r # s
    <2>1. r \in Held
      BY <1>3, <1>4, <1>5
    <2> QED
      BY <2>1, ReleasedSlot DEF Held
  <1>6. ASSUME NEW k \in 1 .. Len(cascade'), NEW r, cascade'[k] = Release(r),
               NEW m \in 1 .. Len(cascade'), cascade'[m] = Release(r)
        PROVE  m = k
    <2>1. ASSUME NEW a \in 1 .. Len(cascade) - 1, NEW b \in 1 .. Len(U), U[b] = Release(r)
          PROVE  cascade[a + 1] # Release(r)
      <3>1. a + 1 \in 1 .. Len(cascade)
        BY <1>2, Popped
      <3> QED
        BY <1>5, <2>1, <3>1 DEF Released
    <2>2. ASSUME NEW a \in 1 .. Len(U), NEW b \in 1 .. Len(U), U[a] = Release(r), U[b] = Release(r)
          PROVE  a = b
      <3>1. r = <<v, PtrOffsets[a]>> /\ a \in 1 .. Len(PtrOffsets)
        BY <1>4, <2>2
      <3>2. r = <<v, PtrOffsets[b]>> /\ b \in 1 .. Len(PtrOffsets)
        BY <1>4, <2>2
      <3> QED
        BY <3>1, <3>2, ArcAssumption
    <2>3. ASSUME NEW a \in 1 .. Len(cascade) - 1, NEW b \in 1 .. Len(cascade) - 1,
                 cascade[a + 1] = Release(r), cascade[b + 1] = Release(r)
          PROVE  a = b
      <3>1. a + 1 \in 1 .. Len(cascade) /\ b + 1 \in 1 .. Len(cascade) /\ cascade[a + 1].op = "release"
            /\ cascade[a + 1].slot = r
        BY <1>2, <2>3, Popped, EntriesDiffer
      <3>2. SoundRelease(a + 1)
        BY <3>1 DEF Sound, CascadeSound
      <3>3. b + 1 = a + 1
        BY <2>3, <3>1, <3>2 DEF SoundRelease
      <3> QED
        BY <3>3
    <2>4. CASE k \in 1 .. Len(U) /\ m \in 1 .. Len(U)
      BY <1>2, <1>6, <2>2, <2>4, Popped
    <2>5. CASE k \in 1 .. Len(U) /\ m \notin 1 .. Len(U)
      <3>1. PICK a \in 1 .. Len(cascade) - 1 : m = Len(U) + a
        BY <1>2, <2>5, Popped
      <3>2. cascade[a + 1] = Release(r) /\ U[k] = Release(r)
        BY <1>2, <1>6, <2>5, <3>1, Popped
      <3> QED
        BY <2>1, <2>5, <3>2
    <2>6. CASE k \notin 1 .. Len(U) /\ m \in 1 .. Len(U)
      <3>1. PICK a \in 1 .. Len(cascade) - 1 : k = Len(U) + a
        BY <1>2, <2>6, Popped
      <3>2. cascade[a + 1] = Release(r) /\ U[m] = Release(r)
        BY <1>2, <1>6, <2>6, <3>1, Popped
      <3> QED
        BY <2>1, <2>6, <3>2
    <2>7. CASE k \notin 1 .. Len(U) /\ m \notin 1 .. Len(U)
      <3>1. PICK a \in 1 .. Len(cascade) - 1 : k = Len(U) + a
        BY <1>2, <2>7, Popped
      <3>2. PICK b \in 1 .. Len(cascade) - 1 : m = Len(U) + b
        BY <1>2, <2>7, Popped
      <3>3. cascade[a + 1] = Release(r) /\ cascade[b + 1] = Release(r)
        BY <1>2, <1>6, <3>1, <3>2, Popped
      <3>4. a = b
        BY <2>3, <3>3
      <3> QED
        BY <3>1, <3>2, <3>4
    <2> QED
      BY <2>4, <2>5, <2>6, <2>7
  <1>7. ASSUME NEW k \in 1 .. Len(cascade'), NEW r, cascade'[k] = Release(r)
        PROVE  /\ Clean(r)'
               /\ Heap(r) => \/ Guarded(r[1], <<>>, 1)'
                             \/ \E m \in k + 1 .. Len(cascade') : cascade'[m] = Free(r[1])
               /\ \A p \in 1 .. Len(ctx'), j \in 1 .. MaxArity : r # Temp(p, j)
    <2>1. CASE k \in 1 .. Len(U)
      <3>1. U[k] = Release(r)
        BY <1>2, <1>7, <2>1, Popped
      <3>2. U # <<>> /\ k \in 1 .. Len(PtrOffsets) /\ r = <<v, PtrOffsets[k]>> /\ r \in Held /\ r # s
        BY <1>4, <1>5, <2>1, <3>1
      <3>3. Clean(r)'
        BY <1>2, <3>2 DEF Clean, Held
      <3>4. v \in Obj /\ U = Unwind(v)
        BY <1>3, <3>2
      <3>5. PICK m : m = Len(PtrOffsets) + 1
        OBVIOUS
      <3>6. m \in 1 .. Len(U) /\ m > k /\ U[m] = Free(v) /\ m \in Nat
        BY <3>2, <3>4, <3>5, UnwindFacts
      <3>7. cascade'[m] = Free(v) /\ m \in k + 1 .. Len(cascade')
        BY <1>2, <3>6, Popped
      <3>8. r[1] = v
        BY <3>2
      <3>9. \A p \in 1 .. Len(ctx'), j \in 1 .. MaxArity : r # Temp(p, j)
        <4>1. Len(ctx') \in Nat
          BY <1>2 DEF TypeOK
        <4>2. \A p \in 1 .. Len(ctx'), j \in 1 .. MaxArity : Temp(p, j)[1] \in Int
          BY <4>1 DEF Temp
        <4> QED
          BY <3>4, <3>8, <4>2, ArcAssumption
      <3> QED
        BY <3>3, <3>7, <3>8, <3>9
    <2>2. ASSUME NEW a \in 1 .. Len(cascade) - 1, k = Len(U) + a
          PROVE  /\ Clean(r)'
                 /\ Heap(r) => \/ Guarded(r[1], <<>>, 1)'
                               \/ \E m \in k + 1 .. Len(cascade') : cascade'[m] = Free(r[1])
                 /\ \A p \in 1 .. Len(ctx'), j \in 1 .. MaxArity : r # Temp(p, j)
      <3>1. a + 1 \in 1 .. Len(cascade) /\ cascade[a + 1] = Release(r) /\ a + 1 # 1
        BY <1>2, <1>7, <2>2, Popped
      <3>2. cascade[a + 1].op = "release" /\ cascade[a + 1].slot = r
        BY <3>1, EntriesDiffer
      <3>3. SoundRelease(a + 1)
        BY <3>1, <3>2 DEF Sound, CascadeSound
      <3>4. r # s
        BY <1>2, <3>1, ReleasedSlot
      <3>5. Clean(r)'
        BY <1>2, <3>2, <3>3, <3>4 DEF SoundRelease, Clean
      <3>6. PICK o : o = r[1]
        OBVIOUS
      <3>7. Guarded(o, <<>>, 1) => Guarded(o, <<>>, 1)'
        BY ReleasesGuard
      <3>8. ASSUME NEW m \in (a + 1) + 1 .. Len(cascade), cascade[m] = Free(o)
            PROVE  \E j \in k + 1 .. Len(cascade') : cascade'[j] = Free(o)
        <4>1. m - 1 \in 1 .. Len(cascade) - 1 /\ (m - 1) + 1 = m /\ m - 1 > a
          BY <1>2, Popped
        <4>2. cascade'[Len(U) + (m - 1)] = Free(o)
          BY <1>2, <3>8, <4>1, Popped
        <4>3. Len(U) + (m - 1) \in k + 1 .. Len(cascade')
          BY <1>2, <2>2, <4>1, Popped
        <4> QED
          BY <4>2, <4>3
      <3>9. Heap(r) => \/ Guarded(o, <<>>, 1)'
                       \/ \E m \in k + 1 .. Len(cascade') : cascade'[m] = Free(o)
        BY <3>2, <3>3, <3>6, <3>7, <3>8 DEF SoundRelease
      <3>10. \A p \in 1 .. Len(ctx'), j \in 1 .. MaxArity : r # Temp(p, j)
        BY <1>2, <3>2, <3>3 DEF SoundRelease
      <3> QED
        BY <3>5, <3>6, <3>9, <3>10
    <2> QED
      BY <1>2, <2>1, <2>2, Popped
  <1>8. ASSUME NEW k \in 1 .. Len(cascade'), cascade'[k].op = "release"
        PROVE  SoundRelease(k)'
    <2>1. PICK r : r = cascade'[k].slot
      OBVIOUS
    <2>2. cascade'[k] = Release(r)
      <3>1. cascade'[k] \in CascadeOp
        <4>1. Tail(cascade) \in Seq(CascadeOp)
          BY <1>2, HeadTailProperties DEF TypeOK
        <4>2. cascade' \in Seq(CascadeOp)
          BY <1>2, <4>1, ConcatProperties
        <4> QED
          BY <4>2
      <3> QED
        BY <1>8, <2>1, <3>1, EntryKinds
    <2>3. \A m \in 1 .. Len(cascade') : cascade'[m] = Release(r) => m = k
      BY <1>6, <2>2
    <2>4. PICK o : o = r[1]
      OBVIOUS
    <2>5. /\ Clean(r)'
          /\ r[1] \in Obj => \/ Guarded(o, <<>>, 1)'
                             \/ \E m \in k + 1 .. Len(cascade') : cascade'[m] = Free(o)
          /\ \A p \in 1 .. Len(ctx'), j \in 1 .. MaxArity : r # Temp(p, j)
      BY <1>7, <2>2, <2>4 DEF Heap
    <2> QED
      BY <2>1, <2>3, <2>4, <2>5 DEF SoundRelease, Heap
  <1> QED
    BY <1>8 DEF CascadeSound

\* Operands that wait are not touched by a release.
LEMMA ReleasesOperands ==
    ASSUME TypeOK, IInv, Sound, NEW s, NEW U, Releases(s, U)
    PROVE  OperandsSound'
  <1>1. /\ UNCHANGED <<live, mem, depth, bind, ctx, code>> /\ stale' = stale \cup {s}
        /\ cascade # <<>> /\ ~Idle /\ \A o \in live : rc[o] = 0 => rc'[o] = 0
    BY DEF Releases, Idle
  <1>2. \A i \in 1 .. Len(ctx) : NotEntered(i)' <=> NotEntered(i)
    BY <1>1 DEF NotEntered
  <1>3. PICK v : v = mem[s]
    OBVIOUS
  <1>4. ASSUME NEW i \in 1 .. Len(ctx), NotEntered(i), NEW k \in 1 .. Len(ctx[i].vals)
        PROVE  SoundOperand(i, k)'
    <2>1. PICK w : w = ctx[i].vals[k]
      OBVIOUS
    <2>2. PICK t : t = Temp(i, k)
      OBVIOUS
    <2>3. SoundOperand(i, k)
      BY <1>4 DEF Sound, OperandsSound
    <2>4. CASE ~Receiver(i, k) /\ w = NIL
      BY <1>1, <2>1, <2>4 DEF SoundOperand, Receiver
    <2>5. CASE ~Receiver(i, k) /\ t \notin stale /\ mem[t] = w
      <3>1. k \in 1 .. MaxArity
        <4>1. ctx[i] \in Context /\ Len(ctx[i].vals) <= Arity(ctx[i].kind)
          BY DEF TypeOK
        <4>2. Len(ctx[i].vals) \in Nat
          BY <4>1 DEF Context
        <4>3. Arity(ctx[i].kind) <= MaxArity /\ MaxArity \in Nat /\ Arity(ctx[i].kind) \in Nat
          BY TempFacts
        <4> QED
          BY <4>1, <4>2, <4>3
      <3>2. t # s
        BY <2>2, <3>1, ReleasedSlot
      <3>3. t \notin stale' /\ mem'[t] = w
        BY <1>1, <2>5, <3>2
      <3> QED
        BY <1>1, <2>1, <2>2, <2>5, <3>3 DEF SoundOperand, Receiver
    <2>6. CASE Receiver(i, k) /\ w \in live /\ rc[w] = 0 /\ ~Freeing(w)
      <3>1. rc'[w] = 0
        BY <1>1, <2>6
      <3>2. U # <<>> => w # v
        BY <1>3, <2>6, UnwoundFacts
      <3>3. ~Freeing(w)'
        BY <1>3, <2>6, <3>2, ReleasesShift
      <3> QED
        BY <1>1, <2>1, <2>6, <3>1, <3>3 DEF SoundOperand, Receiver
    <2> QED
      BY <1>1, <2>1, <2>2, <2>3, <2>4, <2>5, <2>6 DEF SoundOperand
  <1>5. \A i \in 1 .. Len(ctx) : NotEntered(i) => ctx[i].dst = NIL \/ ~Heap(ctx[i].dst)
    BY <1>1 DEF Sound, OperandsSound
  <1>6. \A i, j \in 1 .. Len(ctx) :
          /\ NotEntered(i) /\ ctx[i].kind = "construct" /\ Len(ctx[i].vals) > 0
          /\ NotEntered(j) /\ ctx[j].kind = "construct" /\ Len(ctx[j].vals) > 0
          /\ ctx[i].vals[1] = ctx[j].vals[1]
          => i = j
    BY DEF Sound, OperandsSound
  <1>7. \A d \in 1 .. depth : bind[d] = NIL \/ ~Heap(bind[d])
    BY DEF Sound, OperandsSound
  <1>8. \A i \in 1 .. Len(ctx) : ctx[i].kind = "construct" => ctx[i].vals # <<>>
    BY DEF Sound, OperandsSound
  <1> QED
    BY <1>1, <1>2, <1>4, <1>5, <1>6, <1>7, <1>8 DEF OperandsSound, Heap

LEMMA ReleasesSound ==
    ASSUME TypeOK, IInv, Sound, NEW s, NEW U, Releases(s, U)
    PROVE  Sound'
  <1>1. ~fault'
    BY DEF Sound, Releases
  <1> QED
    BY <1>1, ReleasesHeld, ReleasesWiped, ReleasesCode, ReleasesCascade, ReleasesOperands
    DEF Sound

LEMMA SkipSound ==
    ASSUME TypeOK, IInv, Sound, ReleaseSkips, UNCHANGED <<depth, bind, ctx, code>>
    PROVE  Sound'
  <1>1. PICK s : s = Head(cascade).slot
    OBVIOUS
  <1>2. /\ cascade # <<>> /\ Head(cascade).op = "release" /\ stale' = stale \cup {s}
        /\ cascade' = Tail(cascade) /\ UNCHANGED <<live, rc, mem, fault>>
        /\ cascade \in Seq(CascadeOp)
    BY <1>1 DEF ReleaseSkips, TypeOK
  <1>3. cascade[1] = Release(s)
    BY <1>1, <1>2, EntryKinds
  <1>4. Tail(cascade) \in Seq(CascadeOp)
    BY <1>2, HeadTailProperties
  <1>5. PICK U : U = <<>>
    OBVIOUS
  <1>6. U \in Seq(CascadeOp) /\ cascade' = U \o Tail(cascade)
    BY <1>2, <1>4, <1>5, ConcatEmptySeq
  <1>7. Releases(s, U)
    BY <1>2, <1>3, <1>5, <1>6 DEF Releases
  <1> QED
    BY <1>7, ReleasesSound

LEMMA CountSound ==
    ASSUME TypeOK, IInv, Sound, ReleaseCounts, UNCHANGED <<depth, bind, ctx, code>>
    PROVE  Sound'
  <1>1. PICK s : s = Head(cascade).slot
    OBVIOUS
  <1>2. PICK v : v = mem[s]
    OBVIOUS
  <1>3. /\ cascade # <<>> /\ Head(cascade).op = "release" /\ stale' = stale \cup {s}
        /\ v \in live /\ ~Skips(v) /\ s \notin stale
        /\ rc' = [rc EXCEPT ![v] = @ - 1]
        /\ cascade' = IF rc[v] - 1 > 0 THEN Tail(cascade) ELSE Unwind(v) \o Tail(cascade)
        /\ UNCHANGED <<live, mem, fault>>
        /\ cascade \in Seq(CascadeOp)
    BY <1>1, <1>2 DEF ReleaseCounts, TypeOK
  <1>4. cascade[1] = Release(s)
    BY <1>1, <1>3, EntryKinds
  <1>5. Tail(cascade) \in Seq(CascadeOp)
    BY <1>3, HeadTailProperties
  <1>6. v \in Obj /\ rc[v] \in Int /\ rc[v] >= 0 /\ rc \in [Obj -> Int] /\ live \subseteq Obj
    BY <1>3 DEF TypeOK, Skips
  <1>7. rc[v] # 0
    <2>1. 1 \in 1 .. Len(cascade) /\ cascade[1].op = "release" /\ cascade[1].slot = s
      BY <1>3, <1>4, EntriesDiffer
    <2>2. s \in StrongSlot
      BY <2>1 DEF IInv, CascadeSafe, SafeCascade
    <2>3. v # NIL
      BY <1>6, ArcAssumption
    <2> QED
      BY <1>2, <1>3, <2>2, <2>3, OwnedFacts DEF IInv
  <1>8. \A o \in live : rc[o] = 0 => rc'[o] = 0
    BY <1>3, <1>6, <1>7
  <1>9. PICK U : U = IF rc[v] - 1 > 0 THEN <<>> ELSE Unwind(v)
    OBVIOUS
  <1>10. /\ U \in Seq(CascadeOp) /\ cascade' = U \o Tail(cascade)
         /\ U = <<>> \/ (rc[v] \in 0 .. 1 /\ U = Unwind(v))
    <2>1. CASE rc[v] - 1 > 0
      BY <1>3, <1>5, <1>9, <2>1, ConcatEmptySeq
    <2>2. CASE ~(rc[v] - 1 > 0)
      BY <1>3, <1>6, <1>9, <2>2, UnwindFacts
    <2> QED
      BY <2>1, <2>2
  <1>11. Releases(s, U)
    BY <1>2, <1>3, <1>4, <1>6, <1>8, <1>10 DEF Releases
  <1> QED
    BY <1>11, ReleasesSound

\* A release never faults.
LEMMA ReleaseNoFault ==
    ASSUME TypeOK, IInv, Sound
    PROVE  ~ReleaseFaults
  <1> SUFFICES ASSUME ReleaseFaults PROVE FALSE
    OBVIOUS
  <1>1. PICK s : s = Head(cascade).slot
    OBVIOUS
  <1>2. /\ cascade # <<>> /\ Head(cascade).op = "release" /\ cascade \in Seq(CascadeOp)
        /\ \/ Gone(s)
           \/ mem[s] \in Obj \ live
           \/ mem[s] \in live /\ ~Skips(mem[s]) /\ s \in stale
    BY <1>1 DEF ReleaseFaults, TypeOK
  <1>3. cascade[1] = Release(s)
    BY <1>1, <1>2, EntryKinds
  <1>4. 1 \in 1 .. Len(cascade) /\ cascade[1].op = "release" /\ cascade[1].slot = s
    BY <1>2, <1>3, EntriesDiffer
  <1>5. s \in StrongSlot /\ SoundRelease(1)
    BY <1>4 DEF IInv, CascadeSafe, SafeCascade, Sound, CascadeSound
  <1>6. Clean(s) /\ (Heap(s) => \/ Guarded(s[1], <<>>, 1)
                                \/ \E m \in 1 + 1 .. Len(cascade) : cascade[m] = Free(s[1]))
    BY <1>4, <1>5 DEF SoundRelease
  <1>7. NIL \notin live /\ NIL \notin Obj
    BY ArcAssumption DEF TypeOK
  <1>8. mem[s] \in live \cup {NIL} /\ (s \in stale => mem[s] = NIL)
    BY <1>5, <1>6, <1>7, OwnedFacts DEF Clean, IInv
  <1>9. ASSUME s[1] \in Obj
        PROVE  s[1] \in live
    <2>1. CASE Guarded(s[1], <<>>, 1)
      BY <1>9, <2>1, GuardedFacts DEF IInv
    <2>2. ASSUME NEW m \in 1 + 1 .. Len(cascade), cascade[m] = Free(s[1])
          PROVE  s[1] \in live
      <3>1. m \in 1 .. Len(cascade)
        BY <1>2
      <3>2. SafeCascade(m)
        BY <3>1 DEF IInv, CascadeSafe
      <3> QED
        BY <2>2, <3>2, EntriesDiffer DEF SafeCascade
    <2> QED
      BY <1>6, <1>9, <2>1, <2>2 DEF Heap
  <1> QED
    BY <1>2, <1>7, <1>8, <1>9 DEF Gone

\* What freeing the object at the head of the cascade changes.
LEMMA FreedFacts ==
    ASSUME TypeOK, IInv, Sound, FreeStep, UNCHANGED <<depth, bind, ctx, code>>,
           NEW o, o = Head(cascade).obj
    PROVE  /\ cascade # <<>> /\ cascade \in Seq(CascadeOp) /\ Len(cascade) \in Nat
           /\ cascade[1] = Free(o) /\ 1 \in 1 .. Len(cascade)
           /\ live' = live \ {o} /\ UNCHANGED <<rc, stale, fault>>
           /\ mem' = [s \in Slot |-> IF s[1] = o THEN NIL ELSE mem[s]]
           /\ o \in Obj /\ o \in live /\ rc[o] = 0
           /\ Len(cascade') = Len(cascade) - 1
           /\ \A k \in 1 .. Len(cascade') : cascade'[k] = cascade[k + 1]
                                            /\ k + 1 \in 1 .. Len(cascade) /\ k + 1 # 1
           /\ \A k \in 1 .. Len(cascade) : k = 1 \/ (/\ k - 1 \in 1 .. Len(cascade')
                                                     /\ cascade'[k - 1] = cascade[k])
           /\ \A k \in 1 .. Len(cascade) : cascade[k] = Free(o) => k = 1
           /\ \A s \in StrongSlot \ stale : mem[s] # o
           /\ \A r : Released(r)' <=> Released(r)
           /\ Held' = Held
           /\ \A r \in Root : mem'[r] = mem[r]
           /\ \A p : p # o => (Freeing(p)' <=> Freeing(p))
           /\ \A p, c, i : Guarded(p, c, i) => Guarded(p, c, i)' /\ p # o
  <1>1. /\ cascade \in Seq(CascadeOp) /\ cascade # <<>> /\ Head(cascade).op = "free"
        /\ live' = live \ {o} /\ UNCHANGED <<rc, stale, fault>>
        /\ mem' = [s \in Slot |-> IF s[1] = o THEN NIL ELSE mem[s]]
        /\ cascade' = Tail(cascade)
    BY DEF FreeStep, TypeOK
  <1>2. /\ Len(cascade) \in Nat /\ 1 \in 1 .. Len(cascade) /\ cascade[1] = Head(cascade)
        /\ Len(cascade') = Len(cascade) - 1
        /\ \A k \in 1 .. Len(cascade) - 1 : cascade'[k] = cascade[k + 1]
    BY <1>1, HeadTailProperties
  <1>3. cascade[1] = Free(o) /\ o \in Obj
    BY <1>1, <1>2, EntryKinds
  <1>4. \A k \in 1 .. Len(cascade') : cascade'[k] = cascade[k + 1]
                                      /\ k + 1 \in 1 .. Len(cascade) /\ k + 1 # 1
    BY <1>2
  <1>5. ASSUME NEW k \in 1 .. Len(cascade), k # 1
        PROVE  k - 1 \in 1 .. Len(cascade') /\ cascade'[k - 1] = cascade[k]
    <2>1. k - 1 \in 1 .. Len(cascade) - 1 /\ (k - 1) + 1 = k
      BY <1>2, <1>5
    <2> QED
      BY <1>2, <2>1
  <1>6. /\ o \in live /\ rc[o] = 0
        /\ \A m \in 1 .. Len(cascade) : cascade[m] = Free(o) => m = 1
    <2>1. SafeCascade(1)
      BY <1>2 DEF IInv, CascadeSafe
    <2> QED
      BY <1>3, <2>1, EntriesDiffer DEF SafeCascade
  <1>7. ASSUME NEW s \in StrongSlot \ stale, mem[s] = o
        PROVE  FALSE
    BY <1>3, <1>6, <1>7, OwnedFacts, ArcAssumption DEF IInv
  <1>8. ASSUME NEW e, e # Free(o)
        PROVE  (\E k \in 1 .. Len(cascade') : cascade'[k] = e)
                  <=> (\E k \in 1 .. Len(cascade) : cascade[k] = e)
    BY <1>3, <1>4, <1>5, <1>8
  <1>9. \A r : Released(r)' <=> Released(r)
    BY <1>8, EntriesDiffer DEF Released
  <1>10. Held' = Held
    BY <1>1, <1>9 DEF Held
  <1>11. \A r \in Root : mem'[r] = mem[r]
    BY <1>1, <1>3, SlotFacts, SlotKinds
  <1>12. \A p : p # o => (Freeing(p)' <=> Freeing(p))
    BY <1>8, EntriesDiffer DEF Freeing
  <1>13. ASSUME NEW p, NEW c, NEW i, Guarded(p, c, i)
         PROVE  Guarded(p, c, i)' /\ p # o
    <2>1. PICK r \in Variables \cap Held : mem[r] = p /\ UntilThen(c, r, i)
      BY <1>13 DEF Guarded
    <2>2. r \in Root /\ r \in StrongSlot \ stale
      BY <2>1, VariableFacts DEF Held
    <2>3. r \in Variables' \cap Held'
      BY <1>10, <2>1 DEF Variables
    <2>4. mem'[r] = p
      BY <1>11, <2>1, <2>2
    <2> QED
      BY <1>7, <2>1, <2>2, <2>3, <2>4 DEF Guarded
  <1> QED
    BY <1>1, <1>2, <1>3, <1>4, <1>5, <1>6, <1>7, <1>9, <1>10, <1>11, <1>12, <1>13

LEMMA FreeSound ==
    ASSUME TypeOK, IInv, Sound, FreeStep, UNCHANGED <<depth, bind, ctx, code>>
    PROVE  Sound'
  <1>1. PICK o : o = Head(cascade).obj
    OBVIOUS
  <1>2. /\ cascade # <<>> /\ live' = live \ {o} /\ UNCHANGED <<rc, stale, fault>>
        /\ mem' = [s \in Slot |-> IF s[1] = o THEN NIL ELSE mem[s]]
        /\ o \in Obj
    BY <1>1, FreedFacts
  <1>3. /\ \A r : Released(r)' <=> Released(r)
        /\ Held' = Held
        /\ \A r \in Root : mem'[r] = mem[r]
        /\ \A p : p # o => (Freeing(p)' <=> Freeing(p))
        /\ \A p, c, i : Guarded(p, c, i) => Guarded(p, c, i)' /\ p # o
    BY <1>1, FreedFacts
  <1>4. /\ \A s \in Slot : mem[s] = NIL => mem'[s] = NIL
        /\ \A t \in Temps : mem'[t] = mem[t]
        /\ \A s \in Slot : Clean(s) => Clean(s)'
    BY <1>2, <1>3, SlotFacts DEF Clean
  <1>5. VariablesHeld' /\ FieldsHeld'
    <2>1. \A s : HeldBy(Held, code, s, Len(code) + 1)' <=> HeldBy(Held, code, s, Len(code) + 1)
      BY <1>3 DEF HeldBy
    <2>2. Variables' = Variables
      BY DEF Variables
    <2> QED
      BY <1>2, <1>3, <2>1, <2>2 DEF VariablesHeld, FieldsHeld, Sound
  <1>6. RegistersWiped'
    BY <1>2, <1>3, <1>4 DEF RegistersWiped, Sound
  <1>7. ASSUME NEW i \in 1 .. Len(code)
        PROVE  SoundInstr(code, i)'
    <2>1. PICK e : e = code[i]
      OBVIOUS
    <2>2. SoundInstr(code, i) /\ SafeInstr(EmptyNow, HeldNow, code, i) /\ code' = code
      BY DEF Sound, CodeSound, IInv, CodeSafe, SafeCode
    <2>3. e.op # "retain"
      BY <1>2, <2>1, <2>2 DEF SoundInstr
    <2>4. e.op = "release" => Clean(e.slot)' /\ ~Released(e.slot)' /\ UntilThen(code', e.slot, i)
      BY <1>3, <1>4, <2>1, <2>2, SlotFacts DEF SoundInstr, SafeInstr
    <2>5. e.op \in {"release", "move", "poke"} /\ Heap(e.slot) => Guarded(e.slot[1], code, i)'
      <3>1. e.op \in {"release", "move", "poke"} /\ Heap(e.slot) => Guarded(e.slot[1], code, i)
        BY <2>1, <2>2 DEF SoundInstr
      <3>2. PICK p : p = e.slot[1]
        OBVIOUS
      <3>3. Guarded(p, code, i) => Guarded(p, code, i)'
        BY <1>3
      <3> QED
        BY <3>1, <3>2, <3>3
    <2>6. e.op = "copy" => Guarded(e.obj, code, i)' /\ Guarded(e.from, code, i)'
      BY <1>3, <2>1, <2>2 DEF SoundInstr
    <2>7. \A p \in 1 .. MaxCtx, k \in 1 .. MaxArity :
             ~Fills(e, Temp(p, k)) /\ (p <= Len(ctx') => ~Empties(e, Temp(p, k)))
      BY <2>1, <2>2 DEF SoundInstr
    <2>8. code'[i] = e
      BY <2>1, <2>2
    <2> QED
      BY <2>3, <2>4, <2>5, <2>6, <2>7, <2>8 DEF SoundInstr, Heap
  <1>8. CodeSound'
    BY <1>7 DEF CodeSound
  <1>9. ASSUME NEW k \in 1 .. Len(cascade'), cascade'[k].op = "release"
        PROVE  SoundRelease(k)'
    <2>1. PICK s : s = cascade'[k].slot
      OBVIOUS
    <2>2. cascade'[k] = cascade[k + 1] /\ k + 1 \in 1 .. Len(cascade) /\ k + 1 # 1
      BY <1>1, FreedFacts
    <2>3. cascade[k + 1].op = "release" /\ cascade[k + 1].slot = s
      BY <1>9, <2>1, <2>2
    <2>4. SoundRelease(k + 1) /\ s \in StrongSlot
      BY <2>2, <2>3 DEF Sound, CascadeSound, IInv, CascadeSafe, SafeCascade
    <2>5. Clean(s)'
      BY <1>4, <2>3, <2>4, SlotFacts DEF SoundRelease
    <2>6. \A m \in 1 .. Len(cascade') : cascade'[m] = Release(s) => m = k
      <3>1. SUFFICES ASSUME NEW m \in 1 .. Len(cascade'), cascade'[m] = Release(s)
                     PROVE  m = k
        OBVIOUS
      <3>2. cascade[m + 1] = Release(s) /\ m + 1 \in 1 .. Len(cascade)
        BY <1>1, <3>1, FreedFacts
      <3>3. m + 1 = k + 1
        BY <2>3, <2>4, <3>2 DEF SoundRelease
      <3> QED
        BY <3>3
    <2>7. PICK p : p = s[1]
      OBVIOUS
    <2>8. Guarded(p, <<>>, 1) => Guarded(p, <<>>, 1)'
      BY <1>3
    <2>9. ASSUME NEW m \in (k + 1) + 1 .. Len(cascade), cascade[m] = Free(p)
          PROVE  \E j \in k + 1 .. Len(cascade') : cascade'[j] = Free(p)
      <3>1. m \in 1 .. Len(cascade) /\ m # 1
        BY <1>1, FreedFacts
      <3>2. m - 1 \in 1 .. Len(cascade') /\ cascade'[m - 1] = cascade[m]
        BY <1>1, <3>1, FreedFacts
      <3>3. m - 1 \in k + 1 .. Len(cascade')
        BY <3>2
      <3> QED
        BY <2>9, <3>2, <3>3
    <2>10. Heap(s) => \/ Guarded(p, <<>>, 1)'
                      \/ \E j \in k + 1 .. Len(cascade') : cascade'[j] = Free(p)
      BY <2>3, <2>4, <2>7, <2>8, <2>9 DEF SoundRelease
    <2>11. \A q \in 1 .. Len(ctx'), j \in 1 .. MaxArity : s # Temp(q, j)
      BY <2>3, <2>4 DEF SoundRelease
    <2> QED
      BY <2>1, <2>5, <2>6, <2>7, <2>10, <2>11 DEF SoundRelease, Heap
  <1>10. CascadeSound'
    BY <1>9 DEF CascadeSound
  <1>11. OperandsSound'
    <2>1. UNCHANGED <<depth, bind, ctx, code>> /\ ~Idle
      BY <1>2 DEF Idle
    <2>2. \A i \in 1 .. Len(ctx) : NotEntered(i)' <=> NotEntered(i)
      BY DEF NotEntered
    <2>3. ASSUME NEW i \in 1 .. Len(ctx), NotEntered(i), NEW k \in 1 .. Len(ctx[i].vals)
          PROVE  SoundOperand(i, k)'
      <3>1. PICK w : w = ctx[i].vals[k]
        OBVIOUS
      <3>2. PICK t : t = Temp(i, k)
        OBVIOUS
      <3>3. SoundOperand(i, k)
        BY <2>3 DEF Sound, OperandsSound
      <3>4. CASE ~Receiver(i, k) /\ w = NIL
        BY <2>1, <3>1, <3>4 DEF SoundOperand, Receiver
      <3>5. CASE ~Receiver(i, k) /\ t \notin stale /\ mem[t] = w
        <4>1. k \in 1 .. MaxArity /\ i \in 1 .. MaxCtx
          <5>1. /\ ctx[i] \in Context /\ Len(ctx[i].vals) <= Arity(ctx[i].kind)
                /\ Len(ctx) \in Nat /\ Len(ctx) <= MaxCtx /\ MaxCtx \in Nat
            BY ArcAssumption DEF TypeOK
          <5>2. Len(ctx[i].vals) \in Nat
            BY <5>1 DEF Context
          <5>3. Arity(ctx[i].kind) <= MaxArity /\ MaxArity \in Nat /\ Arity(ctx[i].kind) \in Nat
            BY TempFacts
          <5> QED
            BY <5>1, <5>2, <5>3
        <4>2. t \in Temps
          BY <3>2, <4>1, TempFacts
        <4>3. t \notin stale' /\ mem'[t] = w
          BY <1>2, <1>4, <3>5, <4>2
        <4> QED
          BY <2>1, <3>1, <3>2, <3>5, <4>3 DEF SoundOperand, Receiver
      <3>6. CASE Receiver(i, k) /\ w \in live /\ rc[w] = 0 /\ ~Freeing(w)
        <4>1. w # o
          <5>1. Freeing(o)
            BY <1>1, FreedFacts DEF Freeing
          <5> QED
            BY <3>6, <5>1
        <4> QED
          BY <1>2, <1>3, <2>1, <3>1, <3>6, <4>1 DEF SoundOperand, Receiver
      <3> QED
        BY <2>1, <3>1, <3>2, <3>3, <3>4, <3>5, <3>6 DEF SoundOperand
    <2>4. \A i \in 1 .. Len(ctx) : NotEntered(i) => ctx[i].dst = NIL \/ ~Heap(ctx[i].dst)
      BY <2>1 DEF Sound, OperandsSound
    <2>5. \A i, j \in 1 .. Len(ctx) :
            /\ NotEntered(i) /\ ctx[i].kind = "construct" /\ Len(ctx[i].vals) > 0
            /\ NotEntered(j) /\ ctx[j].kind = "construct" /\ Len(ctx[j].vals) > 0
            /\ ctx[i].vals[1] = ctx[j].vals[1]
            => i = j
      BY DEF Sound, OperandsSound
    <2>6. \A d \in 1 .. depth : bind[d] = NIL \/ ~Heap(bind[d])
      BY DEF Sound, OperandsSound
    <2>7. \A i \in 1 .. Len(ctx) : ctx[i].kind = "construct" => ctx[i].vals # <<>>
      BY DEF Sound, OperandsSound
    <2> QED
      BY <2>1, <2>2, <2>3, <2>4, <2>5, <2>6, <2>7 DEF OperandsSound, Heap
  <1>12. ~fault'
    BY <1>2 DEF Sound
  <1> QED
    BY <1>5, <1>6, <1>8, <1>10, <1>11, <1>12 DEF Sound

\* Every step of the machine.
LEMMA RunSound ==
    ASSUME TypeOK, IInv, Sound, Run
    PROVE  Sound'
  <1>1. CASE RunCascade
    <2>1. CascadeStep /\ UNCHANGED <<depth, bind, ctx, code>>
      BY <1>1 DEF RunCascade
    <2> QED
      BY <2>1, SkipSound, CountSound, FreeSound, ReleaseNoFault DEF CascadeStep
  <1> QED
    BY <1>1, RetainSound, ClearSound, DropSound, MoveSound, PokeSound, CopySound, ForgetSound,
       RunsNoFault DEF Run

-----------------------------------------------------------------------------
(* Between statements. *)

\* Nothing runs: variables and fields hold their references, registers out of
\* use are NIL.
LEMMA QuietFacts ==
    ASSUME TypeOK, IInv, Sound, Ready
    PROVE  /\ cascade = <<>> /\ code = <<>> /\ Idle
           /\ Held = StrongSlot \ stale
           /\ \A s \in Variables : s \in StrongSlot \ stale
           /\ \A o \in live, f \in StrongField : <<o, f>> \in StrongSlot \ stale
           /\ \A t \in Temps : t \in stale => mem[t] = NIL
           /\ \A i \in 1 .. MaxCtx, k \in 1 .. MaxArity :
                 i > Len(ctx) \/ k > Len(ctx[i].vals) => Temp(i, k) \in stale
           /\ \A o : ~Freeing(o)
  <1>1. cascade = <<>> /\ code = <<>> /\ Len(code) = 0 /\ Len(cascade) = 0
    BY DEF Ready
  <1>2. Held = StrongSlot \ stale /\ \A s : ~Released(s)
    BY <1>1, HeldQuiet
  <1>3. \A o : ~Freeing(o)
    BY <1>1 DEF Freeing
  <1>4. \A s : HeldBy(Held, code, s, Len(code) + 1) => s \in Held
    BY <1>1 DEF HeldBy
  <1>5. \A s \in Variables : s \in StrongSlot \ stale
    BY <1>2, <1>4 DEF Sound, VariablesHeld
  <1>6. \A o \in live, f \in StrongField : <<o, f>> \in StrongSlot \ stale
    BY <1>2, <1>3, <1>4 DEF Sound, FieldsHeld
  <1>7. \A t \in Temps : t \in stale => mem[t] = NIL
    BY <1>1 DEF Sound, RegistersWiped
  <1>8. \A i \in 1 .. MaxCtx, k \in 1 .. MaxArity :
           i > Len(ctx) \/ k > Len(ctx[i].vals) => Temp(i, k) \in stale
    BY <1>1, <1>2 DEF Sound, RegistersWiped
  <1> QED
    BY <1>1, <1>2, <1>3, <1>5, <1>6, <1>7, <1>8 DEF Idle

\* The designators in scope are variables, and fields of objects that a
\* variable holds.
LEMMA PlaceSound ==
    ASSUME TypeOK, IInv, Sound, Ready
    PROVE  /\ Direct \subseteq Variables
           /\ \A s \in Direct : mem[s] \in live \cup {NIL}
           /\ \A s \in Place :
                 \/ s \in Variables /\ ~Heap(s)
                 \/ /\ Heap(s) /\ s[1] \in live
                    /\ \E r \in Variables : r \notin stale /\ mem[r] = s[1]
           /\ \A s \in Place : ~Gone(s) /\ (~IsWeak(s) => s \in (StrongSlot \ stale) \ Temps)
  <1>0. CtxOK /\ Counts /\ depth \in 0 .. MaxDepth /\ MaxDepth \in Nat
    BY ArcAssumption DEF IInv, TypeOK
  <1>1. Direct \subseteq Variables
    <2>1. ASSUME depth # 0
          PROVE  FrameSlots(depth) \subseteq Variables /\ depth \in 1 .. depth
      <3>1. depth \in 1 .. depth
        BY <1>0, <2>1
      <3> QED
        BY <3>1 DEF Variables
    <2>2. ASSUME depth # 0, bind[depth] # NIL
          PROVE  bind[depth] \in Variables
      <3>1. PICK b : b = bind[depth]
        OBVIOUS
      <3>2. b \in Slot /\ b \notin Temps /\ (b \in Frames => b[1] <= depth - 1) /\ ~Heap(b)
        BY <1>0, <2>1, <2>2, <3>1 DEF CtxOK, VariableAt, Sound, OperandsSound
      <3>3. b \in Root
        BY <3>2, SlotKinds DEF Heap, Slot, StrongSlot
      <3>4. CASE b \in Globals
        BY <3>1, <3>4 DEF Variables
      <3>5. CASE b \in Frames
        <4>1. b[1] \in 1 .. MaxDepth /\ b \in FrameSlots(b[1])
          BY <3>5, FrameOf
        <4>2. b[1] \in 1 .. depth
          BY <1>0, <3>2, <3>5, <4>1
        <4> QED
          BY <3>1, <4>1, <4>2 DEF Variables
      <3> QED
        BY <3>2, <3>3, <3>4, <3>5 DEF Root
    <2>3. Globals \subseteq Variables
      BY DEF Variables
    <2> QED
      BY <2>1, <2>2, <2>3 DEF Direct
  <1>2. \A s \in Direct : s \in StrongSlot \ stale /\ mem[s] \in live \cup {NIL}
    BY <1>0, <1>1, QuietFacts, OwnedFacts
  <1>3. ASSUME NEW s \in Place
        PROVE  \/ s \in Variables /\ ~Heap(s)
               \/ /\ Heap(s) /\ s[1] \in live
                  /\ \E r \in Variables : r \notin stale /\ mem[r] = s[1]
    <2>1. CASE s \in Direct
      BY <1>1, <2>1, VariableFacts
    <2>2. ASSUME NEW r \in Direct, mem[r] # NIL, NEW f \in StrongField \cup WeakField,
                 s = <<mem[r], f>>
          PROVE  /\ Heap(s) /\ s[1] \in live
                 /\ \E q \in Variables : q \notin stale /\ mem[q] = s[1]
      <3>1. mem[r] \in live /\ r \in Variables /\ r \notin stale /\ s[1] = mem[r] /\ live \subseteq Obj
        BY <1>1, <1>2, <2>2 DEF TypeOK
      <3> QED
        BY <3>1 DEF Heap
    <2> QED
      BY <2>1, <2>2 DEF Place
  <1>4. ASSUME NEW s \in Place
        PROVE  ~Gone(s) /\ (~IsWeak(s) => s \in (StrongSlot \ stale) \ Temps)
    <2>1. ~Gone(s)
      BY <1>3 DEF Gone, Heap
    <2>2. ASSUME ~IsWeak(s)
          PROVE  s \in (StrongSlot \ stale) \ Temps
      <3>1. s \in StrongSlot \ Temps
        BY <1>0, <2>2, PlaceVariable
      <3>2. CASE s \in Variables
        BY <3>1, <3>2, QuietFacts
      <3>3. CASE Heap(s) /\ s[1] \in live
        <4>1. s \in Obj \X StrongField
          BY <3>1, <3>3, SlotKinds DEF Heap
        <4> QED
          BY <3>1, <3>3, <4>1, QuietFacts
      <3> QED
        BY <1>3, <3>2, <3>3
    <2> QED
      BY <2>1, <2>2
  <1> QED
    BY <1>1, <1>2, <1>3, <1>4

\* Operands that wait are live, and a receiver is not retained yet.
LEMMA OperandLive ==
    ASSUME TypeOK, IInv, Sound, NEW i \in 1 .. Len(ctx), NotEntered(i),
           NEW k \in 1 .. Len(ctx[i].vals)
    PROVE  /\ ctx[i].vals[k] \in live \cup {NIL}
           /\ Receiver(i, k) => ctx[i].vals[k] \in live /\ rc[ctx[i].vals[k]] = 0
           /\ ~Receiver(i, k) /\ ctx[i].vals[k] # NIL => rc[ctx[i].vals[k]] # 0
  <1>1. PICK v : v = ctx[i].vals[k]
    OBVIOUS
  <1>2. PICK t : t = Temp(i, k)
    OBVIOUS
  <1>3. SoundOperand(i, k)
    BY DEF Sound, OperandsSound
  <1>4. ASSUME t \notin stale, mem[t] = v
        PROVE  v \in live \cup {NIL} /\ (v # NIL => rc[v] # 0)
    <2>1. k \in 1 .. MaxArity /\ i \in 1 .. MaxCtx
      <3>1. /\ ctx[i] \in Context /\ Len(ctx[i].vals) <= Arity(ctx[i].kind)
            /\ Len(ctx) \in Nat /\ Len(ctx) <= MaxCtx /\ MaxCtx \in Nat
        BY ArcAssumption DEF TypeOK
      <3>2. Len(ctx[i].vals) \in Nat
        BY <3>1 DEF Context
      <3>3. Arity(ctx[i].kind) <= MaxArity /\ MaxArity \in Nat /\ Arity(ctx[i].kind) \in Nat
        BY TempFacts
      <3> QED
        BY <3>1, <3>2, <3>3
    <2>2. t \in StrongSlot
      BY <1>2, <2>1, TempFacts, SlotFacts
    <2> QED
      BY <1>4, <2>2, OwnedFacts DEF IInv
  <1> QED
    BY <1>1, <1>2, <1>3, <1>4 DEF SoundOperand

\* A receiver no slot holds is live and has count 0.
LEMMA NewbornFacts ==
    ASSUME TypeOK, IInv, Sound, NEW o, Newborn(o)
    PROVE  o \in live /\ rc[o] = 0
  <1>1. PICK i \in 1 .. Len(ctx) : /\ NotEntered(i) /\ ctx[i].kind = "construct"
                                   /\ Len(ctx[i].vals) > 0 /\ ctx[i].vals[1] = o
    BY DEF Newborn
  <1>2. 1 \in 1 .. Len(ctx[i].vals)
    BY <1>1, CtxFacts
  <1> QED
    BY <1>1, <1>2, OperandLive DEF Receiver

-----------------------------------------------------------------------------
(* What a statement emits. *)

\* Retains come first, a slot is not touched before it is released, and a
\* register that is released is cleared later.
Orderly(c) ==
    \A i \in 1 .. Len(c) :
       /\ c[i].op = "retain" => \A j \in 1 .. i - 1 : c[j].op # "release"
       /\ c[i].op = "release" => UntilThen(c, c[i].slot, i)
       /\ c[i].op = "release" /\ c[i].slot \in Temps =>
             \E j \in i + 1 .. Len(c) : c[j].op = "forget" /\ c[i].slot \in c[j].slots

\* A variable that c leaves alone holds o.
Kept(o, c) == \E r \in Variables : /\ r \notin stale /\ mem[r] = o
                                   /\ \A j \in 1 .. Len(c) : ~Touches(c[j], r)

\* Slot s holds a reference when c has run.
Lasts(c, s) ==
    \/ s \notin stale /\ \A m \in 1 .. Len(c) : ~Empties(c[m], s)
    \/ \E j \in 1 .. Len(c) : /\ Fills(c[j], s)
                              /\ \A m \in j + 1 .. Len(c) : ~Empties(c[m], s)

LEMMA EmitSound ==
    ASSUME TypeOK, IInv, Sound, Ready, NEW c \in Seq(Instr), code' = c, cascade' = <<>>,
           fault' = fault, TypeOK',
           \A t \in Temps : mem'[t] = mem[t] /\ (t \in stale' <=> t \in stale),
           Orderly(c),
           \A i \in 1 .. Len(c) :
              /\ c[i].op = "retain" => c[i].val \in live' \cup {NIL} /\ ~Newborn(c[i].val)'
              /\ c[i].op = "release" => Clean(c[i].slot)'
              /\ c[i].op \in {"release", "move", "poke"} /\ Heap(c[i].slot) =>
                    Kept(c[i].slot[1], c)'
              /\ c[i].op = "copy" => Kept(c[i].obj, c)' /\ Kept(c[i].from, c)'
              /\ \A p \in 1 .. MaxCtx, k \in 1 .. MaxArity :
                    ~Fills(c[i], Temp(p, k)) /\ (p <= Len(ctx') => ~Empties(c[i], Temp(p, k))),
           \A s \in Variables' : Lasts(c, s)',
           \A o \in live', f \in StrongField : Lasts(c, <<o, f>>)',
           \A i \in 1 .. MaxCtx, k \in 1 .. MaxArity :
              i > Len(ctx') \/ k > Len(ctx'[i].vals) =>
                 Temp(i, k) \in stale' \/ \E j \in 1 .. Len(c) : Empties(c[j], Temp(i, k)),
           OperandsSound'
    PROVE  Sound'
  <1>1. Held' = StrongSlot \ stale' /\ \A s : ~Released(s)'
    BY HeldQuiet
  <1>2. ASSUME NEW o, NEW i \in 1 .. Len(c), Kept(o, c)'
        PROVE  Guarded(o, c, i)'
    <2>1. PICK r \in Variables' : /\ r \notin stale' /\ mem'[r] = o
                                  /\ \A j \in 1 .. Len(c) : ~Touches(c[j], r)
      BY <1>2 DEF Kept
    <2>2. r \in StrongSlot
      <3>1. r \in Globals \/ \E d \in 1 .. depth' : r \in FrameSlots(d)
        BY <2>1 DEF Variables
      <3>2. \A d \in 1 .. depth' : d \in 1 .. MaxDepth
        BY ArcAssumption DEF TypeOK
      <3> QED
        BY <3>1, <3>2, SlotFacts
    <2>3. r \in Held'
      BY <1>1, <2>1, <2>2
    <2>4. \A j \in 1 .. i - 1 : j \in 1 .. Len(c)
      OBVIOUS
    <2> QED
      BY <2>1, <2>3, <2>4 DEF Guarded, UntilThen
  <1>3. ASSUME NEW s \in StrongSlot, Lasts(c, s)'
        PROVE  HeldBy(Held, code, s, Len(code) + 1)'
    <2>1. (Len(c) + 1) - 1 = Len(c)
      OBVIOUS
    <2>2. HeldBy(Held', c, s, Len(c) + 1)
      BY <1>1, <1>3, <2>1 DEF Lasts, HeldBy
    <2> QED
      BY <2>2 DEF HeldBy
  <1>4. VariablesHeld'
    <2>1. \A r \in Variables' : r \in StrongSlot
      <3>1. \A r \in Variables' : r \in Globals \/ \E d \in 1 .. depth' : r \in FrameSlots(d)
        BY DEF Variables
      <3>2. \A d \in 1 .. depth' : d \in 1 .. MaxDepth
        BY ArcAssumption DEF TypeOK
      <3> QED
        BY <3>1, <3>2, SlotFacts
    <2> QED
      BY <1>3, <2>1 DEF VariablesHeld
  <1>5. FieldsHeld'
    <2>1. \A o \in live', f \in StrongField : <<o, f>> \in StrongSlot
      BY DEF TypeOK, StrongSlot
    <2> QED
      BY <1>3, <2>1 DEF FieldsHeld
  <1>6. RegistersWiped'
    <2>1. \A t \in Temps : t \in stale' => mem'[t] = NIL
      BY QuietFacts
    <2>2. \A i \in 1 .. Len(c) : c[i].op = "release" /\ c[i].slot \in Temps =>
             \E j \in i + 1 .. Len(c) : c[j].op = "forget" /\ c[i].slot \in c[j].slots
      BY DEF Orderly
    <2> QED
      BY <1>1, <2>1, <2>2 DEF RegistersWiped
  <1>7. ASSUME NEW i \in 1 .. Len(c)
        PROVE  SoundInstr(code, i)'
    <2>1. PICK e : e = c[i]
      OBVIOUS
    <2>2. e.op = "retain" => /\ e.val \in live' \cup {NIL} /\ ~Newborn(e.val)'
                             /\ \A j \in 1 .. i - 1 : c[j].op # "release"
      BY <2>1 DEF Orderly
    <2>3. e.op = "release" => Clean(e.slot)' /\ ~Released(e.slot)' /\ UntilThen(c, e.slot, i)
      BY <1>1, <2>1 DEF Orderly
    <2>4. e.op \in {"release", "move", "poke"} /\ Heap(e.slot) => Guarded(e.slot[1], c, i)'
      BY <1>2, <2>1
    <2>5. e.op = "copy" => Guarded(e.obj, c, i)' /\ Guarded(e.from, c, i)'
      BY <1>2, <2>1
    <2>6. \A p \in 1 .. MaxCtx, k \in 1 .. MaxArity :
             ~Fills(e, Temp(p, k)) /\ (p <= Len(ctx') => ~Empties(e, Temp(p, k)))
      BY <2>1
    <2>7. code'[i] = e
      BY <2>1
    <2>8. /\ Guarded(e.slot[1], c, i)' => Guarded(e.slot[1], code, i)'
          /\ Guarded(e.obj, c, i)' => Guarded(e.obj, code, i)'
          /\ Guarded(e.from, c, i)' => Guarded(e.from, code, i)'
      BY DEF Guarded
    <2> QED
      BY <2>2, <2>3, <2>4, <2>5, <2>6, <2>7, <2>8 DEF SoundInstr, Heap
  <1>8. CodeSound'
    BY <1>7 DEF CodeSound
  <1>9. CascadeSound'
    BY DEF CascadeSound
  <1>10. ~fault'
    BY DEF Sound
  <1> QED
    BY <1>4, <1>5, <1>6, <1>8, <1>9, <1>10 DEF Sound

\* An operand that is not borrowed stays what it is.
LEMMA StillSound ==
    ASSUME TypeOK, IInv, Sound, NEW i \in 1 .. Len(ctx), NotEntered(i),
           NEW k \in 1 .. Len(ctx[i].vals),
           ctx'[i].kind = ctx[i].kind, ctx'[i].vals[k] = ctx[i].vals[k],
           live \subseteq live', \A o \in live : rc'[o] = rc[o],
           \A t \in Temps : mem'[t] = mem[t] /\ (t \in stale' <=> t \in stale),
           cascade' = <<>>,
           \/ i # Len(ctx) \/ ctx[i].at # depth
           \/ ctx[i].vals[k] = NIL \/ Temp(i, k) \notin stale \/ Receiver(i, k)
    PROVE  SoundOperand(i, k)'
  <1>1. PICK v : v = ctx[i].vals[k]
    OBVIOUS
  <1>2. PICK t : t = Temp(i, k)
    OBVIOUS
  <1>3. SoundOperand(i, k)
    BY DEF Sound, OperandsSound
  <1>4. \A o : ~Freeing(o)'
    BY DEF Freeing
  <1>5. CASE ~Receiver(i, k) /\ v = NIL
    BY <1>1, <1>5 DEF SoundOperand, Receiver
  <1>6. CASE ~Receiver(i, k) /\ t \notin stale /\ mem[t] = v
    <2>1. k \in 1 .. MaxArity /\ i \in 1 .. MaxCtx
      <3>1. /\ ctx[i] \in Context /\ Len(ctx[i].vals) <= Arity(ctx[i].kind)
            /\ Len(ctx) \in Nat /\ Len(ctx) <= MaxCtx /\ MaxCtx \in Nat
        BY ArcAssumption DEF TypeOK
      <3>2. Len(ctx[i].vals) \in Nat
        BY <3>1 DEF Context
      <3>3. Arity(ctx[i].kind) <= MaxArity /\ MaxArity \in Nat /\ Arity(ctx[i].kind) \in Nat
        BY TempFacts
      <3> QED
        BY <3>1, <3>2, <3>3
    <2>2. t \in Temps
      BY <1>2, <2>1, TempFacts
    <2>3. t \notin stale' /\ mem'[t] = v
      BY <1>6, <2>2
    <2> QED
      BY <1>1, <1>2, <1>6, <2>3 DEF SoundOperand, Receiver
  <1>7. CASE Receiver(i, k) /\ v \in live /\ rc[v] = 0
    BY <1>1, <1>4, <1>7 DEF SoundOperand, Receiver
  <1> QED
    BY <1>1, <1>2, <1>3, <1>5, <1>6, <1>7 DEF SoundOperand

\* The expressions that go on waiting have nothing borrowed.
LEMMA CutOperands ==
    ASSUME TypeOK, IInv, Sound, Ready, NEW n \in Nat, n <= Len(ctx), Len(ctx') = n,
           \A i \in 1 .. n : ctx'[i] = ctx[i],
           live \subseteq live', \A o \in live : rc'[o] = rc[o],
           \A t \in Temps : mem'[t] = mem[t] /\ (t \in stale' <=> t \in stale),
           cascade' = <<>>,
           \A i \in 1 .. n : NotEntered(i)' =>
              NotEntered(i) /\ (i # Len(ctx) \/ ctx[i].at # depth),
           \A d \in 1 .. depth' : bind'[d] = NIL \/ ~Heap(bind'[d])
    PROVE  /\ OperandsSound'
           /\ \A o : Newborn(o)' => Newborn(o)
  <1>0. Len(ctx) \in Nat /\ 1 .. n \subseteq 1 .. Len(ctx)
    BY CtxFacts
  <1>2. ASSUME NEW i \in 1 .. n, NotEntered(i)', NEW k \in 1 .. Len(ctx[i].vals)
        PROVE  SoundOperand(i, k)'
    <2>1. i \in 1 .. Len(ctx) /\ NotEntered(i) /\ (i # Len(ctx) \/ ctx[i].at # depth)
          /\ ctx'[i] = ctx[i]
      BY <1>0, <1>2
    <2> QED
      BY <2>1, StillSound
  <1>3. \A i \in 1 .. n : NotEntered(i)' => ctx[i].dst = NIL \/ ~Heap(ctx[i].dst)
    BY <1>0 DEF Sound, OperandsSound
  <1>4. \A i, j \in 1 .. n :
          /\ NotEntered(i) /\ ctx[i].kind = "construct" /\ Len(ctx[i].vals) > 0
          /\ NotEntered(j) /\ ctx[j].kind = "construct" /\ Len(ctx[j].vals) > 0
          /\ ctx[i].vals[1] = ctx[j].vals[1]
          => i = j
    BY <1>0 DEF Sound, OperandsSound
  <1>5. \A i \in 1 .. n : ctx[i].kind = "construct" => ctx[i].vals # <<>>
    BY <1>0 DEF Sound, OperandsSound
  <1>6. OperandsSound'
    BY <1>2, <1>3, <1>4, <1>5 DEF OperandsSound, Heap
  <1>7. ASSUME NEW o, Newborn(o)'
        PROVE  Newborn(o)
    <2>1. PICK i \in 1 .. n : /\ NotEntered(i)' /\ ctx'[i].kind = "construct"
                              /\ Len(ctx'[i].vals) > 0 /\ ctx'[i].vals[1] = o
      BY <1>7 DEF Newborn
    <2> QED
      BY <1>0, <2>1 DEF Newborn
  <1> QED
    BY <1>6, <1>7

-----------------------------------------------------------------------------
(* Statements that emit nothing. *)

\* No object in use is changed, and a new one is whole.
Grows == /\ live \subseteq live' /\ \A o \in live : rc'[o] = rc[o]
         /\ \A r \in Root : mem'[r] = mem[r] /\ (r \in stale' <=> r \in stale)
         /\ \A o \in live', f \in StrongField : <<o, f>> \notin stale'
         /\ cascade' = <<>> /\ fault' = fault

LEMMA GrowsFacts ==
    ASSUME TypeOK, IInv, Sound, Ready,
           \/ UNCHANGED heapState
           \/ \E o \in Obj : oc_alloc(o) /\ UNCHANGED <<cascade, fault>>
    PROVE  Grows
  <1>1. cascade = <<>> /\ \A o \in live, f \in StrongField : <<o, f>> \notin stale
    BY QuietFacts
  <1>2. CASE UNCHANGED heapState
    BY <1>1, <1>2 DEF Grows, heapState
  <1>3. ASSUME NEW o \in Obj, oc_alloc(o), UNCHANGED <<cascade, fault>>
        PROVE  Grows
    <2>1. /\ o \notin live /\ live' = live \cup {o} /\ rc' = [rc EXCEPT ![o] = 0]
          /\ mem' = [s \in Slot |-> IF s[1] = o THEN NIL ELSE mem[s]]
          /\ stale' = stale \ ({o} \X StrongField) /\ live \subseteq Obj /\ rc \in [Obj -> Int]
      BY <1>3 DEF oc_alloc, TypeOK
    <2>2. \A r \in Root : r[1] # o /\ r \in Slot /\ r \notin {o} \X StrongField
      BY SlotKinds, SlotFacts
    <2>3. \A p \in live, f \in StrongField : <<p, f>> \notin stale'
      BY <1>1, <2>1
    <2>4. \A f \in StrongField : <<o, f>> \notin stale'
      BY <2>1
    <2> QED
      BY <1>1, <1>3, <2>1, <2>2, <2>3, <2>4 DEF Grows
  <1> QED
    BY <1>2, <1>3

LEMMA QuietSound ==
    ASSUME cascade' = <<>>, code' = <<>>, ~fault', Variables' \subseteq StrongSlot,
           \A s \in Variables' : s \notin stale',
           live' \subseteq Obj,
           \A o \in live', f \in StrongField : <<o, f>> \notin stale',
           \A t \in Temps : t \in stale' => mem'[t] = NIL,
           \A i \in 1 .. MaxCtx, k \in 1 .. MaxArity :
              i > Len(ctx') \/ k > Len(ctx'[i].vals) => Temp(i, k) \in stale',
           OperandsSound'
    PROVE  Sound'
  <1>1. Held' = StrongSlot \ stale' /\ \A s : ~Released(s)'
    BY HeldQuiet
  <1>2. Len(code') = 0 /\ Len(cascade') = 0
    OBVIOUS
  <1>3. \A s \in Held' : HeldBy(Held, code, s, Len(code) + 1)'
    BY <1>2 DEF HeldBy
  <1>4. VariablesHeld'
    BY <1>1, <1>3 DEF VariablesHeld
  <1>5. FieldsHeld'
    BY <1>1, <1>3 DEF FieldsHeld, StrongSlot
  <1>6. RegistersWiped'
    BY <1>1, <1>2 DEF RegistersWiped
  <1>7. CodeSound' /\ CascadeSound'
    BY <1>2 DEF CodeSound, CascadeSound
  <1> QED
    BY <1>4, <1>5, <1>6, <1>7 DEF Sound

\* Nothing is borrowed by the statement, and no address of a heap field waits.
NothingWaits ==
    \A i \in 1 .. Len(ctx) : ctx[i].at = depth =>
       /\ \A k \in 1 .. Len(ctx[i].vals) :
             ctx[i].vals[k] = NIL \/ Temp(i, k) \notin stale \/ Receiver(i, k)
       /\ ctx[i].dst = NIL \/ ~Heap(ctx[i].dst)

LEMMA BoundaryWaits ==
    ASSUME TypeOK, IInv, Boundary
    PROVE  /\ NothingWaits
           /\ \A i \in 1 .. Len(ctx) : ctx[i].at # depth
  <1> SUFFICES ASSUME NEW i \in 1 .. Len(ctx), ctx[i].at = depth PROVE FALSE
    BY DEF NothingWaits
  <1>1. Len(ctx) \in 1 .. Len(ctx) /\ i \in 1 .. Len(ctx) /\ ctx # <<>>
    BY CtxFacts
  <1>2. ctx[i].at <= ctx[Len(ctx)].at /\ ctx[Len(ctx)].at <= depth
    BY <1>1 DEF IInv, CtxOK
  <1>3. ctx[Len(ctx)].at = depth
    BY <1>1, <1>2, CtxFacts
  <1> QED
    BY <1>1, <1>3 DEF Boundary, InStatement, Top

\* An expression starts.
LEMMA OpenSound ==
    ASSUME TypeOK, TypeOK', IInv, Sound, Ready, Grows, NothingWaits, code' = <<>>,
           NEW kind \in Kinds, NEW dst, NEW vals \in Seq(Value),
           Open(kind, dst, vals), Len(ctx) < MaxCtx,
           vals = <<>> \/ (kind = "construct" /\ \E o \in live' \ live :
                              vals = <<o>> /\ rc'[o] = 0),
           kind = "construct" => vals # <<>>,
           \/ dst = NIL \/ ~Heap(dst)
           \/ kind \in {"store", "relate"} /\ \E r \in Variables : r \notin stale /\ mem[r] = dst[1]
    PROVE  Sound'
  <1>n. PICK n : n = Len(ctx)
    OBVIOUS
  <1>e. PICK e : e = [kind |-> kind, at |-> depth, dst |-> dst, vals |-> vals]
    OBVIOUS
  <1>1. /\ n \in Nat /\ ctx' = Append(ctx, e) /\ depth' = depth /\ bind' = bind
        /\ Len(ctx') = n + 1 /\ ctx'[n + 1] = e /\ \A i \in 1 .. n : ctx'[i] = ctx[i]
    BY <1>n, <1>e, CtxFacts DEF Open
  <1>2. e.kind = kind /\ e.at = depth /\ e.dst = dst /\ e.vals = vals
    BY <1>e
  <1>3. /\ live \subseteq live' /\ \A o \in live : rc'[o] = rc[o]
        /\ \A r \in Root : mem'[r] = mem[r] /\ (r \in stale' <=> r \in stale)
        /\ \A o \in live', f \in StrongField : <<o, f>> \notin stale'
        /\ cascade' = <<>> /\ fault' = fault
    BY DEF Grows
  <1>4. \A t \in Temps : mem'[t] = mem[t] /\ (t \in stale' <=> t \in stale)
    BY <1>3, SlotFacts
  <1>5. Variables' = Variables
    BY <1>1 DEF Variables
  <1>6. \A s \in Variables : s \in StrongSlot /\ s \in Root /\ s \notin stale /\ s \notin stale'
    BY <1>3, QuietFacts, VariableFacts
  <1>7. \A i \in 1 .. MaxCtx, k \in 1 .. MaxArity :
           i > Len(ctx') \/ k > Len(ctx'[i].vals) => Temp(i, k) \in stale'
    <2> SUFFICES ASSUME NEW i \in 1 .. MaxCtx, NEW k \in 1 .. MaxArity,
                        i > Len(ctx') \/ k > Len(ctx'[i].vals)
                 PROVE  Temp(i, k) \in stale'
      OBVIOUS
    <2>1. Temp(i, k) \in stale
      <3>1. i > n \/ k > Len(ctx[i].vals)
        BY <1>1
      <3> QED
        BY <1>n, <3>1, QuietFacts
    <2> QED
      BY <1>4, <2>1, TempFacts
  <1>8. ASSUME NEW i \in 1 .. n, NotEntered(i)'
        PROVE  NotEntered(i) /\ i \in 1 .. Len(ctx)
    <2>1. CASE ctx[i].at = depth
      BY <1>n, <2>1 DEF NotEntered
    <2>2. ASSUME NEW j \in i + 1 .. n + 1, ctx'[j].at = ctx'[i].at
          PROVE  NotEntered(i)
      <3>1. CASE j = n + 1
        BY <1>1, <1>2, <2>2, <3>1 DEF NotEntered
      <3>2. CASE j \in i + 1 .. n
        <4>1. j \in 1 .. n
          BY <1>1, <3>2
        <4> QED
          BY <1>n, <1>1, <2>2, <3>2, <4>1 DEF NotEntered
      <3> QED
        BY <1>1, <3>1, <3>2
    <2>3. NotEntered(i)
      BY <1>1, <1>8, <2>1, <2>2 DEF NotEntered
    <2> QED
      BY <1>n, <2>3
  <1>9. \A o : ~Freeing(o)'
    BY <1>3 DEF Freeing
  <1>10. ASSUME NEW i \in 1 .. n, NotEntered(i)', NEW k \in 1 .. Len(ctx'[i].vals)
         PROVE  SoundOperand(i, k)'
    <2>1. NotEntered(i) /\ i \in 1 .. Len(ctx) /\ ctx'[i] = ctx[i]
      BY <1>1, <1>8, <1>10
    <2>2. ctx[i].at # depth \/ ctx[i].vals[k] = NIL \/ Temp(i, k) \notin stale \/ Receiver(i, k)
      BY <2>1 DEF NothingWaits
    <2> QED
      BY <1>3, <1>4, <2>1, <2>2, StillSound
  <1>11. ASSUME NEW k \in 1 .. Len(vals)
         PROVE  SoundOperand(n + 1, k)'
    <2>1. kind = "construct" /\ \E o \in live' \ live : vals = <<o>> /\ rc'[o] = 0
      BY <1>11
    <2>2. PICK o \in live' \ live : vals = <<o>> /\ rc'[o] = 0
      BY <2>1
    <2>3. k = 1 /\ vals[k] = o
      BY <1>11, <2>2
    <2>4. Receiver(n + 1, k)'
      BY <1>1, <1>2, <2>1, <2>3 DEF Receiver
    <2> QED
      BY <1>1, <1>2, <1>9, <2>2, <2>3, <2>4 DEF SoundOperand
  <1>12. ASSUME NEW i \in 1 .. n, NotEntered(i)'
         PROVE  ctx'[i].dst = NIL \/ ~Heap(ctx'[i].dst)
    <2>1. NotEntered(i) /\ i \in 1 .. Len(ctx) /\ ctx'[i] = ctx[i]
      BY <1>1, <1>8, <1>12
    <2> QED
      BY <2>1 DEF NothingWaits, Sound, OperandsSound
  <1>13. dst # NIL /\ Heap(dst) => /\ kind \in {"store", "relate"} /\ Guarded(dst[1], <<>>, 1)'
    <2>1. ASSUME NEW r \in Variables, r \notin stale, mem[r] = dst[1]
          PROVE  Guarded(dst[1], <<>>, 1)'
      <3>1. r \in Variables' /\ mem'[r] = dst[1] /\ r \in StrongSlot \ stale'
        BY <1>3, <1>5, <1>6, <2>1
      <3>2. r \in Held'
        BY <1>3, <3>1, HeldQuiet
      <3>3. UntilThen(<<>>, r, 1)
        BY DEF UntilThen
      <3> QED
        BY <3>1, <3>2, <3>3 DEF Guarded
    <2> QED
      BY <2>1
  <1>14. ASSUME NEW i \in 1 .. n, NotEntered(i)', ctx'[i].kind = "construct",
                Len(ctx'[i].vals) > 0
         PROVE  /\ NotEntered(i) /\ ctx[i].kind = "construct" /\ Len(ctx[i].vals) > 0
                /\ ctx'[i].vals[1] = ctx[i].vals[1] /\ ctx[i].vals[1] \in live
    <2>1. NotEntered(i) /\ i \in 1 .. Len(ctx) /\ ctx'[i] = ctx[i]
      BY <1>1, <1>8, <1>14
    <2>2. 1 \in 1 .. Len(ctx[i].vals)
      BY <1>14, <2>1, CtxFacts
    <2>3. ctx[i].vals[1] \in live
      BY <1>14, <2>1, <2>2, OperandLive DEF Receiver
    <2> QED
      BY <1>14, <2>1, <2>3
  <1>15. ASSUME NEW i \in 1 .. n + 1, NEW j \in 1 .. n + 1,
                NotEntered(i)', ctx'[i].kind = "construct", Len(ctx'[i].vals) > 0,
                NotEntered(j)', ctx'[j].kind = "construct", Len(ctx'[j].vals) > 0,
                ctx'[i].vals[1] = ctx'[j].vals[1]
         PROVE  i = j
    <2>1. vals # <<>> => vals[1] \notin live
      OBVIOUS
    <2>2. Len(vals) > 0 => vals # <<>>
      OBVIOUS
    <2>3. CASE i \in 1 .. n /\ j \in 1 .. n
      <3>1. /\ NotEntered(i) /\ ctx[i].kind = "construct" /\ Len(ctx[i].vals) > 0
            /\ ctx'[i].vals[1] = ctx[i].vals[1]
        BY <1>14, <1>15, <2>3
      <3>2. /\ NotEntered(j) /\ ctx[j].kind = "construct" /\ Len(ctx[j].vals) > 0
            /\ ctx'[j].vals[1] = ctx[j].vals[1]
        BY <1>14, <1>15, <2>3
      <3> QED
        BY <1>n, <1>15, <2>3, <3>1, <3>2 DEF Sound, OperandsSound
    <2>4. CASE i \in 1 .. n /\ j = n + 1
      <3>1. ctx'[i].vals[1] \in live
        BY <1>14, <1>15, <2>4
      <3> QED
        BY <1>1, <1>2, <1>15, <2>1, <2>2, <2>4, <3>1
    <2>5. CASE j \in 1 .. n /\ i = n + 1
      <3>1. ctx'[j].vals[1] \in live
        BY <1>14, <1>15, <2>5
      <3> QED
        BY <1>1, <1>2, <1>15, <2>1, <2>2, <2>5, <3>1
    <2> QED
      BY <1>1, <2>3, <2>4, <2>5
  <1>16. \A i \in 1 .. n + 1 : i \in 1 .. n \/ i = n + 1
    BY <1>1
  <1>17. Idle'
    BY <1>3 DEF Idle
  <1>18. \A d \in 1 .. depth : bind[d] = NIL \/ ~Heap(bind[d])
    BY DEF Sound, OperandsSound
  <1>19. \A i \in 1 .. n : ctx[i].kind = "construct" => ctx[i].vals # <<>>
    BY <1>n DEF Sound, OperandsSound
  <1>20. OperandsSound'
    <2>1. ASSUME NEW i \in 1 .. Len(ctx'), NotEntered(i)'
          PROVE  /\ \A k \in 1 .. Len(ctx'[i].vals) : SoundOperand(i, k)'
                 /\ ctx'[i].dst # NIL /\ Heap(ctx'[i].dst) =>
                      /\ i = Len(ctx') /\ ctx'[i].at = depth' /\ Idle'
                      /\ ctx'[i].kind \in {"store", "relate"}
                      /\ Guarded(ctx[i].dst[1], <<>>, 1)'
      <3>1. CASE i \in 1 .. n
        BY <1>10, <1>12, <2>1, <3>1
      <3>2. CASE i = n + 1
        <4>1. \A k \in 1 .. Len(ctx'[i].vals) : SoundOperand(i, k)'
          BY <1>1, <1>2, <1>11, <3>2
        <4>2. PICK p : p = dst[1]
          OBVIOUS
        <4>3. dst # NIL /\ Heap(dst) => Guarded(p, <<>>, 1)'
          BY <1>13, <4>2
        <4>4. ctx'[i].dst[1] = p /\ ctx'[i].dst = dst
          BY <1>1, <1>2, <3>2, <4>2
        <4>5. Guarded(p, <<>>, 1)' => Guarded(ctx[i].dst[1], <<>>, 1)'
          BY <4>4 DEF Guarded
        <4> QED
          BY <1>1, <1>2, <1>13, <1>17, <3>2, <4>1, <4>3, <4>4, <4>5 DEF Heap
      <3> QED
        BY <1>1, <1>16, <2>1, <3>1, <3>2
    <2>2. \A i, j \in 1 .. Len(ctx') :
            /\ NotEntered(i)' /\ ctx'[i].kind = "construct" /\ Len(ctx'[i].vals) > 0
            /\ NotEntered(j)' /\ ctx'[j].kind = "construct" /\ Len(ctx'[j].vals) > 0
            /\ ctx'[i].vals[1] = ctx'[j].vals[1]
            => i = j
      BY <1>1, <1>15
    <2>3. \A d \in 1 .. depth' : bind'[d] = NIL \/ ~Heap(bind'[d])
      BY <1>1, <1>18
    <2>4. \A i \in 1 .. Len(ctx') : ctx'[i].kind = "construct" => ctx'[i].vals # <<>>
      BY <1>1, <1>2, <1>16, <1>19
    <2> QED
      BY <2>1, <2>2, <2>3, <2>4 DEF OperandsSound, Heap
  <1>21. \A t \in Temps : t \in stale' => mem'[t] = NIL
    BY <1>4, QuietFacts
  <1>22. ~fault'
    BY <1>3 DEF Sound
  <1>23. live' \subseteq Obj
    BY DEF TypeOK
  <1> QED
    BY <1>3, <1>5, <1>6, <1>7, <1>20, <1>21, <1>22, <1>23, QuietSound

LEMMA BeginSound ==
    ASSUME TypeOK, TypeOK', IInv, Sound, Forms \subseteq LeakingForms,
           \/ \E x \in Place : BeginStore(x) \/ BeginRelate(x)
           \/ \E v \in Place \cup {NIL} : BeginCall(v)
           \/ BeginCompare \/ BeginReturn
    PROVE  Sound'
  <1>0. <<>> \in Seq(Value)
    OBVIOUS
  <1>1. ASSUME NEW x \in Place, BeginStore(x) \/ BeginRelate(x)
        PROVE  Sound'
    <2>1. PICK kind \in {"store", "relate"} :
             Boundary /\ Ready /\ Len(ctx) < MaxCtx /\ Open(kind, x, <<>>)
             /\ UNCHANGED <<heapState, code>>
      BY <1>1 DEF BeginStore, BeginRelate, Boundary
    <2>2. Grows /\ NothingWaits /\ code' = <<>>
      BY <2>1, GrowsFacts, BoundaryWaits, QuietFacts
    <2>3. ~Heap(x) \/ \E r \in Variables : r \notin stale /\ mem[r] = x[1]
      BY <2>1, PlaceSound
    <2>4. kind \in Kinds /\ kind # "construct"
      BY DEF Kinds
    <2> QED
      BY <1>0, <2>1, <2>2, <2>3, <2>4, OpenSound
  <1>2. ASSUME NEW v \in Place \cup {NIL}, BeginCall(v)
        PROVE  Sound'
    <2>1. Ready /\ Len(ctx) < MaxCtx /\ Open("call", v, <<>>) /\ UNCHANGED <<heapState, code>>
      BY <1>2 DEF BeginCall, MayCall
    <2>2. Grows /\ code' = <<>>
      BY <2>1, GrowsFacts, QuietFacts
    <2>3. v = NIL \/ ~Heap(v)
      BY <1>2 DEF BeginCall, LeakingForms
    <2>4. NothingWaits
      <3>1. CASE ~InStatement
        BY <2>1, <3>1, BoundaryWaits DEF Boundary
      <3>2. ASSUME InStatement, NEW i \in 1 .. Len(ctx), ctx[i].at = depth
            PROVE  /\ \A k \in 1 .. Len(ctx[i].vals) :
                         ctx[i].vals[k] = NIL \/ Temp(i, k) \notin stale \/ Receiver(i, k)
                   /\ ctx[i].dst = NIL \/ ~Heap(ctx[i].dst)
        <4>1. "late argument" \notin Forms /\ "late target" \notin Forms
          BY DEF LeakingForms
        <4>2. i \in Mine
          BY <3>2 DEF Mine
        <4>3. ~BorrowWaits(i) /\ ~TargetWaits(i)
          BY <1>2, <3>2, <4>1, <4>2 DEF BeginCall, MayCall
        <4> QED
          BY <4>3 DEF BorrowWaits, TargetWaits, Receiver
      <3> QED
        BY <3>1, <3>2 DEF NothingWaits
    <2>5. "call" \in Kinds /\ "call" # "construct"
      BY DEF Kinds
    <2> QED
      BY <1>0, <2>1, <2>2, <2>3, <2>4, <2>5, OpenSound
  <1>3. ASSUME NEW kind \in {"compare", "return"}, Boundary, Len(ctx) < MaxCtx,
               Open(kind, NIL, <<>>), UNCHANGED <<heapState, code>>
        PROVE  Sound'
    <2>1. Ready
      BY <1>3 DEF Boundary
    <2>2. Grows /\ NothingWaits /\ code' = <<>>
      BY <1>3, <2>1, GrowsFacts, BoundaryWaits, QuietFacts
    <2>3. kind \in Kinds /\ kind # "construct"
      BY <1>3 DEF Kinds
    <2> QED
      BY <1>0, <1>3, <2>1, <2>2, <2>3, OpenSound
  <1>4. CASE BeginCompare
    BY <1>3, <1>4 DEF BeginCompare
  <1>5. CASE BeginReturn
    BY <1>3, <1>5 DEF BeginReturn
  <1> QED
    BY <1>1, <1>2, <1>4, <1>5

LEMMA ConstructSound ==
    ASSUME TypeOK, TypeOK', IInv, Sound, Forms \subseteq LeakingForms,
           NEW o \in Obj, BeginConstruct(o)
    PROVE  Sound'
  <1>1. /\ MayCall /\ Ready /\ Len(ctx) < MaxCtx /\ InStatement /\ oc_alloc(o)
        /\ Open("construct", NIL, <<o>>) /\ UNCHANGED <<cascade, fault, code>>
    BY DEF BeginConstruct, MayCall
  <1>2. Grows /\ code' = <<>>
    BY <1>1, GrowsFacts, QuietFacts
  <1>3. o \in live' \ live /\ rc'[o] = 0
    BY <1>1 DEF oc_alloc, TypeOK
  <1>4. ASSUME NEW i \in 1 .. Len(ctx), ctx[i].at = depth
        PROVE  /\ \A k \in 1 .. Len(ctx[i].vals) :
                     ctx[i].vals[k] = NIL \/ Temp(i, k) \notin stale \/ Receiver(i, k)
               /\ ctx[i].dst = NIL \/ ~Heap(ctx[i].dst)
    <2>1. "late argument" \notin Forms /\ "late target" \notin Forms
      BY DEF LeakingForms
    <2>2. i \in Mine
      BY <1>4 DEF Mine
    <2>3. ~BorrowWaits(i) /\ ~TargetWaits(i)
      BY <1>1, <2>1, <2>2 DEF MayCall
    <2> QED
      BY <2>3 DEF BorrowWaits, TargetWaits, Receiver
  <1>5. NothingWaits
    BY <1>4 DEF NothingWaits
  <1>6. "construct" \in Kinds /\ <<o>> \in Seq(Value) /\ <<o>> # <<>>
    BY DEF Kinds, Value
  <1> QED
    BY <1>1, <1>2, <1>3, <1>5, <1>6, OpenSound

\* An operand is added: owned by its register, or borrowed and counted.
LEMMA AddSound ==
    ASSUME TypeOK, TypeOK', IInv, Sound, Ready, Wants, NEW v \in Value, NEW own \in BOOLEAN,
           AddOperand(v, own),
           own \/ v = NIL \/ (v \in live /\ rc[v] # 0)
    PROVE  Sound'
  <1>n. PICK n : n = Len(ctx)
    OBVIOUS
  <1>m. PICK m : m = Len(Top.vals) + 1
    OBVIOUS
  <1>t. PICK t : t = Temp(n, m)
    OBVIOUS
  <1>0. /\ n \in 1 .. Len(ctx) /\ n \in 1 .. MaxCtx /\ m \in 1 .. MaxArity /\ n = Len(ctx)
        /\ t \in Temps /\ t # Result /\ Top = ctx[n] /\ Top.at = depth /\ m = Len(ctx[n].vals) + 1
        /\ m \in Nat /\ n \in Nat
    BY <1>n, <1>m, <1>t, OperandFacts DEF Operand, Wants, InStatement, Top
  <1>1. /\ ctx' = [ctx EXCEPT ![n].vals = Append(@, v)]
        /\ own => /\ mem' = [mem EXCEPT ![t] = v, ![Result] = NIL]
                  /\ stale' = (stale \cup {Result}) \ {t}
        /\ ~own => UNCHANGED <<mem, stale>>
        /\ UNCHANGED <<live, rc, cascade, fault, depth, bind, code>>
    BY <1>n, <1>m, <1>t DEF AddOperand, Operand
  <1>2. /\ ctx \in Seq(Context) /\ Len(ctx') = n /\ \A i \in 1 .. n : i # n => ctx'[i] = ctx[i]
        /\ \A i \in 1 .. n : /\ ctx'[i].kind = ctx[i].kind /\ ctx'[i].at = ctx[i].at
                             /\ ctx'[i].dst = ctx[i].dst
                             /\ \A k \in 1 .. Len(ctx[i].vals) : ctx'[i].vals[k] = ctx[i].vals[k]
                             /\ Len(ctx'[i].vals) \in {Len(ctx[i].vals), m} /\ Len(ctx[i].vals) \in Nat
        /\ Len(ctx'[n].vals) = m /\ ctx'[n].vals[m] = v
        /\ \A i \in 1 .. n : ctx[i].vals \in Seq(Value)
    <2>1. ctx \in Seq(Context) /\ \A i \in 1 .. n : ctx[i] \in Context /\ ctx[i].vals \in Seq(Value)
      <3>1. ctx \in Seq(Context) /\ \A i \in 1 .. n : ctx[i] \in Context
        BY <1>n DEF TypeOK
      <3> QED
        BY <3>1 DEF Context
    <2>2. Len(ctx') = n /\ \A i \in 1 .. n : i # n => ctx'[i] = ctx[i]
      BY <1>n, <1>1, <2>1
    <2>3. PICK e : e = ctx[n]
      OBVIOUS
    <2>4. PICK vals : vals = e.vals
      OBVIOUS
    <2>5. ctx'[n] = [e EXCEPT !.vals = Append(vals, v)] /\ e \in Context /\ vals \in Seq(Value)
      BY <1>0, <1>1, <2>1, <2>3, <2>4, SMTT(30)
    <2>6. /\ ctx'[n].kind = e.kind /\ ctx'[n].at = e.at /\ ctx'[n].dst = e.dst
          /\ ctx'[n].vals = Append(vals, v)
      BY <2>5 DEF Context
    <2>7. /\ Len(Append(vals, v)) = Len(vals) + 1 /\ Append(vals, v)[Len(vals) + 1] = v
          /\ \A k \in 1 .. Len(vals) : Append(vals, v)[k] = vals[k]
          /\ Len(vals) \in Nat
      BY <2>5
    <2>8. m = Len(vals) + 1
      BY <1>0, <2>3, <2>4
    <2>9. ASSUME NEW i \in 1 .. n
          PROVE  /\ ctx'[i].kind = ctx[i].kind /\ ctx'[i].at = ctx[i].at
                 /\ ctx'[i].dst = ctx[i].dst
                 /\ \A k \in 1 .. Len(ctx[i].vals) : ctx'[i].vals[k] = ctx[i].vals[k]
                 /\ Len(ctx'[i].vals) \in {Len(ctx[i].vals), m} /\ Len(ctx[i].vals) \in Nat
      <3>1. CASE i = n
        BY <2>3, <2>4, <2>6, <2>7, <2>8, <3>1
      <3>2. CASE i # n
        BY <2>1, <2>2, <3>2
      <3> QED
        BY <3>1, <3>2
    <2> QED
      BY <2>1, <2>2, <2>6, <2>7, <2>8, <2>9
  <1>3. ASSUME NEW i \in 1 .. MaxCtx, NEW k \in 1 .. MaxArity, Temp(i, k) = t
        PROVE  i = n /\ k = m
    BY <1>0, <1>t, <1>3, TempInjective
  <1>4. ASSUME NEW i \in 1 .. MaxCtx, NEW k \in 1 .. MaxArity
        PROVE  Temp(i, k) # Result /\ Temp(i, k) \in Temps
    BY TempInjective, TempFacts DEF Result
  <1>5. t \in Slot /\ Result \in Slot /\ mem \in [Slot -> Value] /\ Result \in Temps
    BY <1>0, ResultUsed, SlotFacts DEF TypeOK
  <1>6. \A r \in Slot : r # t /\ r # Result => mem'[r] = mem[r] /\ (r \in stale' <=> r \in stale)
    BY <1>1, <1>5
  <1>7. Variables' = Variables
    BY <1>1 DEF Variables
  <1>8. \A s \in Variables : s \in StrongSlot /\ s \notin stale' /\ mem'[s] = mem[s]
    BY <1>0, <1>5, <1>6, QuietFacts, VariableFacts
  <1>9. \A o \in live', f \in StrongField : <<o, f>> \notin stale'
    <2>1. \A o \in live, f \in StrongField :
             <<o, f>> \in Slot /\ <<o, f>> \notin stale /\ <<o, f>> \notin Temps
      <3>1. live \subseteq Obj
        BY DEF TypeOK
      <3> QED
        BY <3>1, QuietFacts, SlotFacts, SlotKinds, ArcAssumption
    <2> QED
      BY <1>0, <1>1, <1>5, <1>6, <2>1
  <1>10. \A r \in Temps : r \in stale' => mem'[r] = NIL
    <2>1. own => mem'[Result] = NIL /\ mem'[t] = v /\ t \notin stale'
      BY <1>0, <1>1, <1>5
    <2>2. \A r \in Temps : r \in Slot /\ (r \in stale => mem[r] = NIL)
      BY QuietFacts, SlotFacts
    <2> QED
      BY <1>1, <1>6, <2>1, <2>2
  <1>11. ASSUME NEW i \in 1 .. MaxCtx, NEW k \in 1 .. MaxArity,
                i > Len(ctx') \/ k > Len(ctx'[i].vals)
         PROVE  Temp(i, k) \in stale'
    <2>1. i > Len(ctx) \/ k > Len(ctx[i].vals)
      <3>1. CASE i > n
        BY <1>n, <3>1
      <3>2. CASE i \in 1 .. n /\ i # n
        BY <1>2, <1>11, <3>2
      <3>3. CASE i = n
        BY <1>0, <1>2, <1>11, <3>3
      <3> QED
        BY <1>0, <3>1, <3>2, <3>3
    <2>2. Temp(i, k) \in stale
      BY <2>1, QuietFacts
    <2>3. ~(i = n /\ k = m)
      BY <1>0, <1>2, <1>11
    <2>4. Temp(i, k) # t /\ Temp(i, k) # Result /\ Temp(i, k) \in Slot
      BY <1>3, <1>4, <2>3, SlotFacts
    <2> QED
      BY <1>6, <2>2, <2>4
  <1>12. \A i \in 1 .. n : NotEntered(i)' <=> NotEntered(i)
    <2>1. \A i \in 1 .. n : \A j \in i + 1 .. n : j \in 1 .. n
      BY <1>0
    <2> QED
      BY <1>0, <1>1, <1>2, <2>1 DEF NotEntered
  <1>13. /\ \A o : ~Freeing(o)' /\ ~Freeing(o)
         /\ Idle' /\ cascade' = <<>> /\ code' = <<>>
    BY <1>1, QuietFacts DEF Freeing, Idle
  <1>14. ASSUME NEW i \in 1 .. n, NotEntered(i), NEW k \in 1 .. Len(ctx[i].vals)
         PROVE  SoundOperand(i, k)'
    <2>1. PICK w : w = ctx[i].vals[k]
      OBVIOUS
    <2>2. PICK u : u = Temp(i, k)
      OBVIOUS
    <2>3. SoundOperand(i, k)
      BY <1>n, <1>14 DEF Sound, OperandsSound
    <2>4. i \in 1 .. MaxCtx /\ k \in 1 .. MaxArity
      <3>1. /\ ctx[i] \in Context /\ Len(ctx[i].vals) <= Arity(ctx[i].kind)
            /\ Len(ctx) \in Nat /\ Len(ctx) <= MaxCtx /\ MaxCtx \in Nat
        <4>1. ctx \in Seq(Context) /\ Len(ctx) \in Nat /\ Len(ctx) <= MaxCtx /\ MaxCtx \in Nat
          BY ArcAssumption DEF TypeOK
        <4>2. i \in 1 .. Len(ctx)
          BY <1>n
        <4>3. Len(ctx[i].vals) <= Arity(ctx[i].kind)
          BY <4>2 DEF TypeOK
        <4> QED
          BY <4>1, <4>2, <4>3
      <3>2. Len(ctx[i].vals) \in Nat
        BY <3>1 DEF Context
      <3>3. Arity(ctx[i].kind) <= MaxArity /\ MaxArity \in Nat /\ Arity(ctx[i].kind) \in Nat
        BY TempFacts
      <3> QED
        BY <1>n, <3>1, <3>2, <3>3
    <2>5. ~(i = n /\ k = m)
      BY <1>0
    <2>6. u # t /\ u # Result /\ u \in Slot
      BY <1>3, <1>4, <2>2, <2>4, <2>5, SlotFacts
    <2>7. mem'[u] = mem[u] /\ (u \in stale' <=> u \in stale)
      BY <1>6, <2>6
    <2>8. ctx'[i].vals[k] = w /\ (Receiver(i, k)' <=> Receiver(i, k))
      BY <1>2, <2>1 DEF Receiver
    <2>9. (i = Len(ctx) /\ ctx[i].at = depth) => (i = Len(ctx') /\ ctx'[i].at = depth')
      BY <1>n, <1>1, <1>2
    <2> QED
      BY <1>1, <1>13, <2>1, <2>2, <2>3, <2>7, <2>8, <2>9 DEF SoundOperand
  <1>15. ctx[n].kind = "construct" => m # 1
    <2>1. ctx[n].kind = "construct" => ctx[n].vals # <<>>
      BY <1>0 DEF Sound, OperandsSound
    <2>2. ctx[n].vals \in Seq(Value)
      BY <1>0, <1>2
    <2> QED
      BY <1>0, <2>1, <2>2
  <1>16. SoundOperand(n, m)'
    <2>1. ~Receiver(n, m)'
      BY <1>0, <1>2, <1>15 DEF Receiver
    <2>2. CASE own
      <3>1. t \notin stale' /\ mem'[t] = v
        BY <1>0, <1>1, <1>5, <2>2
      <3> QED
        BY <1>2, <1>t, <2>1, <3>1 DEF SoundOperand
    <2>3. CASE ~own
      <3>1. t \in stale'
        <4>1. t \in stale
          BY <1>0, <1>t, QuietFacts
        <4> QED
          BY <1>1, <2>3, <4>1
      <3>2. n = Len(ctx') /\ ctx'[n].at = depth'
        BY <1>0, <1>1, <1>2
      <3> QED
        BY <1>1, <1>2, <1>13, <1>t, <2>1, <2>3, <3>1, <3>2 DEF SoundOperand
    <2> QED
      BY <2>2, <2>3
  <1>17. \A o : Guarded(o, <<>>, 1) => Guarded(o, <<>>, 1)'
    <2>1. Held' = StrongSlot \ stale'
      BY <1>13, HeldQuiet
    <2> QED
      BY <1>7, <1>8, <2>1 DEF Guarded
  <1>18. OperandsSound'
    <2>1. ASSUME NEW i \in 1 .. n, NotEntered(i)', NEW k \in 1 .. Len(ctx'[i].vals)
          PROVE  SoundOperand(i, k)'
      <3>1. NotEntered(i)
        BY <1>12, <2>1
      <3>2. k \in 1 .. Len(ctx[i].vals) \/ (i = n /\ k = m)
        BY <1>0, <1>2, <2>1
      <3> QED
        BY <1>14, <1>16, <3>1, <3>2
    <2>2. ASSUME NEW i \in 1 .. n, NotEntered(i)', ctx'[i].dst # NIL, Heap(ctx'[i].dst)
          PROVE  /\ i = Len(ctx') /\ ctx'[i].at = depth' /\ Idle'
                 /\ ctx'[i].kind \in {"store", "relate"}
                 /\ Guarded(ctx[i].dst[1], <<>>, 1)'
      <3>1. PICK p : p = ctx[i].dst[1]
        OBVIOUS
      <3>2. /\ i = Len(ctx) /\ ctx[i].at = depth /\ ctx[i].kind \in {"store", "relate"}
            /\ Guarded(p, <<>>, 1)
        BY <1>n, <1>2, <1>12, <2>2, <3>1 DEF Sound, OperandsSound
      <3>3. Guarded(p, <<>>, 1)'
        BY <1>17, <3>2
      <3>4. ctx'[i].dst[1] = p
        BY <1>2, <3>1
      <3>5. Guarded(ctx[i].dst[1], <<>>, 1)'
        BY <3>3, <3>4 DEF Guarded
      <3> QED
        BY <1>n, <1>1, <1>2, <1>13, <3>2, <3>5
    <2>3. ASSUME NEW i \in 1 .. n, ctx'[i].kind = "construct"
          PROVE  /\ ctx[i].kind = "construct" /\ Len(ctx[i].vals) > 0
                 /\ ctx'[i].vals[1] = ctx[i].vals[1] /\ ctx'[i].vals # <<>>
      <3>1. ctx[i].kind = "construct" /\ ctx[i].vals # <<>>
        BY <1>n, <1>2, <2>3 DEF Sound, OperandsSound
      <3>2. ctx[i].vals \in Seq(Value)
        BY <1>2
      <3>3. Len(ctx[i].vals) > 0 /\ 1 \in 1 .. Len(ctx[i].vals)
        BY <3>1, <3>2
      <3>4. Len(ctx'[i].vals) > 0
        BY <1>0, <1>2, <3>3
      <3> QED
        BY <1>2, <3>1, <3>3, <3>4
    <2>4. \A i, j \in 1 .. n :
            /\ NotEntered(i)' /\ ctx'[i].kind = "construct" /\ Len(ctx'[i].vals) > 0
            /\ NotEntered(j)' /\ ctx'[j].kind = "construct" /\ Len(ctx'[j].vals) > 0
            /\ ctx'[i].vals[1] = ctx'[j].vals[1]
            => i = j
      <3> SUFFICES ASSUME NEW i \in 1 .. n, NEW j \in 1 .. n,
                          NotEntered(i)', ctx'[i].kind = "construct",
                          NotEntered(j)', ctx'[j].kind = "construct",
                          ctx'[i].vals[1] = ctx'[j].vals[1]
                   PROVE  i = j
        OBVIOUS
      <3>1. NotEntered(i) /\ ctx[i].kind = "construct" /\ Len(ctx[i].vals) > 0
            /\ ctx'[i].vals[1] = ctx[i].vals[1]
        BY <1>12, <2>3
      <3>2. NotEntered(j) /\ ctx[j].kind = "construct" /\ Len(ctx[j].vals) > 0
            /\ ctx'[j].vals[1] = ctx[j].vals[1]
        BY <1>12, <2>3
      <3> QED
        BY <1>n, <3>1, <3>2 DEF Sound, OperandsSound
    <2>5. \A d \in 1 .. depth' : bind'[d] = NIL \/ ~Heap(bind'[d])
      BY <1>1 DEF Sound, OperandsSound
    <2> QED
      BY <1>2, <2>1, <2>2, <2>3, <2>4, <2>5 DEF OperandsSound, Heap
  <1>19. live' \subseteq Obj
    BY DEF TypeOK
  <1>20. ~fault'
    BY <1>1 DEF Sound
  <1> QED
    BY <1>7, <1>8, <1>9, <1>10, <1>11, <1>13, <1>18, <1>19, <1>20, QuietSound

\* Every operand that is loaded.
LEMMA OperandSound ==
    ASSUME TypeOK, TypeOK', IInv, Sound, Forms \subseteq LeakingForms,
           \/ \E s \in Place : Borrow(s) \/ BorrowFaults(s)
           \/ BorrowNil \/ TakeResult
           \/ \E o \in Immortal : TakeStatic(o)
    PROVE  Sound'
  <1>1. ASSUME NEW s \in Place, Borrow(s)
        PROVE  Sound'
    <2>1. PICK v : v = mem[s]
      OBVIOUS
    <2>2. Ready /\ Wants /\ AddOperand(v, FALSE) /\ v \in Value
      BY <1>1, <2>1, PlaceFacts DEF Borrow
    <2>3. v = NIL \/ (v \in live /\ rc[v] # 0)
      <3>1. ~(v \in Obj /\ (v \in live => rc[v] = 0))
        BY <1>1, <2>1 DEF Borrow, LeakingForms
      <3> QED
        BY <2>2, <3>1 DEF Value
    <2> QED
      BY <2>2, <2>3, AddSound
  <1>2. ASSUME NEW s \in Place, BorrowFaults(s)
        PROVE  FALSE
    <2>1. Ready /\ Gone(s)
      BY <1>2 DEF BorrowFaults
    <2> QED
      BY <2>1, PlaceSound
  <1>3. CASE BorrowNil
    <2>1. Ready /\ Wants /\ AddOperand(NIL, FALSE) /\ NIL \in Value
      BY <1>3 DEF BorrowNil, Value
    <2> QED
      BY <2>1, AddSound
  <1>4. CASE TakeResult
    <2>1. PICK v : v = mem[Result]
      OBVIOUS
    <2>2. Ready /\ Wants /\ AddOperand(v, TRUE) /\ v \in Value
      BY <1>4, <2>1, ResultUsed, SlotFacts DEF TakeResult, TypeOK
    <2> QED
      BY <2>2, AddSound
  <1>5. ASSUME NEW o \in Immortal, TakeStatic(o)
        PROVE  Sound'
    <2>1. Ready /\ Wants /\ AddOperand(o, TRUE) /\ o \in Value
      BY <1>5, ArcAssumption DEF TakeStatic, Value
    <2> QED
      BY <2>1, AddSound
  <1> QED
    BY <1>1, <1>2, <1>3, <1>4, <1>5

-----------------------------------------------------------------------------
(* Statements that emit code. *)

\* c is a followed by b.
Joined(c, a, b) ==
    /\ c \in Seq(Instr) /\ Len(c) = Len(a) + Len(b) /\ Len(a) \in Nat /\ Len(b) \in Nat
    /\ \A i \in 1 .. Len(a) : c[i] = a[i]
    /\ \A j \in 1 .. Len(b) : c[Len(a) + j] = b[j]
    /\ \A i \in 1 .. Len(c) : i \in 1 .. Len(a) \/ \E j \in 1 .. Len(b) : i = Len(a) + j

LEMMA Joining ==
    ASSUME NEW a \in Seq(Instr), NEW b \in Seq(Instr), NEW c, c = a \o b
    PROVE  Joined(c, a, b)
  <1>1. c \in Seq(Instr) /\ Len(c) = Len(a) + Len(b) /\ Len(a) \in Nat /\ Len(b) \in Nat
    BY ConcatProperties
  <1>2. \A i \in 1 .. Len(a) : c[i] = a[i]
    BY ConcatProperties
  <1>3. \A j \in 1 .. Len(b) : c[Len(a) + j] = b[j]
    BY <1>1
  <1>4. ASSUME NEW i \in 1 .. Len(c), i \notin 1 .. Len(a)
        PROVE  \E j \in 1 .. Len(b) : i = Len(a) + j
    <2>1. i - Len(a) \in 1 .. Len(b) /\ i = Len(a) + (i - Len(a))
      BY <1>1, <1>4
    <2> QED
      BY <2>1
  <1> QED
    BY <1>1, <1>2, <1>3, <1>4 DEF Joined

\* Code in order, followed by code in order.
LEMMA ConcatOrderly ==
    ASSUME NEW a \in Seq(Instr), NEW b \in Seq(Instr), Orderly(a), Orderly(b),
           \A i \in 1 .. Len(b) : b[i].op = "retain" =>
              \A j \in 1 .. Len(a) : a[j].op # "release",
           \A i \in 1 .. Len(b) : b[i].op = "release" =>
              \A j \in 1 .. Len(a) : ~Touches(a[j], b[i].slot)
    PROVE  Orderly(a \o b)
  <1>c. PICK c : c = a \o b
    OBVIOUS
  <1>n. PICK n : n = Len(a)
    OBVIOUS
  <1>1. /\ c \in Seq(Instr) /\ Len(c) = n + Len(b) /\ n \in Nat /\ Len(b) \in Nat
        /\ \A i \in 1 .. n : c[i] = a[i]
        /\ \A j \in 1 .. Len(b) : c[n + j] = b[j]
        /\ \A i \in 1 .. Len(c) : \/ i \in 1 .. n
                                  \/ \E j \in 1 .. Len(b) : i = n + j
    <2>1. /\ c \in Seq(Instr) /\ Len(c) = Len(a) + Len(b) /\ Len(a) \in Nat /\ Len(b) \in Nat
          /\ \A i \in 1 .. Len(a) : c[i] = a[i]
          /\ \A j \in 1 .. Len(b) : c[Len(a) + j] = b[j]
          /\ \A i \in 1 .. Len(c) : \/ i \in 1 .. Len(a)
                                    \/ \E j \in 1 .. Len(b) : i = Len(a) + j
      <3>1. Joined(c, a, b)
        BY <1>c, Joining
      <3> QED
        BY <3>1 DEF Joined
    <2> QED
      BY <1>n, <2>1
  <1>2. ASSUME NEW i \in 1 .. n
        PROVE  /\ c[i].op = "retain" => \A j \in 1 .. i - 1 : c[j].op # "release"
               /\ c[i].op = "release" => UntilThen(c, c[i].slot, i)
               /\ c[i].op = "release" /\ c[i].slot \in Temps =>
                    \E j \in i + 1 .. Len(c) : c[j].op = "forget" /\ c[i].slot \in c[j].slots
    <2>1. i \in 1 .. Len(a) /\ c[i] = a[i] /\ \A j \in 1 .. i - 1 : j \in 1 .. n /\ c[j] = a[j]
      BY <1>1, <1>n
    <2>2. a[i].op = "retain" => \A j \in 1 .. i - 1 : c[j].op # "release"
      BY <2>1 DEF Orderly
    <2>3. a[i].op = "release" => UntilThen(c, a[i].slot, i)
      BY <2>1 DEF Orderly, UntilThen
    <2>4. ASSUME a[i].op = "release", a[i].slot \in Temps
          PROVE  \E j \in i + 1 .. Len(c) : c[j].op = "forget" /\ a[i].slot \in c[j].slots
      <3>1. PICK j \in i + 1 .. n : a[j].op = "forget" /\ a[i].slot \in a[j].slots
        BY <2>1, <2>4, <1>n DEF Orderly
      <3>2. j \in i + 1 .. Len(c) /\ c[j] = a[j]
        BY <1>1
      <3> QED
        BY <3>1, <3>2
    <2> QED
      BY <2>1, <2>2, <2>3, <2>4
  <1>3. ASSUME NEW k \in 1 .. Len(b), NEW i, i = n + k
        PROVE  /\ c[i].op = "retain" => \A j \in 1 .. i - 1 : c[j].op # "release"
               /\ c[i].op = "release" => UntilThen(c, c[i].slot, i)
               /\ c[i].op = "release" /\ c[i].slot \in Temps =>
                    \E j \in i + 1 .. Len(c) : c[j].op = "forget" /\ c[i].slot \in c[j].slots
    <2>1. c[i] = b[k]
      BY <1>1, <1>3
    <2>2. ASSUME NEW j \in 1 .. i - 1
          PROVE  \/ j \in 1 .. n /\ c[j] = a[j]
                 \/ \E m \in 1 .. k - 1 : m \in 1 .. Len(b) /\ c[j] = b[m]
      <3>1. CASE j \in 1 .. n
        BY <1>1, <3>1
      <3>2. CASE j \notin 1 .. n
        <4>1. j - n \in 1 .. k - 1 /\ j - n \in 1 .. Len(b) /\ j = n + (j - n)
          BY <1>1, <1>3, <3>2
        <4> QED
          BY <1>1, <4>1
      <3> QED
        BY <3>1, <3>2
    <2>3. b[k].op = "retain" => \A j \in 1 .. i - 1 : c[j].op # "release"
      BY <1>n, <2>2 DEF Orderly
    <2>4. b[k].op = "release" => UntilThen(c, b[k].slot, i)
      BY <1>n, <2>2 DEF Orderly, UntilThen
    <2>5. ASSUME b[k].op = "release", b[k].slot \in Temps
          PROVE  \E j \in i + 1 .. Len(c) : c[j].op = "forget" /\ b[k].slot \in c[j].slots
      <3>1. PICK m \in k + 1 .. Len(b) : b[m].op = "forget" /\ b[k].slot \in b[m].slots
        BY <2>5 DEF Orderly
      <3>2. n + m \in i + 1 .. Len(c) /\ c[n + m] = b[m]
        BY <1>1, <1>3
      <3> QED
        BY <3>1, <3>2
    <2> QED
      BY <2>1, <2>3, <2>4, <2>5
  <1>4. Orderly(c)
    BY <1>1, <1>2, <1>3 DEF Orderly
  <1> QED
    BY <1>c, <1>4

\* Code that releases the slots S, each once, and ends their storage.
Wipes(c, S) ==
    /\ Len(c) > 0 /\ c[Len(c)] = Forget(S)
    /\ \A k \in 1 .. Len(c) - 1 : c[k].op = "release" /\ c[k].slot \in S
    /\ \A k, m \in 1 .. Len(c) - 1 : c[k].slot = c[m].slot => k = m

LEMMA WipesFacts ==
    ASSUME NEW c \in Seq(Instr), NEW S, Wipes(c, S)
    PROVE  /\ Orderly(c)
           /\ \A i \in 1 .. Len(c) :
                 /\ c[i].op \in {"release", "forget"}
                 /\ c[i].op = "release" => c[i].slot \in S
                 /\ \A s : ~Fills(c[i], s) /\ (Empties(c[i], s) => s \in S)
           /\ \A s \in S : \E i \in 1 .. Len(c) : Empties(c[i], s)
  <1>n. PICK n : n = Len(c)
    OBVIOUS
  <1>1. /\ n \in Nat /\ n > 0 /\ c[n] = Forget(S) /\ n \in 1 .. n
        /\ \A k \in 1 .. n - 1 : c[k].op = "release" /\ c[k].slot \in S /\ k \in 1 .. n
        /\ \A i \in 1 .. n : i = n \/ i \in 1 .. n - 1
    BY <1>n DEF Wipes
  <1>2. c[n].op = "forget" /\ c[n].slots = S
    BY <1>1 DEF Forget
  <1>3. \A i \in 1 .. n :
                 /\ c[i].op \in {"release", "forget"}
                 /\ c[i].op = "release" => i \in 1 .. n - 1 /\ c[i].slot \in S
                 /\ \A s : ~Fills(c[i], s) /\ (Empties(c[i], s) => s \in S)
    BY <1>1, <1>2 DEF Fills, Empties
  <1>4. \A s \in S : Empties(c[n], s)
    BY <1>2 DEF Empties
  <1>5. ASSUME NEW i \in 1 .. n - 1, NEW j \in 1 .. i - 1
        PROVE  ~Touches(c[j], c[i].slot)
    <2>1. j \in 1 .. n - 1 /\ j # i
      BY <1>1
    <2>2. c[j].op = "release" /\ c[j].slot # c[i].slot
      BY <1>1, <1>n, <2>1 DEF Wipes
    <2> QED
      BY <2>2 DEF Touches, Fills, Empties
  <1>6. Orderly(c)
    <2>1. \A i \in 1 .. n : c[i].op # "retain"
      BY <1>3
    <2>2. \A i \in 1 .. n - 1 : n \in i + 1 .. n
      BY <1>1
    <2> QED
      BY <1>n, <1>2, <1>3, <1>5, <2>1, <2>2 DEF Orderly, UntilThen
  <1> QED
    BY <1>n, <1>1, <1>3, <1>4, <1>6

LEMMA InstrFacts ==
    /\ \A s : Drop(s).op = "release" /\ Drop(s).slot = s
    /\ \A v, t : Retain(v, t).op = "retain" /\ Retain(v, t).val = v /\ Retain(v, t).slot = t
    /\ \A x, t : Move(x, t).op = "move" /\ Move(x, t).slot = x /\ Move(x, t).from = t
    /\ \A x, v : Poke(x, v).op = "poke" /\ Poke(x, v).slot = x
    /\ \A x : Clear(x).op = "clear" /\ Clear(x).slot = x
    /\ \A o, q : Copy(o, q).op = "copy" /\ Copy(o, q).obj = o /\ Copy(o, q).from = q
    /\ \A S : Forget(S).op = "forget" /\ Forget(S).slots = S
  BY DEF Drop, Retain, Move, Poke, Clear, Copy, Forget

\* The release of the owned operands of an expression.
LEMMA DropArgsWipes ==
    ASSUME TypeOK, NEW i \in 1 .. MaxCtx
    PROVE  LET T == {Temp(i, k) : k \in 1 .. Arity(ctx[i].kind)}
           IN  DropArgs(i) \in Seq(Instr) /\ Wipes(DropArgs(i), T)
  <1>m. PICK m : m = Arity(ctx[i].kind)
    OBVIOUS
  <1>T. PICK T : T = {Temp(i, k) : k \in 1 .. m}
    OBVIOUS
  <1>a. PICK a : a = [k \in 1 .. m |-> Drop(Temp(i, k))]
    OBVIOUS
  <1>0. m \in Nat /\ m <= MaxArity /\ MaxArity \in Nat /\ i \in Int
    BY <1>m, TempFacts
  <1>1. DropArgs(i) = a \o <<Forget(T)>>
    BY <1>m, <1>T, <1>a DEF DropArgs, ForEach
  <1>2. DropArgs(i) \in Seq(Instr)
    BY DropArgsType
  <1>3. \A k \in 1 .. m : k \in 1 .. MaxArity /\ Temp(i, k) \in StrongSlot /\ k \in Int
    BY <1>0, TempFacts, SlotFacts
  <1>4. a \in Seq({Drop(Temp(i, k)) : k \in 1 .. m}) /\ Len(a) = m
    <2>1. a \in [1 .. m -> {Drop(Temp(i, k)) : k \in 1 .. m}]
      BY <1>a
    <2> QED
      BY <1>0, <2>1, FcnIsSeq
  <1>c. PICK c : c = a \o <<Forget(T)>>
    OBVIOUS
  <1>5. /\ Len(c) = m + 1 /\ c[m + 1] = Forget(T)
        /\ \A k \in 1 .. m : c[k] = Drop(Temp(i, k))
    BY <1>0, <1>4, <1>a, <1>c
  <1>6. \A k \in 1 .. m : c[k].op = "release" /\ c[k].slot = Temp(i, k)
    BY <1>5, InstrFacts
  <1>7. \A k, j \in 1 .. m : Temp(i, k) = Temp(i, j) => k = j
    BY <1>0, <1>3, TempInjective
  <1>8. (m + 1) - 1 = m /\ m + 1 > 0
    BY <1>0
  <1>9. Wipes(c, T)
    BY <1>T, <1>5, <1>6, <1>7, <1>8 DEF Wipes
  <1> QED
    BY <1>1, <1>2, <1>9, <1>c, <1>m, <1>T

\* The epilogue of a procedure.
LEMMA LeaveWipes ==
    ASSUME NEW d \in 1 .. MaxDepth, Len(Params \o Locals) <= MaxLocalPtrs
    PROVE  LeaveCode(d) \in Seq(Instr) /\ Wipes(LeaveCode(d), FrameSlots(d))
  <1>w. PICK w : w = Params \o Locals
    OBVIOUS
  <1>m. PICK m : m = Len(w)
    OBVIOUS
  <1>a. PICK a : a = [k \in 1 .. m |-> Drop(<<d, w[k]>>)]
    OBVIOUS
  <1>0. m \in Nat /\ m <= MaxLocalPtrs /\ w \in Seq(STRING)
    BY <1>w, <1>m, ArcAssumption
  <1>1. LeaveCode(d) = a \o <<Forget(FrameSlots(d))>>
    BY <1>0, <1>w, <1>m, <1>a DEF LeaveCode, ForEach
  <1>2. LeaveCode(d) \in Seq(Instr)
    BY LeaveCodeType
  <1>4. a \in Seq({Drop(<<d, w[k]>>) : k \in 1 .. m}) /\ Len(a) = m
    <2>1. a \in [1 .. m -> {Drop(<<d, w[k]>>) : k \in 1 .. m}]
      BY <1>a
    <2> QED
      BY <1>0, <2>1, FcnIsSeq
  <1>c. PICK c : c = a \o <<Forget(FrameSlots(d))>>
    OBVIOUS
  <1>5. /\ Len(c) = m + 1 /\ c[m + 1] = Forget(FrameSlots(d))
        /\ \A k \in 1 .. m : c[k] = Drop(<<d, w[k]>>)
    BY <1>0, <1>4, <1>a, <1>c
  <1>6. ASSUME NEW k \in 1 .. m
        PROVE  c[k].op = "release" /\ c[k].slot = <<d, w[k]>>
    <2>1. PICK s : s = <<d, w[k]>>
      OBVIOUS
    <2>2. c[k] = Drop(s)
      BY <1>5, <2>1
    <2> QED
      BY <2>1, <2>2, InstrFacts
  <1>7. \A k, j \in 1 .. m : <<d, w[k]>> = <<d, w[j]>> => k = j
    BY <1>w, <1>m, ArcAssumption
  <1>8. (m + 1) - 1 = m /\ m + 1 > 0
    BY <1>0
  <1>9. FrameSlots(d) = {<<d, w[k]>> : k \in 1 .. m}
    BY <1>w, <1>m DEF FrameSlots
  <1>10. Wipes(c, FrameSlots(d))
    BY <1>5, <1>6, <1>7, <1>8, <1>9, ZenonT(30) DEF Wipes
  <1> QED
    BY <1>1, <1>2, <1>10, <1>c

\* A value that is retained, an old slot that is released, and the value moved
\* there.
LEMMA ExchangeSound ==
    ASSUME TypeOK, TypeOK', IInv, Sound, Ready, Grows, NEW v, NEW x \in StrongSlot \ Temps,
           NEW c \in Seq(Instr), code' = c, Len(c) = 3,
           c[1] = Retain(v, Flight(1)), c[2] = Drop(x), c[3] = Move(x, Flight(1)),
           depth' = depth, x \notin stale',
           Heap(x) => \E r \in Variables : r \notin stale /\ mem[r] = x[1],
           v \in live' \cup {NIL}, ~Newborn(v)',
           \A i \in 1 .. MaxCtx, k \in 1 .. MaxArity :
              i > Len(ctx') \/ k > Len(ctx'[i].vals) => Temp(i, k) \in stale',
           OperandsSound'
    PROVE  Sound'
  <1>f. PICK f : f = Flight(1)
    OBVIOUS
  <1>1. /\ c[1].op = "retain" /\ c[1].val = v /\ c[1].slot = f
        /\ c[2].op = "release" /\ c[2].slot = x
        /\ c[3].op = "move" /\ c[3].slot = x /\ c[3].from = f
    BY <1>f, InstrFacts
  <1>2. f \in Temps /\ f # x /\ f \in Root /\ \A p \in 1 .. MaxCtx, k \in 1 .. MaxArity : f # Temp(p, k)
    <2>1. f \in Temps
      BY <1>f, FlightUnused
    <2>2. \A p \in 1 .. MaxCtx, k \in 1 .. MaxArity : f # Temp(p, k)
      BY <1>f, TempInjective, TempFacts DEF Flight
    <2> QED
      BY <2>1, <2>2, SlotFacts
  <1>3. \A i \in 1 .. Len(c) : i = 1 \/ i = 2 \/ i = 3
    OBVIOUS
  <1>4. \A s : /\ Fills(c[1], s) <=> s = f
               /\ ~Empties(c[1], s)
               /\ ~Fills(c[2], s)
               /\ Empties(c[2], s) <=> s = x
               /\ Fills(c[3], s) <=> s = x
               /\ Empties(c[3], s) <=> s = f
    BY <1>1 DEF Fills, Empties
  <1>5. Variables' = Variables
    BY DEF Variables
  <1>6. /\ \A r \in Root : mem'[r] = mem[r] /\ (r \in stale' <=> r \in stale)
        /\ \A o \in live', f2 \in StrongField : <<o, f2>> \notin stale'
        /\ cascade' = <<>> /\ fault' = fault
    BY DEF Grows
  <1>7. \A t \in Temps : mem'[t] = mem[t] /\ (t \in stale' <=> t \in stale)
    BY <1>6, SlotFacts
  <1>8. Orderly(c)
    <2>1. UntilThen(c, x, 2)
      BY <1>2, <1>4 DEF UntilThen, Touches
    <2>2. \A j \in 1 .. 1 - 1 : FALSE
      OBVIOUS
    <2> QED
      BY <1>1, <1>3, <2>1, <2>2 DEF Orderly
  <1>9. Heap(x) => Kept(x[1], c)'
    <2> SUFFICES ASSUME Heap(x) PROVE Kept(x[1], c)'
      OBVIOUS
    <2>1. PICK r \in Variables : r \notin stale /\ mem[r] = x[1]
      OBVIOUS
    <2>2. r \in Root /\ r \notin Temps /\ ~Heap(r)
      BY VariableFacts
    <2>3. r # x /\ r # f
      BY <1>2, <2>2
    <2>4. \A j \in 1 .. Len(c) : ~Touches(c[j], r)
      BY <1>3, <1>4, <2>3 DEF Touches
    <2> QED
      BY <1>5, <1>6, <2>1, <2>2, <2>4 DEF Kept
  <1>10. \A p \in 1 .. MaxCtx, k \in 1 .. MaxArity : x # Temp(p, k)
    BY TempFacts
  <1>11. ASSUME NEW i \in 1 .. Len(c)
         PROVE  /\ c[i].op = "retain" => c[i].val \in live' \cup {NIL} /\ ~Newborn(c[i].val)'
                /\ c[i].op = "release" => Clean(c[i].slot)'
                /\ c[i].op \in {"release", "move", "poke"} /\ Heap(c[i].slot) =>
                      Kept(c[i].slot[1], c)'
                /\ c[i].op = "copy" => Kept(c[i].obj, c)' /\ Kept(c[i].from, c)'
                /\ \A p \in 1 .. MaxCtx, k \in 1 .. MaxArity :
                      ~Fills(c[i], Temp(p, k)) /\ (p <= Len(ctx') => ~Empties(c[i], Temp(p, k)))
    <2>1. \A p \in 1 .. MaxCtx, k \in 1 .. MaxArity :
             ~Fills(c[i], Temp(p, k)) /\ ~Empties(c[i], Temp(p, k))
      BY <1>2, <1>3, <1>4, <1>10
    <2>2. CASE i = 1
      BY <1>1, <2>1, <2>2 DEF Newborn
    <2>3. CASE i = 2
      BY <1>1, <1>9, <2>1, <2>3 DEF Clean, Kept
    <2>4. CASE i = 3
      BY <1>1, <1>9, <2>1, <2>4 DEF Kept
    <2> QED
      BY <1>3, <2>2, <2>3, <2>4
  <1>12. ASSUME NEW s, s \notin Temps, s \notin stale' \/ s = x
         PROVE  Lasts(c, s)'
    <2>1. CASE s = x
      <3>1. 3 \in 1 .. Len(c) /\ \A m \in 3 + 1 .. Len(c) : FALSE
        OBVIOUS
      <3> QED
        BY <1>4, <2>1, <3>1 DEF Lasts
    <2>2. CASE s # x
      <3>1. \A m \in 1 .. Len(c) : ~Empties(c[m], s)
        BY <1>2, <1>3, <1>4, <1>12, <2>2
      <3> QED
        BY <1>12, <2>2, <3>1 DEF Lasts
    <2> QED
      BY <2>1, <2>2
  <1>13. \A s \in Variables' : Lasts(c, s)'
    <2>1. \A s \in Variables : s \notin Temps /\ s \notin stale'
      BY <1>6, QuietFacts, VariableFacts
    <2> QED
      BY <1>5, <1>12, <2>1
  <1>14. \A o \in live', g \in StrongField : Lasts(c, <<o, g>>)'
    <2>1. \A o \in live', g \in StrongField : <<o, g>> \notin Temps
      <3>1. live' \subseteq Obj
        BY DEF TypeOK
      <3> QED
        BY <3>1, SlotKinds, ArcAssumption
    <2> QED
      BY <1>6, <1>12, <2>1
  <1> QED
    BY <1>6, <1>7, <1>8, <1>11, <1>13, <1>14, EmitSound

\* NEW.
LEMMA NewSound ==
    ASSUME TypeOK, TypeOK', IInv, Sound, Forms \subseteq LeakingForms,
           NEW x \in Place, NEW o \in Obj, New(x, o)
    PROVE  Sound'
  <1>1. /\ Boundary /\ Ready /\ ~IsWeak(x) /\ oc_alloc(o) /\ code' = NewCode(x, o)
        /\ UNCHANGED <<cascade, fault, depth, bind, ctx>>
    BY DEF New, Boundary, LeakingForms
  <1>2. Grows
    BY <1>1, GrowsFacts
  <1>3. /\ x \in (StrongSlot \ stale) \ Temps
        /\ Heap(x) => x[1] \in live /\ \E r \in Variables : r \notin stale /\ mem[r] = x[1]
    BY <1>1, PlaceSound
  <1>4. x \notin stale'
    <2>1. CASE x \in Root
      BY <1>2, <1>3, <2>1 DEF Grows
    <2>2. CASE x \in Obj \X StrongField
      BY <1>2, <1>3, <2>2 DEF Grows, Heap
    <2> QED
      BY <1>3, <2>1, <2>2, SlotKinds
  <1>5. o \in live' /\ o \notin live
    BY <1>1 DEF oc_alloc
  <1>6. /\ OperandsSound'
        /\ \A p : Newborn(p)' => Newborn(p)
    <2>1. PICK n : n = Len(ctx)
      OBVIOUS
    <2>2. n \in Nat /\ n <= Len(ctx) /\ Len(ctx') = n /\ \A i \in 1 .. n : ctx'[i] = ctx[i]
      BY <1>1, <2>1, CtxFacts
    <2>3. /\ live \subseteq live' /\ \A p \in live : rc'[p] = rc[p]
          /\ \A t \in Temps : mem'[t] = mem[t] /\ (t \in stale' <=> t \in stale)
          /\ cascade' = <<>>
      BY <1>2, SlotFacts DEF Grows
    <2>4. \A i \in 1 .. n : ctx[i].at # depth
      BY <1>1, <2>1, BoundaryWaits
    <2>5. \A i \in 1 .. n : NotEntered(i)' => NotEntered(i)
      BY <1>1 DEF NotEntered
    <2>6. \A d \in 1 .. depth' : bind'[d] = NIL \/ ~Heap(bind'[d])
      BY <1>1 DEF Sound, OperandsSound
    <2> QED
      BY <1>1, <2>2, <2>3, <2>4, <2>5, <2>6, CutOperands
  <1>7. ~Newborn(o)'
    BY <1>5, <1>6, NewbornFacts
  <1>8. \A i \in 1 .. MaxCtx, k \in 1 .. MaxArity :
           i > Len(ctx') \/ k > Len(ctx'[i].vals) => Temp(i, k) \in stale'
    <2>1. \A i \in 1 .. MaxCtx, k \in 1 .. MaxArity :
             i > Len(ctx) \/ k > Len(ctx[i].vals) => Temp(i, k) \in stale
      BY <1>1, QuietFacts
    <2>2. \A t \in Temps : t \in stale' <=> t \in stale
      BY <1>2, SlotFacts DEF Grows
    <2> QED
      BY <1>1, <2>1, <2>2, TempFacts
  <1>9. code' \in Seq(Instr)
    BY DEF TypeOK
  <1>c. PICK c : c = code'
    OBVIOUS
  <1>10. /\ Len(c) = 3 /\ c[1] = Retain(o, Flight(1)) /\ c[2] = Drop(x)
         /\ c[3] = Move(x, Flight(1)) /\ c \in Seq(Instr)
    BY <1>1, <1>9, <1>c DEF NewCode
  <1> QED
    BY <1>1, <1>2, <1>3, <1>4, <1>5, <1>6, <1>7, <1>8, <1>10, <1>c, ExchangeSound

\* A statement that opens and closes no expression keeps the operands.
LEMMA Standing ==
    ASSUME TypeOK, TypeOK', IInv, Sound, Boundary, Grows, UNCHANGED control
    PROVE  /\ OperandsSound'
           /\ \A p : Newborn(p)' => Newborn(p)
           /\ \A i \in 1 .. MaxCtx, k \in 1 .. MaxArity :
                 i > Len(ctx') \/ k > Len(ctx'[i].vals) => Temp(i, k) \in stale'
  <1>n. PICK n : n = Len(ctx)
    OBVIOUS
  <1>1. Ready /\ UNCHANGED <<depth, bind, ctx>>
    BY DEF Boundary, control
  <1>2. n \in Nat /\ n <= Len(ctx) /\ Len(ctx') = n /\ \A i \in 1 .. n : ctx'[i] = ctx[i]
    BY <1>1, <1>n, CtxFacts
  <1>3. /\ live \subseteq live' /\ \A p \in live : rc'[p] = rc[p]
        /\ \A t \in Temps : mem'[t] = mem[t] /\ (t \in stale' <=> t \in stale)
        /\ cascade' = <<>>
    BY SlotFacts DEF Grows
  <1>4. \A i \in 1 .. n : ctx[i].at # depth
    BY <1>n, BoundaryWaits
  <1>5. \A i \in 1 .. n : NotEntered(i)' => NotEntered(i)
    BY <1>1 DEF NotEntered
  <1>6. \A d \in 1 .. depth' : bind'[d] = NIL \/ ~Heap(bind'[d])
    BY <1>1 DEF Sound, OperandsSound
  <1>7. OperandsSound' /\ \A p : Newborn(p)' => Newborn(p)
    BY <1>1, <1>2, <1>3, <1>4, <1>5, <1>6, CutOperands
  <1>8. \A i \in 1 .. MaxCtx, k \in 1 .. MaxArity :
           i > Len(ctx) \/ k > Len(ctx[i].vals) => Temp(i, k) \in stale
    BY <1>1, QuietFacts
  <1> QED
    BY <1>1, <1>3, <1>7, <1>8, TempFacts

\* Code that touches no heap field, while the heap stays.
LEMMA EmitRoots ==
    ASSUME TypeOK, TypeOK', IInv, Sound, Ready, NEW c \in Seq(Instr), Emit(c), Orderly(c),
           \A i \in 1 .. Len(c) :
              /\ c[i].op \in {"retain", "clear", "release", "forget"}
              /\ c[i].op = "retain" => c[i].val \in live \cup {NIL} /\ ~Newborn(c[i].val)'
              /\ c[i].op = "release" => Clean(c[i].slot) /\ ~Heap(c[i].slot)
              /\ \A s : Empties(c[i], s) => s \in Root
              /\ \A p \in 1 .. MaxCtx, k \in 1 .. MaxArity :
                    ~Fills(c[i], Temp(p, k)) /\ (p <= Len(ctx') => ~Empties(c[i], Temp(p, k))),
           \A s \in Variables' :
              \/ s \in Variables /\ \A m \in 1 .. Len(c) : ~Empties(c[m], s)
              \/ \E j \in 1 .. Len(c) : /\ Fills(c[j], s)
                                        /\ \A m \in j + 1 .. Len(c) : ~Empties(c[m], s),
           \A i \in 1 .. MaxCtx, k \in 1 .. MaxArity :
              i > Len(ctx') \/ k > Len(ctx'[i].vals) =>
                 Temp(i, k) \in stale \/ \E j \in 1 .. Len(c) : Empties(c[j], Temp(i, k)),
           OperandsSound'
    PROVE  Sound'
  <1>1. code' = c /\ UNCHANGED <<live, rc, mem, stale, cascade, fault>> /\ cascade' = <<>>
    BY DEF Emit, heapState, Ready
  <1>2. ASSUME NEW i \in 1 .. Len(c)
        PROVE  /\ c[i].op = "retain" => c[i].val \in live' \cup {NIL} /\ ~Newborn(c[i].val)'
               /\ c[i].op = "release" => Clean(c[i].slot)'
               /\ c[i].op \in {"release", "move", "poke"} /\ Heap(c[i].slot) =>
                     Kept(c[i].slot[1], c)'
               /\ c[i].op = "copy" => Kept(c[i].obj, c)' /\ Kept(c[i].from, c)'
               /\ \A p \in 1 .. MaxCtx, k \in 1 .. MaxArity :
                     ~Fills(c[i], Temp(p, k)) /\ (p <= Len(ctx') => ~Empties(c[i], Temp(p, k)))
    <2>1. PICK e : e = c[i]
      OBVIOUS
    <2>2. /\ e.op \in {"retain", "clear", "release", "forget"}
          /\ e.op = "release" => Clean(e.slot)' /\ ~Heap(e.slot)
      BY <1>1, <2>1 DEF Clean
    <2>3. e.op \notin {"move", "poke", "copy"}
      BY <2>2
    <2> QED
      BY <1>1, <2>1, <2>2, <2>3
  <1>3. \A s \in Variables' : Lasts(c, s)'
    <2>1. \A s \in Variables : s \notin stale
      BY QuietFacts
    <2> QED
      BY <1>1, <2>1 DEF Lasts
  <1>4. \A o \in live', f \in StrongField : Lasts(c, <<o, f>>)'
    <2>1. ASSUME NEW o \in live, NEW f \in StrongField
          PROVE  <<o, f>> \notin stale /\ <<o, f>> \notin Root
      <3>1. live \subseteq Obj
        BY DEF TypeOK
      <3> QED
        BY <3>1, QuietFacts, SlotKinds
    <2>2. ASSUME NEW o \in live, NEW f \in StrongField, NEW m \in 1 .. Len(c)
          PROVE  ~Empties(c[m], <<o, f>>)
      <3>1. PICK s : s = <<o, f>>
        OBVIOUS
      <3>2. s \notin Root
        BY <2>1, <3>1
      <3> QED
        BY <3>1, <3>2
    <2> QED
      BY <1>1, <2>1, <2>2 DEF Lasts
  <1>5. \A t \in Temps : mem'[t] = mem[t] /\ (t \in stale' <=> t \in stale)
    BY <1>1
  <1> QED
    BY <1>1, <1>2, <1>3, <1>4, <1>5, EmitSound

LEMMA ArraySound ==
    ASSUME TypeOK, TypeOK', IInv, Sound, Forms \subseteq LeakingForms,
           NEW x \in Place, NEW y \in Place, ArrayAssign(x, y)
    PROVE  Sound'
  <1>v. PICK v : v = mem[y]
    OBVIOUS
  <1>c. PICK c : c = code'
    OBVIOUS
  <1>1. /\ Boundary /\ Ready /\ c = <<Poke(x, v)>> /\ UNCHANGED heapState /\ UNCHANGED control
        /\ IsWeak(x) /\ Heap(x)
    BY <1>v, <1>c DEF ArrayAssign, Boundary, Emit, LeakingForms, IsWeak
  <1>2. Grows
    BY <1>1, GrowsFacts
  <1>3. c \in Seq(Instr)
    BY <1>c DEF TypeOK
  <1>4. Len(c) = 1 /\ c[1].op = "poke" /\ c[1].slot = x /\ \A i \in 1 .. Len(c) : i = 1
    BY <1>1, InstrFacts
  <1>5. \A s : (Fills(c[1], s) <=> s = x) /\ ~Empties(c[1], s)
    BY <1>4 DEF Fills, Empties
  <1>6. PICK r \in Variables : r \notin stale /\ mem[r] = x[1]
    BY <1>1, PlaceSound, VariableFacts
  <1>7. x \notin Temps /\ x \notin StrongSlot
    BY <1>1, PlaceFacts, SlotKinds, SlotFacts
  <1>8. /\ UNCHANGED <<live, rc, mem, stale, cascade, fault, depth, bind, ctx>> /\ cascade' = <<>>
        /\ Variables' = Variables
    BY <1>1 DEF heapState, control, Variables, Ready
  <1>9. Kept(x[1], c)'
    <2>1. ~Touches(c[1], r)
      BY <1>5, <1>7, VariableFacts DEF Touches
    <2> QED
      BY <1>4, <1>6, <1>8, <2>1 DEF Kept
  <1>10. Orderly(c)
    BY <1>4 DEF Orderly
  <1>11. \A s \in StrongSlot \ stale : Lasts(c, s)'
    BY <1>4, <1>5, <1>8 DEF Lasts
  <1>12. /\ \A s \in Variables' : Lasts(c, s)'
         /\ \A o \in live', f \in StrongField : Lasts(c, <<o, f>>)'
    BY <1>1, <1>8, <1>11, QuietFacts
  <1>13. /\ OperandsSound'
         /\ \A i \in 1 .. MaxCtx, k \in 1 .. MaxArity :
               i > Len(ctx') \/ k > Len(ctx'[i].vals) => Temp(i, k) \in stale'
    BY <1>1, <1>2, Standing
  <1>14. ASSUME NEW i \in 1 .. Len(c)
         PROVE  /\ c[i].op = "retain" => c[i].val \in live' \cup {NIL} /\ ~Newborn(c[i].val)'
                /\ c[i].op = "release" => Clean(c[i].slot)'
                /\ c[i].op \in {"release", "move", "poke"} /\ Heap(c[i].slot) =>
                      Kept(c[i].slot[1], c)'
                /\ c[i].op = "copy" => Kept(c[i].obj, c)' /\ Kept(c[i].from, c)'
                /\ \A p \in 1 .. MaxCtx, k \in 1 .. MaxArity :
                      ~Fills(c[i], Temp(p, k)) /\ (p <= Len(ctx') => ~Empties(c[i], Temp(p, k)))
    <2>1. i = 1 /\ c[i].op = "poke" /\ c[i].slot = x
      BY <1>4
    <2>2. \A p \in 1 .. MaxCtx, k \in 1 .. MaxArity : x # Temp(p, k)
      BY <1>7, TempFacts
    <2> QED
      BY <1>5, <1>9, <2>1, <2>2 DEF Kept
  <1> QED
    BY <1>1, <1>3, <1>8, <1>10, <1>12, <1>13, <1>14, <1>c, EmitSound

\* The innermost expression is done.
LEMMA Closing ==
    ASSUME TypeOK, IInv, Sound, Ready, Len(ctx) \in 1 .. MaxCtx, CloseTop,
           UNCHANGED <<live, rc, mem, stale>>, cascade' = <<>>
    PROVE  OperandsSound' /\ \A p : Newborn(p)' => Newborn(p)
  <1>n. PICK n : n = Len(ctx)
    OBVIOUS
  <1>1. /\ ctx' = SubSeq(ctx, 1, n - 1) /\ UNCHANGED <<depth, bind>> /\ n - 1 \in Nat /\ n \in Nat
        /\ Len(ctx') = n - 1 /\ \A i \in 1 .. n - 1 : ctx'[i] = ctx[i]
        /\ n - 1 <= Len(ctx)
    BY <1>n, CtxFacts DEF CloseTop
  <1>2. \A i \in 1 .. n - 1 : NotEntered(i)' => NotEntered(i)
    <2>1. \A i \in 1 .. n - 1 : \A j \in i + 1 .. n - 1 : j \in i + 1 .. Len(ctx) /\ j \in 1 .. n - 1
      BY <1>1, <1>n
    <2> QED
      BY <1>1, <2>1 DEF NotEntered
  <1>3. \A i \in 1 .. n - 1 : i # Len(ctx)
    BY <1>1, <1>n
  <1>4. \A d \in 1 .. depth' : bind'[d] = NIL \/ ~Heap(bind'[d])
    BY <1>1 DEF Sound, OperandsSound
  <1> QED
    BY <1>1, <1>2, <1>3, <1>4, CutOperands

\* The end of a comparison.
LEMMA CompareSound ==
    ASSUME TypeOK, TypeOK', IInv, Sound, Compare
    PROVE  Sound'
  <1>n. PICK n : n = Len(ctx)
    OBVIOUS
  <1>c. PICK c : c = DropArgs(n)
    OBVIOUS
  <1>m. PICK m : m = Arity(ctx[n].kind)
    OBVIOUS
  <1>T. PICK T : T = {Temp(n, k) : k \in 1 .. m}
    OBVIOUS
  <1>1. /\ \E kind \in {"compare", "relate"} : Finish(kind)
        /\ Emit(c) /\ CloseTop
    BY <1>n, <1>c DEF Compare
  <1>2. /\ Ready /\ n \in 1 .. MaxCtx /\ Len(ctx[n].vals) = m /\ n \in Nat /\ n > 0
        /\ m \in Nat /\ m <= MaxArity /\ MaxArity \in Nat /\ ctx \in Seq(Context)
    BY <1>1, <1>n, <1>m, FinishFacts, TempFacts DEF IInv, TypeOK
  <1>3. c \in Seq(Instr) /\ Wipes(c, T)
    BY <1>2, <1>c, <1>m, <1>T, DropArgsWipes
  <1>4. /\ Orderly(c)
        /\ \A i \in 1 .. Len(c) :
                 /\ c[i].op \in {"release", "forget"}
                 /\ c[i].op = "release" => c[i].slot \in T
                 /\ \A s : ~Fills(c[i], s) /\ (Empties(c[i], s) => s \in T)
        /\ \A s \in T : \E i \in 1 .. Len(c) : Empties(c[i], s)
    BY <1>3, WipesFacts
  <1>5. /\ ctx' = SubSeq(ctx, 1, n - 1) /\ UNCHANGED <<depth, bind>> /\ n - 1 \in Nat
        /\ Len(ctx') = n - 1 /\ \A i \in 1 .. n - 1 : ctx'[i] = ctx[i]
    BY <1>1, <1>2, <1>n DEF CloseTop
  <1>6. \A k \in 1 .. m : k \in 1 .. MaxArity /\ k \in Int
    BY <1>2
  <1>7. \A s \in T : s \in Temps /\ s \in Root /\ ~Heap(s) /\ s \notin Variables
    BY <1>2, <1>6, <1>T, TempFacts, SlotFacts, SlotKinds, VariableFacts DEF Heap
  <1>8. \A p \in 1 .. MaxCtx, k \in 1 .. MaxArity : Temp(p, k) \in T => p = n
    BY <1>2, <1>6, <1>T, TempInjective
  <1>9. UNCHANGED <<live, rc, mem, stale, cascade, fault>> /\ cascade' = <<>>
    BY <1>1, <1>2 DEF Emit, heapState, Ready
  <1>10. OperandsSound'
    <2>1. Len(ctx) \in 1 .. MaxCtx
      BY <1>2, <1>n
    <2> QED
      BY <1>1, <1>2, <1>9, <2>1, Closing
  <1>11. ASSUME NEW i \in 1 .. MaxCtx, NEW k \in 1 .. MaxArity,
                i > Len(ctx') \/ k > Len(ctx'[i].vals)
         PROVE  Temp(i, k) \in stale \/ \E j \in 1 .. Len(c) : Empties(c[j], Temp(i, k))
    <2>1. CASE i = n /\ k \in 1 .. m
      BY <1>4, <1>T, <2>1
    <2>2. CASE ~(i = n /\ k \in 1 .. m)
      <3>1. i > n \/ k > Len(ctx[i].vals)
        BY <1>2, <1>5, <1>11, <2>2
      <3> QED
        BY <1>2, <1>n, <3>1, QuietFacts
    <2> QED
      BY <2>1, <2>2
  <1>12. Variables' = Variables
    BY <1>5 DEF Variables
  <1>13. \A s \in Temps : Clean(s)
    BY <1>2, QuietFacts DEF Clean
  <1>14. ASSUME NEW i \in 1 .. Len(c)
         PROVE  /\ c[i].op \in {"retain", "clear", "release", "forget"}
                /\ c[i].op = "retain" => c[i].val \in live \cup {NIL} /\ ~Newborn(c[i].val)'
                /\ c[i].op = "release" => Clean(c[i].slot) /\ ~Heap(c[i].slot)
                /\ \A s : Empties(c[i], s) => s \in Root
                /\ \A p \in 1 .. MaxCtx, k \in 1 .. MaxArity :
                      ~Fills(c[i], Temp(p, k)) /\ (p <= Len(ctx') => ~Empties(c[i], Temp(p, k)))
    <2>1. /\ c[i].op \in {"release", "forget"} /\ c[i].op # "retain"
          /\ c[i].op = "release" => c[i].slot \in T
          /\ \A s : ~Fills(c[i], s) /\ (Empties(c[i], s) => s \in T)
      BY <1>4
    <2>2. \A p \in 1 .. MaxCtx, k \in 1 .. MaxArity : p <= Len(ctx') => Temp(p, k) \notin T
      BY <1>2, <1>5, <1>8
    <2> QED
      BY <1>7, <1>13, <2>1, <2>2
  <1>15. \A s \in Variables' : s \in Variables /\ \A m2 \in 1 .. Len(c) : ~Empties(c[m2], s)
    BY <1>4, <1>7, <1>12
  <1> QED
    BY <1>1, <1>2, <1>3, <1>4, <1>10, <1>11, <1>14, <1>15, EmitRoots

\* The destination of a store that has its value is where it was, and so is
\* the first operand of a relation.
LEMMA TargetFacts ==
    ASSUME TypeOK, IInv, Sound, NEW kind \in {"store", "relate"}, Finish(kind),
           NEW x, x = Top.dst
    PROVE  /\ x \in Slot /\ x \notin Temps
           /\ Heap(x) => x[1] \in live /\ \E r \in Variables : r \notin stale /\ mem[r] = x[1]
           /\ ~IsWeak(x) => x \in (StrongSlot \ stale) \ Temps
  <1>n. PICK n : n = Len(ctx)
    OBVIOUS
  <1>1. /\ Ready /\ n \in 1 .. MaxCtx /\ x = ctx[n].dst /\ VariableAt(x, depth)
        /\ n \in 1 .. Len(ctx) /\ ctx[n].at = depth
    <2>1. /\ Ready /\ Len(ctx) \in 1 .. MaxCtx /\ Top = ctx[Len(ctx)] /\ VariableAt(Top.dst, depth)
          /\ Top.at = depth
      BY FinishFacts DEF IInv
    <2> QED
      BY <1>n, <2>1
  <1>2. x \in Slot /\ x \notin Temps /\ (x \in Frames => x[1] <= depth)
    BY <1>1 DEF VariableAt
  <1>3. NotEntered(n)
    BY <1>1 DEF NotEntered
  <1>4. ASSUME Heap(x)
        PROVE  x[1] \in live /\ \E r \in Variables : r \notin stale /\ mem[r] = x[1]
    <2>1. PICK p : p = x[1]
      OBVIOUS
    <2>2. x # NIL
      BY <1>2, NilAssumption
    <2>3. Guarded(p, <<>>, 1) /\ p \in Obj
      BY <1>1, <1>3, <1>4, <2>1, <2>2 DEF Sound, OperandsSound, Heap
    <2>4. p \in live
      BY <2>3, GuardedFacts DEF IInv
    <2>5. \E r \in Variables : r \notin stale /\ mem[r] = p
      BY <1>1, <2>3, QuietFacts DEF Guarded
    <2> QED
      BY <2>1, <2>4, <2>5
  <1>5. ASSUME ~IsWeak(x)
        PROVE  x \in (StrongSlot \ stale) \ Temps
    <2>1. x \in StrongSlot
      BY <1>2, <1>5, SlotKinds
    <2>2. CASE Heap(x)
      <3>1. x \in Obj \X StrongField
        BY <2>1, <2>2, SlotKinds DEF Heap
      <3> QED
        BY <1>1, <1>2, <1>4, <2>1, <2>2, <3>1, QuietFacts
    <2>3. CASE ~Heap(x)
      <3>1. x \in Root
        BY <2>1, <2>3, SlotKinds DEF Heap
      <3>2. CASE x \in Globals
        BY <1>1, <1>2, <3>2, QuietFacts DEF Variables
      <3>3. CASE x \in Frames
        <4>1. x[1] \in 1 .. MaxDepth /\ x \in FrameSlots(x[1])
          BY <3>3, FrameOf
        <4>2. x[1] \in 1 .. depth
          BY <1>2, <3>3, <4>1, ArcAssumption DEF TypeOK
        <4>3. x \in Variables
          BY <4>1, <4>2 DEF Variables
        <4> QED
          BY <1>1, <1>2, <4>3, QuietFacts
      <3> QED
        BY <1>2, <3>1, <3>2, <3>3 DEF Root
    <2> QED
      BY <2>2, <2>3
  <1> QED
    BY <1>2, <1>4, <1>5

LEMMA CompareSafe ==
    ASSUME TypeOK, IInv, Sound
    PROVE  ~CompareFaults
  <1>1. SUFFICES ASSUME CompareFaults PROVE FALSE
    OBVIOUS
  <1>2. Finish("relate") /\ Gone(Top.dst)
    BY <1>1 DEF CompareFaults
  <1>3. PICK x : x = Top.dst
    OBVIOUS
  <1>4. Heap(x) => x[1] \in live
    BY <1>2, <1>3, TargetFacts
  <1> QED
    BY <1>2, <1>3, <1>4 DEF Heap, Gone

LEMMA StoreSound ==
    ASSUME TypeOK, TypeOK', IInv, Sound, Store
    PROVE  Sound'
  <1>n. PICK n : n = Len(ctx)
    OBVIOUS
  <1>c. PICK c : c = code'
    OBVIOUS
  <1>x. PICK x : x = Top.dst
    OBVIOUS
  <1>v. PICK v : v = Top.vals[1]
    OBVIOUS
  <1>t. PICK t : t = Temp(n, 1)
    OBVIOUS
  <1>1. /\ Finish("store") /\ c = StoreCode(x, v) /\ UNCHANGED heapState /\ CloseTop
        /\ Operand(1) = t
    BY <1>n, <1>c, <1>x, <1>v, <1>t DEF Store, Emit, Operand
  <1>2. /\ Ready /\ n \in 1 .. MaxCtx /\ Len(ctx[n].vals) = 1 /\ ctx[n].kind = "store"
        /\ ctx[n].at = depth /\ v = ctx[n].vals[1] /\ n \in Nat /\ n > 0 /\ n \in 1 .. Len(ctx)
    <2>1. Arity("store") = 1
      BY DEF Arity
    <2>2. /\ Ready /\ Top.kind = "store" /\ Top.at = depth
          /\ Len(ctx) \in 1 .. MaxCtx /\ Top = ctx[Len(ctx)] /\ Len(Top.vals) = 1
      BY <1>1, <2>1, FinishFacts DEF IInv
    <2> QED
      BY <2>2, <1>n, <1>v
  <1>3. /\ x \in Slot /\ x \notin Temps
        /\ Heap(x) => x[1] \in live /\ \E r \in Variables : r \notin stale /\ mem[r] = x[1]
        /\ ~IsWeak(x) => x \in (StrongSlot \ stale) \ Temps
    BY <1>1, <1>x, TargetFacts
  <1>4. c \in Seq(Instr)
    BY <1>c DEF TypeOK
  <1>5. /\ UNCHANGED <<live, rc, mem, stale, cascade, fault>> /\ cascade' = <<>> /\ Grows
        /\ UNCHANGED <<depth, bind>>
    BY <1>1, <1>2, GrowsFacts DEF heapState, Ready, CloseTop
  <1>6. Variables' = Variables
    BY <1>5 DEF Variables
  <1>7. /\ Len(ctx') = n - 1 /\ \A i \in 1 .. n - 1 : ctx'[i] = ctx[i]
    <2>1. ctx \in Seq(Context) /\ ctx' = SubSeq(ctx, 1, n - 1)
      BY <1>1, <1>n DEF CloseTop, TypeOK
    <2> QED
      BY <1>2, <1>n, <2>1
  <1>8. OperandsSound' /\ \A p : Newborn(p)' => Newborn(p)
    BY <1>1, <1>2, <1>5, <1>n, Closing
  <1>9. v \in live \cup {NIL} /\ ~Newborn(v)'
    <2>1. NotEntered(n) /\ 1 \in 1 .. Len(ctx[n].vals) /\ ~Receiver(n, 1)
      BY <1>2 DEF NotEntered, Receiver
    <2>2. v \in live \cup {NIL} /\ (v # NIL => rc[v] # 0)
      BY <1>2, <2>1, OperandLive
    <2>3. NIL \notin live
      BY ArcAssumption DEF TypeOK
    <2> QED
      BY <1>8, <2>2, <2>3, NewbornFacts
  <1>10. /\ t \in Temps /\ t \in Root /\ t # x
         /\ \A p \in 1 .. MaxCtx, k \in 1 .. MaxArity : Temp(p, k) = t => p = n
    <2>1. 1 \in 1 .. MaxArity
      BY ArcAssumption DEF MaxArity
    <2> QED
      BY <1>2, <1>3, <1>t, <2>1, TempFacts, SlotFacts, TempInjective
  <1>11. ASSUME NEW i \in 1 .. MaxCtx, NEW k \in 1 .. MaxArity,
                i > Len(ctx') \/ k > Len(ctx'[i].vals)
         PROVE  Temp(i, k) \in stale \/ Temp(i, k) = t
    <2>1. CASE i = n /\ k = 1
      BY <1>t, <2>1
    <2>2. CASE ~(i = n /\ k = 1)
      <3>1. i > n \/ k > Len(ctx[i].vals)
        <4>1. CASE i = n
          <5>1. k > 1
            BY <2>2, <4>1, TempFacts
          <5> QED
            BY <1>2, <4>1, <5>1
        <4>2. CASE i \in 1 .. n - 1
          BY <1>2, <1>7, <1>11, <4>2
        <4> QED
          BY <1>2, <4>1, <4>2
      <3> QED
        BY <1>2, <1>n, <3>1, QuietFacts
    <2> QED
      BY <2>1, <2>2
  <1>12. CASE ~IsWeak(x) /\ t \in stale
    <2>1. /\ Len(c) = 3 /\ c[1] = Retain(v, Flight(1)) /\ c[2] = Drop(x)
          /\ c[3] = Move(x, Flight(1))
      BY <1>1, <1>12 DEF StoreCode, Owned
    <2>2. \A i \in 1 .. MaxCtx, k \in 1 .. MaxArity :
             i > Len(ctx') \/ k > Len(ctx'[i].vals) => Temp(i, k) \in stale'
      BY <1>5, <1>11, <1>12
    <2> QED
      BY <1>2, <1>3, <1>4, <1>5, <1>8, <1>9, <1>12, <1>c, <2>1, <2>2, ExchangeSound
  <1>13. ASSUME Len(c) = 2,
                \/ ~IsWeak(x) /\ c[1] = Drop(x) /\ c[2] = Move(x, t)
                \/ IsWeak(x) /\ c[1] = Poke(x, v) /\ c[2] = Forget({t})
         PROVE  Sound'
    <2>1. \A i \in 1 .. Len(c) : i = 1 \/ i = 2
      BY <1>13
    <2>2. \/ /\ ~IsWeak(x) /\ c[1].op = "release" /\ c[1].slot = x
             /\ c[2].op = "move" /\ c[2].slot = x /\ c[2].from = t
          \/ /\ IsWeak(x) /\ c[1].op = "poke" /\ c[1].slot = x
             /\ c[2].op = "forget" /\ c[2].slots = {t}
      BY <1>13, InstrFacts
    <2>3. \A s, j : j \in 1 .. Len(c) =>
             /\ Fills(c[j], s) => s = x
             /\ Empties(c[j], s) => s = t \/ (j = 1 /\ s = x /\ ~IsWeak(x))
      BY <2>1, <2>2 DEF Fills, Empties
    <2>4. Empties(c[2], t) /\ 2 \in 1 .. Len(c)
      BY <1>13, <2>2 DEF Empties
    <2>5. ~IsWeak(x) => Fills(c[2], x)
      BY <2>2 DEF Fills
    <2>6. Orderly(c)
      <3>1. \A j \in 1 .. 1 - 1 : FALSE
        OBVIOUS
      <3> QED
        BY <1>3, <2>1, <2>2, <3>1 DEF Orderly, UntilThen
    <2>7. Heap(x) => Kept(x[1], c)'
      <3> SUFFICES ASSUME Heap(x) PROVE Kept(x[1], c)'
        OBVIOUS
      <3>1. PICK r \in Variables : r \notin stale /\ mem[r] = x[1]
        BY <1>3
      <3>2. r # x /\ r # t
        BY <1>10, VariableFacts
      <3>3. \A j \in 1 .. Len(c) : ~Touches(c[j], r)
        BY <2>3, <3>2 DEF Touches
      <3> QED
        BY <1>5, <1>6, <3>1, <3>3 DEF Kept
    <2>8. ASSUME NEW i \in 1 .. Len(c)
          PROVE  /\ c[i].op = "retain" => c[i].val \in live' \cup {NIL} /\ ~Newborn(c[i].val)'
                 /\ c[i].op = "release" => Clean(c[i].slot)'
                 /\ c[i].op \in {"release", "move", "poke"} /\ Heap(c[i].slot) =>
                       Kept(c[i].slot[1], c)'
                 /\ c[i].op = "copy" => Kept(c[i].obj, c)' /\ Kept(c[i].from, c)'
                 /\ \A p \in 1 .. MaxCtx, k \in 1 .. MaxArity :
                       ~Fills(c[i], Temp(p, k)) /\ (p <= Len(ctx') => ~Empties(c[i], Temp(p, k)))
      <3>1. \A p \in 1 .. MaxCtx, k \in 1 .. MaxArity :
               Temp(p, k) # x /\ (p <= Len(ctx') => Temp(p, k) # t)
        BY <1>2, <1>3, <1>7, <1>10, TempFacts
      <3>2. ASSUME NEW p \in 1 .. MaxCtx, NEW k \in 1 .. MaxArity
            PROVE  ~Fills(c[i], Temp(p, k)) /\ (p <= Len(ctx') => ~Empties(c[i], Temp(p, k)))
        <4>1. PICK s : s = Temp(p, k)
          OBVIOUS
        <4>2. s # x /\ (p <= Len(ctx') => s # t)
          BY <3>1, <4>1
        <4> QED
          BY <2>3, <4>1, <4>2
      <3>3. PICK e : e = c[i]
        OBVIOUS
      <3>4. /\ e.op \in {"release", "move", "poke", "forget"}
            /\ e.op \in {"release", "move", "poke"} => e.slot = x
            /\ e.op = "release" => ~IsWeak(x)
        BY <2>1, <2>2, <3>3
      <3>5. e.op # "retain" /\ e.op # "copy"
        BY <3>4
      <3>6. ~IsWeak(x) => Clean(x)'
        BY <1>3, <1>5 DEF Clean
      <3>7. e.op = "release" => e.slot = x
        BY <3>4
      <3>8. e.op = "release" => Clean(e.slot)'
        BY <3>4, <3>6, <3>7 DEF Clean
      <3>9. e.op \in {"release", "move", "poke"} /\ Heap(e.slot) => Kept(e.slot[1], c)'
        BY <2>7, <3>4 DEF Kept
      <3> QED
        BY <3>2, <3>3, <3>5, <3>8, <3>9
    <2>9. ASSUME NEW s \in StrongSlot \ stale, s \notin Temps
          PROVE  Lasts(c, s)'
      <3>1. CASE s = x
        <4>1. ~IsWeak(x)
          BY <1>3, <3>1, SlotKinds
        <4>2. \A m \in 2 + 1 .. Len(c) : FALSE
          BY <1>13
        <4> QED
          BY <2>4, <2>5, <3>1, <4>1, <4>2 DEF Lasts
      <3>2. CASE s # x
        <4>1. \A m \in 1 .. Len(c) : ~Empties(c[m], s)
          BY <1>10, <2>3, <2>9, <3>2
        <4> QED
          BY <1>5, <2>9, <4>1 DEF Lasts
      <3> QED
        BY <3>1, <3>2
    <2>10. \A s \in Variables' : Lasts(c, s)'
      BY <1>2, <1>6, <2>9, QuietFacts, VariableFacts
    <2>11. \A o \in live', f \in StrongField : Lasts(c, <<o, f>>)'
      <3>1. \A o \in live, f \in StrongField :
               <<o, f>> \in StrongSlot \ stale /\ <<o, f>> \notin Temps
        <4>1. live \subseteq Obj
          BY DEF TypeOK
        <4> QED
          BY <1>2, <4>1, QuietFacts, SlotKinds, SlotFacts
      <3> QED
        BY <1>5, <2>9, <3>1
    <2>12. \A i \in 1 .. MaxCtx, k \in 1 .. MaxArity :
              i > Len(ctx') \/ k > Len(ctx'[i].vals) =>
                 Temp(i, k) \in stale' \/ \E j \in 1 .. Len(c) : Empties(c[j], Temp(i, k))
      BY <1>5, <1>11, <2>4
    <2>13. \A s \in Temps : mem'[s] = mem[s] /\ (s \in stale' <=> s \in stale)
      BY <1>5
    <2> QED
      BY <1>2, <1>4, <1>5, <1>8, <1>c, <2>6, <2>8, <2>10, <2>11, <2>12, <2>13, EmitSound
  <1>14. CASE ~IsWeak(x) /\ t \notin stale
    <2>1. Len(c) = 2 /\ c[1] = Drop(x) /\ c[2] = Move(x, t)
      BY <1>1, <1>14 DEF StoreCode, Owned
    <2> QED
      BY <1>13, <1>14, <2>1
  <1>15. CASE IsWeak(x)
    <2>1. Len(c) = 2 /\ c[1] = Poke(x, v) /\ c[2] = Forget({t})
      BY <1>1, <1>15 DEF StoreCode
    <2> QED
      BY <1>13, <1>15, <2>1
  <1> QED
    BY <1>12, <1>14, <1>15

\* The prologue retains the arguments into the frame and clears the locals.
LEMMA EnterParts ==
    ASSUME NEW d \in 1 .. MaxDepth, NEW vals \in Seq(Value), Len(vals) = Len(Params)
    PROVE  /\ EnterCode(d, vals) \in Seq(Instr)
           /\ \A i \in 1 .. Len(EnterCode(d, vals)) :
                 /\ EnterCode(d, vals)[i].op \in {"retain", "clear"}
                 /\ EnterCode(d, vals)[i].slot \in FrameSlots(d)
                 /\ EnterCode(d, vals)[i].op = "retain" =>
                      \E k \in 1 .. Len(vals) : EnterCode(d, vals)[i].val = vals[k]
           /\ \A s \in FrameSlots(d) :
                 \E i \in 1 .. Len(EnterCode(d, vals)) : EnterCode(d, vals)[i].slot = s
  <1> DEFINE all == Params \o Locals
             p == Len(Params)
             q == Len(Locals)
             a == [k \in 1 .. p |-> Retain(vals[k], <<d, Params[k]>>)]
             b == [k \in 1 .. q |-> Clear(<<d, Locals[k]>>)]
             c == EnterCode(d, vals)
  <1>1. c = a \o b
    BY DEF EnterCode, ForEach
  <1>2. p \in Nat /\ q \in Nat /\ Len(all) = p + q /\ Len(vals) = p
        /\ (\A k \in 1 .. p : all[k] = Params[k])
        /\ (\A k \in 1 .. q : all[p + k] = Locals[k])
    BY ArcAssumption
  <1>3. FrameSlots(d) = {<<d, all[k]>> : k \in 1 .. Len(all)}
    BY DEF FrameSlots
  <1>5. c \in Seq(Instr)
    BY EnterCodeType
  <1>6. a \in Seq(Instr) /\ Len(a) = p
    BY <1>2, FrameWord, FcnIsSeq DEF Retain, Instr
  <1>7. b \in Seq(Instr) /\ Len(b) = q
    BY <1>2, FrameWord, SlotFacts, FcnIsSeq DEF Clear, Instr
  <1>8. \A k \in 1 .. p : /\ a[k].op = "retain" /\ a[k].slot = <<d, Params[k]>>
                          /\ a[k].val = vals[k]
    BY DEF Retain
  <1>9. \A k \in 1 .. q : b[k].op = "clear" /\ b[k].slot = <<d, Locals[k]>>
    BY DEF Clear
  <1> HIDE DEF all, p, q, a, b, c
  <1>10. Len(c) = p + q /\ (\A k \in 1 .. p : c[k] = a[k])
                        /\ (\A k \in 1 .. q : c[p + k] = b[k])
    <2>1. a \in Seq(Instr) /\ b \in Seq(Instr)
      BY <1>6, <1>7
    <2>2. Joined(c, a, b)
      BY <1>1, <2>1, Joining
    <2>3. /\ Len(c) = Len(a) + Len(b)
          /\ \A k \in 1 .. Len(a) : c[k] = a[k]
          /\ \A k \in 1 .. Len(b) : c[Len(a) + k] = b[k]
      BY <2>2 DEF Joined
    <2> QED
      BY <1>6, <1>7, <2>3
  <1>11. ASSUME NEW k \in 1 .. Len(c)
         PROVE  /\ c[k].op \in {"retain", "clear"} /\ c[k].slot = <<d, all[k]>>
                /\ c[k].op = "retain" => k \in 1 .. p /\ c[k].val = vals[k]
    <2>1. CASE k <= p
      <3>1. k \in 1 .. p
        BY <1>2, <1>10, <2>1
      <3> QED
        BY <3>1, <1>2, <1>8, <1>10
    <2>2. CASE k > p
      <3> DEFINE m == k - p
      <3>1. m \in 1 .. q /\ k = p + m
        BY <1>2, <1>10, <2>2
      <3> HIDE DEF m
      <3>2. c[p + m] = b[m] /\ all[p + m] = Locals[m]
        BY <3>1, <1>2, <1>10
      <3>3. c[k] = b[m] /\ all[k] = Locals[m]
        BY <3>1, <3>2
      <3> QED
        BY <3>1, <3>3, <1>9
    <2> QED
      BY <1>2, <1>10, <2>1, <2>2
  <1>12. Len(all) = Len(c)
    BY <1>2, <1>10
  <1>13. ASSUME NEW k \in 1 .. Len(c)
         PROVE  /\ c[k].op \in {"retain", "clear"} /\ c[k].slot \in FrameSlots(d)
                /\ c[k].op = "retain" => \E j \in 1 .. Len(vals) : c[k].val = vals[j]
    BY <1>2, <1>3, <1>11, <1>12
  <1>14. \A s \in FrameSlots(d) : \E i \in 1 .. Len(c) : c[i].slot = s
    BY <1>3, <1>11, <1>12
  <1> QED
    BY <1>5, <1>13, <1>14 DEF c

\* A procedure is entered.
LEMMA EnterSound ==
    ASSUME TypeOK, TypeOK', IInv, Sound, Enter
    PROVE  Sound'
  <1>n. PICK n : n = Len(ctx)
    OBVIOUS
  <1>e. PICK e : e = depth + 1
    OBVIOUS
  <1>w. PICK w : w = Top.vals
    OBVIOUS
  <1>c. PICK c : c = EnterCode(e, w)
    OBVIOUS
  <1>1. /\ Finish("call") \/ Finish("construct")
        /\ depth < MaxDepth /\ depth' = e /\ bind' = [bind EXCEPT ![e] = Top.dst]
        /\ Emit(c) /\ ctx' = ctx
    BY <1>e, <1>w, <1>c DEF Enter
  <1>2. /\ Ready /\ n \in 1 .. MaxCtx /\ n \in 1 .. Len(ctx) /\ Top = ctx[n] /\ ctx[n].at = depth
        /\ w \in Seq(Value) /\ Len(w) = Len(Params) /\ ctx[n].kind \in {"call", "construct"}
        /\ w = ctx[n].vals
    <2>1. Arity("call") = Len(Params) /\ Arity("construct") = Len(Params)
      BY DEF Arity
    <2>2. /\ Ready /\ Len(ctx) \in 1 .. MaxCtx /\ Top = ctx[Len(ctx)] /\ Top.at = depth
          /\ Top.vals \in Seq(Value) /\ Len(Top.vals) = Len(Params)
          /\ Top.kind \in {"call", "construct"}
      BY <1>1, <2>1, FinishFacts DEF IInv
    <2> QED
      BY <2>2, <1>n, <1>w
  <1>3. /\ depth \in Int /\ depth >= 0 /\ MaxDepth \in Int /\ e \in 1 .. MaxDepth
        /\ bind \in [1 .. MaxDepth -> Slot \cup {NIL}] /\ n \in Nat
        /\ \A i \in 1 .. n : ctx[i].at \in Int /\ ctx[i].at <= depth
    <2>1. \A i \in 1 .. Len(ctx) : ctx[i].at \in Int /\ ctx[i].at <= depth
      BY CtxFacts DEF IInv, CtxOK
    <2>2. /\ depth \in Int /\ depth >= 0 /\ MaxDepth \in Int
          /\ bind \in [1 .. MaxDepth -> Slot \cup {NIL}]
      BY ArcAssumption DEF TypeOK
    <2> QED
      BY <1>1, <1>e, <1>n, <1>2, <2>1, <2>2
  <1>4. /\ c \in Seq(Instr)
        /\ \A i \in 1 .. Len(c) :
              /\ c[i].op \in {"retain", "clear"} /\ c[i].slot \in FrameSlots(e)
              /\ c[i].op = "retain" => \E k \in 1 .. Len(w) : c[i].val = w[k]
        /\ \A s \in FrameSlots(e) : \E i \in 1 .. Len(c) : c[i].slot = s
    <2>1. e \in 1 .. MaxDepth /\ w \in Seq(Value) /\ Len(w) = Len(Params) /\ c = EnterCode(e, w)
      BY <1>2, <1>3, <1>c
    <2> QED
      BY <2>1, EnterParts
  <1>5. UNCHANGED <<live, rc, mem, stale, cascade, fault>> /\ cascade' = <<>>
    BY <1>1, <1>2 DEF Emit, heapState, Ready
  <1>6. NotEntered(n)
    BY <1>2 DEF NotEntered
  <1>7. ASSUME NEW i \in 1 .. n, NotEntered(i)'
        PROVE  NotEntered(i) /\ i # n
    <2>1. ctx[i].at # depth'
      BY <1>1, <1>3, <1>e
    <2>2. PICK j \in i + 1 .. n : ctx[j].at = ctx[i].at
      BY <1>1, <1>7, <1>n, <2>1 DEF NotEntered
    <2> QED
      BY <1>3, <1>n, <2>2 DEF NotEntered
  <1>8. \A d \in 1 .. depth' : bind'[d] = NIL \/ ~Heap(bind'[d])
    <2>1. ctx[n].dst = NIL \/ ~Heap(ctx[n].dst)
      BY <1>2, <1>6 DEF Sound, OperandsSound
    <2>2. bind'[e] = ctx[n].dst
      BY <1>1, <1>2, <1>3
    <2>3. ASSUME NEW d \in 1 .. depth', d # e
          PROVE  bind'[d] = NIL \/ ~Heap(bind'[d])
      <3>1. d \in 1 .. depth /\ d \in 1 .. MaxDepth
        BY <1>1, <1>3, <1>e, <2>3
      <3>2. bind'[d] = bind[d]
        BY <1>1, <1>3, <2>3, <3>1
      <3> QED
        BY <3>1, <3>2 DEF Sound, OperandsSound
    <2> QED
      BY <2>1, <2>2, <2>3
  <1>9. OperandsSound' /\ \A o : Newborn(o)' => Newborn(o)
    <2>1. /\ n <= Len(ctx) /\ Len(ctx') = n /\ \A i \in 1 .. n : ctx'[i] = ctx[i]
      BY <1>1, <1>3, <1>n
    <2>2. \A i \in 1 .. n : NotEntered(i)' =>
             NotEntered(i) /\ (i # Len(ctx) \/ ctx[i].at # depth)
      BY <1>7, <1>n
    <2> QED
      BY <1>2, <1>3, <1>5, <1>8, <2>1, <2>2, CutOperands
  <1>10. ASSUME NEW k \in 1 .. Len(w)
         PROVE  w[k] \in live \cup {NIL} /\ ~Newborn(w[k])'
    <2>1. /\ w[k] \in live \cup {NIL}
          /\ ~Receiver(n, k) /\ w[k] # NIL => rc[w[k]] # 0
      BY <1>2, <1>6, <1>10, OperandLive
    <2>2. CASE Receiver(n, k)
      <3>1. SUFFICES ASSUME Newborn(w[k])' PROVE FALSE
        BY <2>1
      <3>2. PICK i \in 1 .. n : /\ NotEntered(i)' /\ ctx[i].kind = "construct"
                                /\ Len(ctx[i].vals) > 0 /\ ctx[i].vals[1] = w[k]
        BY <1>1, <1>n, <3>1 DEF Newborn
      <3>3. NotEntered(i) /\ i # n
        BY <1>7, <3>2
      <3>4. ctx[n].kind = "construct" /\ ctx[n].vals[1] = w[k] /\ Len(ctx[n].vals) > 0
        BY <1>2, <1>10, <2>2 DEF Receiver
      <3> QED
        BY <1>6, <1>n, <3>2, <3>3, <3>4 DEF Sound, OperandsSound
    <2>3. CASE ~Receiver(n, k)
      <3>1. NIL \notin live
        BY ArcAssumption DEF TypeOK
      <3> QED
        BY <1>9, <2>1, <2>3, <3>1, NewbornFacts
    <2> QED
      BY <2>2, <2>3
  <1>11. ASSUME NEW i \in 1 .. Len(c)
         PROVE  /\ c[i].op \in {"retain", "clear"}
                /\ \A s : ~Empties(c[i], s) /\ (Fills(c[i], s) <=> c[i].slot = s)
    BY <1>4 DEF Fills, Empties
  <1>12. Orderly(c)
    <2>1. \A i \in 1 .. Len(c) : c[i].op # "release"
      BY <1>11
    <2> QED
      BY <2>1 DEF Orderly
  <1>13. \A s \in FrameSlots(e) : s \notin Temps
    BY <1>3, SlotFacts, SlotKinds
  <1>14. ASSUME NEW i \in 1 .. Len(c)
         PROVE  /\ c[i].op \in {"retain", "clear", "release", "forget"}
                /\ c[i].op = "retain" => c[i].val \in live \cup {NIL} /\ ~Newborn(c[i].val)'
                /\ c[i].op = "release" => Clean(c[i].slot) /\ ~Heap(c[i].slot)
                /\ \A s : Empties(c[i], s) => s \in Root
                /\ \A p \in 1 .. MaxCtx, k \in 1 .. MaxArity :
                      ~Fills(c[i], Temp(p, k)) /\ (p <= Len(ctx') => ~Empties(c[i], Temp(p, k)))
    <2>1. c[i].op \in {"retain", "clear"} /\ c[i].op # "release" /\ c[i].slot \notin Temps
      BY <1>4, <1>13
    <2>2. ASSUME c[i].op = "retain"
          PROVE  c[i].val \in live \cup {NIL} /\ ~Newborn(c[i].val)'
      <3>1. PICK k \in 1 .. Len(w) : c[i].val = w[k]
        BY <1>4, <2>2
      <3> QED
        BY <1>10, <3>1 DEF Newborn
    <2>3. \A p \in 1 .. MaxCtx, k \in 1 .. MaxArity : ~Fills(c[i], Temp(p, k))
      BY <1>11, <2>1, TempFacts
    <2> QED
      BY <1>11, <2>1, <2>2, <2>3
  <1>15. ASSUME NEW s \in Variables'
         PROVE  \/ s \in Variables /\ \A m \in 1 .. Len(c) : ~Empties(c[m], s)
                \/ \E j \in 1 .. Len(c) : /\ Fills(c[j], s)
                                          /\ \A m \in j + 1 .. Len(c) : ~Empties(c[m], s)
    <2>1. CASE s \in FrameSlots(e)
      <3>1. PICK j \in 1 .. Len(c) : c[j].slot = s
        BY <1>4, <2>1
      <3>2. \A m \in j + 1 .. Len(c) : m \in 1 .. Len(c)
        BY <1>4
      <3> QED
        BY <1>11, <3>1, <3>2
    <2>2. CASE s \notin FrameSlots(e)
      <3>1. s \in Globals \/ \E d \in 1 .. depth' : s \in FrameSlots(d)
        BY <1>15 DEF Variables
      <3>2. \A d \in 1 .. depth' : d = e \/ d \in 1 .. depth
        BY <1>1, <1>3, <1>e
      <3>3. s \in Variables
        BY <2>2, <3>1, <3>2 DEF Variables
      <3> QED
        BY <1>11, <3>3
    <2> QED
      BY <2>1, <2>2
  <1>16. \A i \in 1 .. MaxCtx, k \in 1 .. MaxArity :
            i > Len(ctx') \/ k > Len(ctx'[i].vals) => Temp(i, k) \in stale
    BY <1>1, <1>2, QuietFacts
  <1> QED
    BY <1>1, <1>2, <1>4, <1>9, <1>12, <1>14, <1>15, <1>16, EmitRoots

\* What waits below a call that returns waits on.
LEMMA LeaveOperands ==
    ASSUME TypeOK, IInv, Sound, ZeroClaimed, Ready, NEW i0 \in 1 .. Len(ctx), NEW front,
           LeaveTo(i0, front), depth \in 1 .. MaxDepth, ctx[i0].at < depth,
           \A i \in i0 + 1 .. Len(ctx) : ctx[i].at = depth
    PROVE  /\ OperandsSound'
           /\ \A p : Newborn(p)' => Newborn(p)
  <1>n. PICK n : n = i0 - 1
    OBVIOUS
  <1>1. /\ ctx' = SubSeq(ctx, 1, n) /\ depth' = depth - 1 /\ ctx \in Seq(Context)
        /\ i0 \in Nat /\ n \in Nat /\ n + 1 = i0 /\ depth \in Int /\ Len(ctx) \in Nat
        /\ n <= Len(ctx) /\ bind' = [bind EXCEPT ![depth] = NIL]
        /\ UNCHANGED <<live, rc, mem, stale, cascade>> /\ cascade' = <<>>
        /\ \A i \in 1 .. Len(ctx) : ctx[i].at \in Int
    <2>1. /\ ctx' = SubSeq(ctx, 1, n) /\ depth' = depth - 1 /\ bind' = [bind EXCEPT ![depth] = NIL]
          /\ UNCHANGED <<live, rc, mem, stale, cascade>> /\ cascade' = <<>>
      BY <1>n DEF LeaveTo, Emit, heapState, Ready
    <2>2. /\ ctx \in Seq(Context) /\ depth \in Int /\ Len(ctx) \in Nat
          /\ \A i \in 1 .. Len(ctx) : ctx[i].at \in Int
      BY CtxFacts
    <2> QED
      BY <1>n, <2>1, <2>2
  <1>2. Len(ctx') = n /\ \A i \in 1 .. n : ctx'[i] = ctx[i] /\ i \in 1 .. Len(ctx)
    BY <1>1
  <1>3. \A i, j \in 1 .. Len(ctx) : i <= j => ctx[i].at <= ctx[j].at
    <2>1. \A i \in 1 .. Len(ctx) : \A j \in 1 .. i : ctx[j].at <= ctx[i].at
      BY DEF IInv, CtxOK
    <2>2. \A i, j \in 1 .. Len(ctx) : i <= j => i \in 1 .. j
      BY <1>1
    <2> QED
      BY <2>1, <2>2
  <1>4. ctx[i0].at = depth - 1
    <2>1. ctx[i0].at >= 0 /\ depth - 1 \in 0 .. depth - 1
      <3>1. ctx[i0] \in Context
        BY <1>1
      <3>2. ctx[i0].at >= 0
        BY <3>1, ArcAssumption DEF Context
      <3> QED
        BY <1>1, <3>2
    <2>2. PICK i \in 1 .. Len(ctx) : ctx[i].at = depth - 1
      BY <2>1 DEF ZeroClaimed, Called
    <2>3. i \notin i0 + 1 .. Len(ctx)
      BY <1>1, <2>2
    <2>4. ctx[i].at <= ctx[i0].at
      BY <1>1, <1>3, <2>3
    <2> QED
      BY <1>1, <2>2, <2>4
  <1>5. ASSUME NEW i \in 1 .. n, NotEntered(i)'
        PROVE  NotEntered(i) /\ i # Len(ctx)
    <2>1. i0 \in i + 1 .. Len(ctx) /\ i # Len(ctx)
      BY <1>1
    <2>2. CASE ctx[i].at = depth - 1
      BY <1>4, <2>1, <2>2 DEF NotEntered
    <2>3. CASE ctx[i].at # depth - 1
      <3>1. PICK j \in i + 1 .. n : ctx'[j].at = ctx'[i].at
        BY <1>1, <1>2, <1>5, <2>3 DEF NotEntered
      <3>2. j \in i + 1 .. Len(ctx) /\ j \in 1 .. n
        BY <1>1
      <3> QED
        BY <1>2, <2>1, <3>1, <3>2 DEF NotEntered
    <2> QED
      BY <2>2, <2>3
  <1>6. ASSUME NEW d \in 1 .. depth'
        PROVE  bind'[d] = NIL \/ ~Heap(bind'[d])
    <2>1. d \in 1 .. depth /\ d # depth /\ d \in 1 .. MaxDepth
      BY <1>1, ArcAssumption
    <2>2. bind'[d] = bind[d]
      BY <1>1, <2>1 DEF TypeOK
    <2> QED
      BY <2>1, <2>2 DEF Sound, OperandsSound
  <1>7. \A i \in 1 .. n : NotEntered(i)' => NotEntered(i) /\ (i # Len(ctx) \/ ctx[i].at # depth)
    BY <1>5
  <1>8. live \subseteq live' /\ (\A o \in live : rc'[o] = rc[o])
        /\ \A t \in Temps : mem'[t] = mem[t] /\ (t \in stale' <=> t \in stale)
    BY <1>1
  <1> QED
    BY <1>1, <1>2, <1>6, <1>7, <1>8, CutOperands

\* What follows the code of RETURN.
Epilogue(i) == LeaveCode(depth) \o DropArgs(i)

\* An instruction that releases or ends slots of frame d or operands of
\* expression i, of which there are m, and nothing else.
Ends(e, d, i, m) ==
    LET Its(s) == s \in FrameSlots(d) \/ \E k \in 1 .. m : s = Temp(i, k)
    IN  /\ e.op \in {"release", "forget"}
        /\ e.op = "release" => Its(e.slot)
        /\ \A s : ~Fills(e, s) /\ (Empties(e, s) => Its(s))

\* The epilogue of a procedure, and the release of the arguments behind it.
LEMMA LeavingCode ==
    ASSUME TypeOK, depth \in 1 .. MaxDepth, Len(Params \o Locals) <= MaxLocalPtrs,
           NEW i0 \in 1 .. MaxCtx, NEW m, m = Arity(ctx[i0].kind),
           NEW c, c = Epilogue(i0)
    PROVE  /\ c \in Seq(Instr) /\ Orderly(c)
           /\ \A i \in 1 .. Len(c) : Ends(c[i], depth, i0, m)
           /\ \A k \in 1 .. m : \E i \in 1 .. Len(c) : Empties(c[i], Temp(i0, k))
  <1>a. PICK a : a = LeaveCode(depth)
    OBVIOUS
  <1>b. PICK b : b = DropArgs(i0)
    OBVIOUS
  <1>F. PICK F : F = FrameSlots(depth)
    OBVIOUS
  <1>T. PICK T : T = {Temp(i0, k) : k \in 1 .. m}
    OBVIOUS
  <1>1. a \in Seq(Instr) /\ Wipes(a, F) /\ b \in Seq(Instr) /\ Wipes(b, T)
    BY <1>a, <1>b, <1>F, <1>T, LeaveWipes, DropArgsWipes
  <1>2. /\ Orderly(a)
        /\ \A i \in 1 .. Len(a) :
                 /\ a[i].op \in {"release", "forget"}
                 /\ a[i].op = "release" => a[i].slot \in F
                 /\ \A s : ~Fills(a[i], s) /\ (Empties(a[i], s) => s \in F)
    BY <1>1, WipesFacts
  <1>3. /\ Orderly(b)
        /\ \A i \in 1 .. Len(b) :
                 /\ b[i].op \in {"release", "forget"}
                 /\ b[i].op = "release" => b[i].slot \in T
                 /\ \A s : ~Fills(b[i], s) /\ (Empties(b[i], s) => s \in T)
        /\ \A s \in T : \E i \in 1 .. Len(b) : Empties(b[i], s)
    BY <1>1, WipesFacts
  <1>4. \A s \in T : s \notin F
    <2>1. m \in Nat /\ m <= MaxArity /\ MaxArity \in Nat
      BY TempFacts
    <2>2. \A k \in 1 .. m : k \in 1 .. MaxArity
      BY <2>1
    <2>3. T \subseteq Temps
      BY <1>T, <2>2, TempFacts
    <2>4. F \subseteq Frames
      BY <1>F, SlotFacts
    <2> QED
      BY <2>3, <2>4, SlotKinds
  <1>5. c = a \o b
    BY <1>a, <1>b DEF Epilogue
  <1>6. Orderly(a \o b)
    <2>1. \A i \in 1 .. Len(b) : b[i].op # "retain"
      BY <1>3
    <2>2. \A i \in 1 .. Len(b) : b[i].op = "release" =>
             \A j \in 1 .. Len(a) : ~Touches(a[j], b[i].slot)
      BY <1>2, <1>3, <1>4 DEF Touches
    <2> QED
      BY <1>1, <1>2, <1>3, <2>1, <2>2, ConcatOrderly
  <1>7. /\ c \in Seq(Instr) /\ Len(c) = Len(a) + Len(b) /\ Len(a) \in Nat /\ Len(b) \in Nat
        /\ \A i \in 1 .. Len(a) : c[i] = a[i]
        /\ \A j \in 1 .. Len(b) : c[Len(a) + j] = b[j]
        /\ \A i \in 1 .. Len(c) : \/ i \in 1 .. Len(a)
                                  \/ \E j \in 1 .. Len(b) : i = Len(a) + j
    <2>1. a \in Seq(Instr) /\ b \in Seq(Instr)
      BY <1>1
    <2>2. Joined(a \o b, a, b)
      BY <2>1, Joining
    <2>3. Joined(c, a, b)
      BY <1>5, <2>2
    <2> QED
      BY <2>3 DEF Joined
  <1>8. ASSUME NEW i \in 1 .. Len(c)
        PROVE  /\ c[i].op \in {"release", "forget"}
               /\ c[i].op = "release" => c[i].slot \in F \/ c[i].slot \in T
               /\ \A s : ~Fills(c[i], s) /\ (Empties(c[i], s) => s \in F \/ s \in T)
    <2>1. CASE i \in 1 .. Len(a)
      <3>1. PICK e : e = a[i]
        OBVIOUS
      <3>2. c[i] = e
        BY <1>7, <2>1, <3>1
      <3>3. /\ e.op \in {"release", "forget"} /\ (e.op = "release" => e.slot \in F)
            /\ \A s : ~Fills(e, s) /\ (Empties(e, s) => s \in F)
        BY <1>2, <2>1, <3>1
      <3> QED
        BY <3>2, <3>3
    <2>2. ASSUME NEW j \in 1 .. Len(b), i = Len(a) + j
          PROVE  /\ c[i].op \in {"release", "forget"}
                 /\ c[i].op = "release" => c[i].slot \in F \/ c[i].slot \in T
                 /\ \A s : ~Fills(c[i], s) /\ (Empties(c[i], s) => s \in F \/ s \in T)
      <3>1. PICK e : e = b[j]
        OBVIOUS
      <3>2. c[i] = e
        BY <1>7, <2>2, <3>1
      <3>3. /\ e.op \in {"release", "forget"} /\ (e.op = "release" => e.slot \in T)
            /\ \A s : ~Fills(e, s) /\ (Empties(e, s) => s \in T)
        BY <1>3, <3>1
      <3> QED
        BY <3>2, <3>3
    <2> QED
      BY <1>7, <2>1, <2>2
  <1>9. ASSUME NEW s \in T
        PROVE  \E i \in 1 .. Len(c) : Empties(c[i], s)
    <2>1. PICK j \in 1 .. Len(b) : Empties(b[j], s)
      BY <1>3
    <2>2. Len(a) + j \in 1 .. Len(c) /\ c[Len(a) + j] = b[j]
      BY <1>7
    <2> QED
      BY <2>1, <2>2
  <1>10. \A s : s \in T <=> \E k \in 1 .. m : s = Temp(i0, k)
    BY <1>T
  <1>12. ASSUME NEW i \in 1 .. Len(c)
         PROVE  Ends(c[i], depth, i0, m)
    <2>1. PICK e : e = c[i]
      OBVIOUS
    <2>2. /\ e.op \in {"release", "forget"}
          /\ e.op = "release" => e.slot \in F \/ e.slot \in T
          /\ \A s : ~Fills(e, s) /\ (Empties(e, s) => s \in F \/ s \in T)
      BY <1>8, <2>1
    <2>3. Ends(e, depth, i0, m)
      BY <1>10, <1>F, <2>2 DEF Ends
    <2> QED
      BY <2>1, <2>3
  <1>11. \A k \in 1 .. m : \E i \in 1 .. Len(c) : Empties(c[i], Temp(i0, k))
    <2> TAKE k \in 1 .. m
    <2>1. PICK s : s = Temp(i0, k)
      OBVIOUS
    <2>2. s \in T
      BY <1>T, <2>1
    <2> QED
      BY <1>9, <2>1, <2>2
  <1> QED
    BY <1>5, <1>6, <1>7, <1>11, <1>12

\* The code that ends a procedure, behind the code of RETURN.
LEMMA LeaveSound ==
    ASSUME TypeOK, TypeOK', IInv, Sound, ZeroClaimed, Ready,
           Len(Params \o Locals) <= MaxLocalPtrs, depth \in 1 .. MaxDepth,
           NEW i0 \in 1 .. Len(ctx), NEW a \in Seq(Instr), LeaveTo(i0, a), ctx[i0].at < depth,
           \A i \in i0 + 1 .. Len(ctx) : ctx[i].at = depth,
           Orderly(a),
           \A i \in 1 .. Len(a) :
              /\ a[i].op \in {"retain", "forget"}
              /\ a[i].op = "retain" => a[i].val \in live \cup {NIL} /\ ~Newborn(a[i].val)
              /\ \A s : Fills(a[i], s) \/ Empties(a[i], s) => s \in Temps
              /\ \A p \in 1 .. MaxCtx, k \in 1 .. MaxArity :
                    ~Fills(a[i], Temp(p, k)) /\ (p <= i0 => ~Empties(a[i], Temp(p, k))),
           \A i \in i0 + 1 .. Len(ctx) : \A k \in 1 .. Len(ctx[i].vals) :
              \E j \in 1 .. Len(a) : Empties(a[j], Temp(i, k))
    PROVE  Sound'
  <1>b. PICK b : b = Epilogue(i0)
    OBVIOUS
  <1>c. PICK c : c = a \o b
    OBVIOUS
  <1>m. PICK m : m = Arity(ctx[i0].kind)
    OBVIOUS
  <1>F. PICK F : F = FrameSlots(depth)
    OBVIOUS
  <1>1. /\ i0 \in 1 .. MaxCtx /\ i0 \in Nat /\ Len(ctx) \in Nat /\ Len(ctx) <= MaxCtx
        /\ m \in Nat /\ m <= MaxArity /\ MaxArity \in Nat /\ MaxCtx \in Nat
        /\ \A k \in 1 .. m : k \in 1 .. MaxArity /\ k \in Int
        /\ depth \in Int
    <2>1. /\ Len(ctx) \in Nat /\ Len(ctx) <= MaxCtx /\ MaxCtx \in Nat /\ depth \in Int
      BY CtxFacts, ArcAssumption DEF TypeOK
    <2>2. m \in Nat /\ m <= MaxArity /\ MaxArity \in Nat
      BY <1>m, TempFacts
    <2>3. \A k \in 1 .. m : k \in 1 .. MaxArity /\ k \in Int
      BY <2>2
    <2> QED
      BY <2>1, <2>2, <2>3
  <1>2. /\ b \in Seq(Instr) /\ Orderly(b)
        /\ \A i \in 1 .. Len(b) : Ends(b[i], depth, i0, m)
        /\ \A k \in 1 .. m : \E i \in 1 .. Len(b) : Empties(b[i], Temp(i0, k))
    <2>1. /\ i0 \in 1 .. MaxCtx /\ m = Arity(ctx[i0].kind)
          /\ b = Epilogue(i0)
      BY <1>1, <1>b, <1>m
    <2> QED
      BY <2>1, LeavingCode
  <1>3. Joined(c, a, b)
    BY <1>2, <1>c, Joining
  <1>4. /\ Emit(c) /\ depth' = depth - 1 /\ ctx' = SubSeq(ctx, 1, i0 - 1)
        /\ UNCHANGED <<live, rc, mem, stale, cascade, fault>> /\ cascade' = <<>>
    <2>1. LeaveCode(depth) \in Seq(Instr) /\ DropArgs(i0) \in Seq(Instr)
      BY <1>1, LeaveCodeType, DropArgsType
    <2>2. (a \o LeaveCode(depth)) \o DropArgs(i0) = c
      BY <1>b, <1>c, <2>1, ConcatAssociative, SMTT(30) DEF Epilogue
    <2> QED
      BY <2>2 DEF LeaveTo, Emit, heapState, Ready
  <1>5. /\ Len(ctx') = i0 - 1 /\ \A i \in 1 .. i0 - 1 : ctx'[i] = ctx[i]
    <2>1. ctx \in Seq(Context)
      BY CtxFacts
    <2> QED
      BY <1>1, <1>4, <2>1
  <1>6. OperandsSound' /\ \A p : Newborn(p)' => Newborn(p)
    BY LeaveOperands
  <1>7. \A k \in 1 .. m : Temp(i0, k) \in Temps
    BY <1>1, TempFacts
  <1>8. F \subseteq Frames /\ F \subseteq Root /\ F \subseteq Variables
    <2>1. F \subseteq Frames /\ F \subseteq Root
      BY <1>F, SlotFacts
    <2>2. depth \in 1 .. depth
      BY <1>1
    <2> QED
      BY <1>F, <2>1, <2>2 DEF Variables
  <1>9. \A s \in F : s \notin Temps
    BY <1>8, SlotKinds
  <1>10. Orderly(c)
    <2>1. \A i \in 1 .. Len(b) : b[i].op # "retain"
      BY <1>2 DEF Ends
    <2>2. ASSUME NEW i \in 1 .. Len(b), b[i].op = "release", NEW j \in 1 .. Len(a)
          PROVE  ~Touches(a[j], b[i].slot)
      <3>1. PICK s : s = b[i].slot
        OBVIOUS
      <3>4. s \in F \/ \E k \in 1 .. m : s = Temp(i0, k)
        BY <1>2, <1>F, <2>2, <3>1 DEF Ends
      <3>2. CASE s \in F
        BY <1>9, <3>1, <3>2 DEF Touches
      <3>3. ASSUME NEW k \in 1 .. m, s = Temp(i0, k)
            PROVE  ~Touches(a[j], s)
        <4>1. k \in 1 .. MaxArity /\ i0 \in 1 .. MaxCtx /\ i0 <= i0
          BY <1>1
        <4> QED
          BY <3>3, <4>1 DEF Touches
      <3> QED
        BY <3>1, <3>2, <3>3, <3>4
    <2>3. Orderly(a \o b)
      BY <1>2, <2>1, <2>2, ConcatOrderly
    <2> QED
      BY <1>c, <2>3
  <1>11. ASSUME NEW s, s \in F \/ \E k \in 1 .. m : s = Temp(i0, k)
         PROVE  Clean(s) /\ ~Heap(s) /\ s \in Root
    <2>1. CASE s \in F
      BY <1>4, <1>8, <2>1, QuietFacts, SlotKinds DEF Clean, Heap
    <2>2. CASE s \in Temps
      BY <1>4, <2>2, QuietFacts, SlotFacts, SlotKinds DEF Clean, Heap
    <2> QED
      BY <1>7, <1>11, <2>1, <2>2
  <1>12. ASSUME NEW p \in 1 .. MaxCtx, NEW k \in 1 .. MaxArity
         PROVE  /\ Temp(p, k) \notin F
                /\ \A j \in 1 .. m : Temp(p, k) = Temp(i0, j) => p = i0 /\ k = j
    <2>1. Temp(p, k) \in Temps
      BY TempFacts
    <2>2. p \in Int /\ k \in Int /\ i0 \in Int /\ \A j \in 1 .. m : j \in Int
      BY <1>1
    <2> QED
      BY <1>9, <2>1, <2>2, TempInjective
  <1>13. ASSUME NEW i \in 1 .. Len(c)
         PROVE  /\ c[i].op \in {"retain", "clear", "release", "forget"}
                /\ c[i].op = "retain" => c[i].val \in live \cup {NIL} /\ ~Newborn(c[i].val)'
                /\ c[i].op = "release" => Clean(c[i].slot) /\ ~Heap(c[i].slot)
                /\ \A s : Empties(c[i], s) => s \in Root
                /\ \A p \in 1 .. MaxCtx, k \in 1 .. MaxArity :
                      ~Fills(c[i], Temp(p, k)) /\ (p <= Len(ctx') => ~Empties(c[i], Temp(p, k)))
                /\ \A s \in Variables' : ~Empties(c[i], s)
    <2>1. PICK e : e = c[i]
      OBVIOUS
    <2>2. \A p \in 1 .. MaxCtx : p <= Len(ctx') => p <= i0 /\ p # i0
      BY <1>1, <1>5
    <2>3. CASE i \in 1 .. Len(a)
      <3>1. e = a[i]
        BY <1>3, <2>1, <2>3 DEF Joined
      <3>2. /\ e.op \in {"retain", "forget"}
            /\ e.op = "retain" => e.val \in live \cup {NIL} /\ ~Newborn(e.val)
            /\ \A s : Fills(e, s) \/ Empties(e, s) => s \in Temps
            /\ \A p \in 1 .. MaxCtx, k \in 1 .. MaxArity :
                  ~Fills(e, Temp(p, k)) /\ (p <= i0 => ~Empties(e, Temp(p, k)))
        BY <2>3, <3>1
      <3>3. \A s \in Variables' : s \notin Temps
        <4>1. \A s \in Variables' : s \in Globals \/ \E d \in 1 .. depth' : s \in FrameSlots(d)
          BY DEF Variables
        <4>2. \A d \in 1 .. depth' : d \in 1 .. depth
          BY <1>1, <1>4
        <4>3. \A s \in Variables' : s \in Variables
          BY <4>1, <4>2 DEF Variables
        <4> QED
          BY <4>3, VariableFacts
      <3>4. e.op # "release" /\ e.op \in {"retain", "clear", "release", "forget"}
        BY <3>2
      <3>5. e.op = "retain" => e.val \in live \cup {NIL} /\ ~Newborn(e.val)'
        BY <1>6, <3>2
      <3>6. (\A s : Empties(e, s) => s \in Root) /\ \A s \in Variables' : ~Empties(e, s)
        BY <3>2, <3>3, SlotFacts
      <3> QED
        BY <2>1, <2>2, <3>2, <3>4, <3>5, <3>6
    <2>4. ASSUME NEW j \in 1 .. Len(b), i = Len(a) + j
          PROVE  /\ e.op \in {"release", "forget"}
                 /\ e.op = "release" => Clean(e.slot) /\ ~Heap(e.slot)
                 /\ \A s : Empties(e, s) => s \in Root
                 /\ \A p \in 1 .. MaxCtx, k \in 1 .. MaxArity :
                       ~Fills(e, Temp(p, k)) /\ (p <= Len(ctx') => ~Empties(e, Temp(p, k)))
                 /\ \A s \in Variables' : ~Empties(e, s)
      <3>1. e = b[j]
        BY <1>3, <2>1, <2>4 DEF Joined
      <3>2. /\ e.op \in {"release", "forget"}
            /\ e.op = "release" => e.slot \in F \/ \E k \in 1 .. m : e.slot = Temp(i0, k)
            /\ \A s : /\ ~Fills(e, s)
                      /\ Empties(e, s) => s \in F \/ \E k \in 1 .. m : s = Temp(i0, k)
        <4>1. Ends(e, depth, i0, m)
          BY <1>2, <3>1
        <4> QED
          BY <1>F, <4>1 DEF Ends
      <3>3. ASSUME NEW s \in Variables'
            PROVE  s \notin F /\ s \notin Temps
        <4>1. s \in Globals \/ \E d \in 1 .. depth' : s \in FrameSlots(d)
          BY DEF Variables
        <4>2. CASE s \in Globals
          <5>1. s \in Variables
            BY <4>2 DEF Variables
          <5>2. s \notin Frames
            <6>1. s[1] = 0
              BY <4>2 DEF Globals
            <6> QED
              BY <6>1, SlotKinds
          <5> QED
            BY <1>8, <5>1, <5>2, VariableFacts
        <4>3. ASSUME NEW d \in 1 .. depth', s \in FrameSlots(d)
              PROVE  s \notin F /\ s \notin Temps
          <5>1. d \in 1 .. depth /\ d # depth
            BY <1>1, <1>4
          <5>2. s \in Variables
            BY <4>3, <5>1 DEF Variables
          <5>3. s[1] = d /\ \A r \in F : r[1] = depth
            BY <1>F, <4>3 DEF FrameSlots
          <5> QED
            BY <5>1, <5>2, <5>3, VariableFacts
        <4> QED
          BY <4>1, <4>2, <4>3
      <3>4. \A s \in Variables' : ~Empties(e, s)
        BY <1>7, <3>2, <3>3
      <3>5. ASSUME NEW p \in 1 .. MaxCtx, NEW k \in 1 .. MaxArity, p <= Len(ctx')
            PROVE  ~Empties(e, Temp(p, k))
        BY <1>12, <2>2, <3>2, <3>5
      <3>6. (e.op = "release" => Clean(e.slot) /\ ~Heap(e.slot))
            /\ \A s : Empties(e, s) => s \in Root
        BY <1>11, <3>2
      <3> QED
        BY <3>2, <3>4, <3>5, <3>6
    <2> QED
      BY <1>3, <2>1, <2>3, <2>4 DEF Joined
  <1>14. ASSUME NEW i \in 1 .. MaxCtx, NEW k \in 1 .. MaxArity,
                i > Len(ctx') \/ k > Len(ctx'[i].vals)
         PROVE  Temp(i, k) \in stale \/ \E j \in 1 .. Len(c) : Empties(c[j], Temp(i, k))
    <2>1. CASE i > Len(ctx) \/ k > Len(ctx[i].vals)
      BY <2>1, QuietFacts
    <2>2. CASE i <= Len(ctx) /\ k <= Len(ctx[i].vals)
      <3>0. i \in 1 .. Len(ctx) /\ i >= i0 /\ Len(ctx[i].vals) \in Nat /\ k \in 1 .. Len(ctx[i].vals)
        <4>1. i \in 1 .. Len(ctx) /\ Len(ctx[i].vals) \in Nat
          BY <1>1, <2>2, CtxFacts
        <4>2. ~(i < i0)
          BY <1>1, <1>5, <1>14, <2>2, <4>1
        <4> QED
          BY <1>1, <2>2, <4>1, <4>2
      <3>1. CASE i = i0
        <4>1. k \in 1 .. m
          <5>1. Len(ctx[i0].vals) <= m
            BY <1>m DEF TypeOK
          <5> QED
            BY <1>1, <2>2, <3>0, <3>1, <5>1
        <4>2. PICK j \in 1 .. Len(b) : Empties(b[j], Temp(i0, k))
          BY <1>2, <4>1
        <4>3. Len(a) + j \in 1 .. Len(c) /\ c[Len(a) + j] = b[j]
          BY <1>3 DEF Joined
        <4> QED
          BY <3>1, <4>2, <4>3
      <3>2. CASE i # i0
        <4>1. i \in i0 + 1 .. Len(ctx)
          BY <1>1, <3>0, <3>2
        <4>2. PICK j \in 1 .. Len(a) : Empties(a[j], Temp(i, k))
          BY <3>0, <4>1
        <4>3. j \in 1 .. Len(c) /\ c[j] = a[j]
          BY <1>3 DEF Joined
        <4> QED
          BY <4>2, <4>3
      <3> QED
        BY <3>1, <3>2
    <2>3. i <= Len(ctx) => Len(ctx[i].vals) \in Int
      <3>1. i \in 1 .. Len(ctx) => Len(ctx[i].vals) \in Nat
        BY CtxFacts
      <3> QED
        BY <1>1, <3>1
    <2> QED
      BY <1>1, <2>1, <2>2, <2>3
  <1>15. ASSUME NEW s \in Variables'
         PROVE  s \in Variables /\ \A j \in 1 .. Len(c) : ~Empties(c[j], s)
    <2>1. s \in Globals \/ \E d \in 1 .. depth' : s \in FrameSlots(d)
      BY DEF Variables
    <2>2. \A d \in 1 .. depth' : d \in 1 .. depth
      BY <1>1, <1>4
    <2>3. s \in Variables
      BY <2>1, <2>2 DEF Variables
    <2> QED
      BY <1>13, <2>3
  <1>16. c \in Seq(Instr)
    BY <1>3 DEF Joined
  <1> QED
    BY <1>4, <1>6, <1>10, <1>13, <1>14, <1>15, <1>16, EmitRoots

\* A procedure returns.
LEMMA ReturnPlainSound ==
    ASSUME TypeOK, TypeOK', IInv, Sound, ZeroClaimed, Len(Params \o Locals) <= MaxLocalPtrs,
           ReturnPlain
    PROVE  Sound'
  <1>n. PICK n : n = Len(ctx)
    OBVIOUS
  <1>a. PICK a : a = <<>>
    OBVIOUS
  <1>1. Ready /\ depth > 0 /\ ctx # <<>> /\ Top.at # depth /\ LeaveTo(n, a)
    BY <1>n, <1>a DEF ReturnPlain, Boundary, InStatement
  <1>2. /\ n \in Nat /\ n \in 1 .. Len(ctx) /\ depth \in 1 .. MaxDepth /\ depth \in Int
        /\ ctx[n].at \in Int
    <2>1. Len(ctx) \in Nat /\ ctx \in Seq(Context) /\ depth \in 0 .. MaxDepth /\ MaxDepth \in Nat
      BY CtxFacts, ArcAssumption DEF TypeOK
    <2>2. Len(ctx) > 0
      BY <1>1, <2>1
    <2>3. n \in 1 .. Len(ctx)
      BY <1>n, <2>1, <2>2
    <2> QED
      BY <1>1, <2>1, <2>3, CtxFacts
  <1>3. ctx[n].at < depth
    <2>1. ctx[n].at <= depth
      BY <1>2 DEF IInv, CtxOK
    <2> QED
      BY <1>1, <1>2, <1>n, <2>1 DEF Top
  <1>4. a \in Seq(Instr) /\ Len(a) = 0 /\ Orderly(a)
    BY <1>a DEF Orderly
  <1>5. \A i \in n + 1 .. Len(ctx) : FALSE
    BY <1>2, <1>n
  <1>6. \A i \in 1 .. Len(a) : FALSE
    BY <1>4
  <1> QED
    BY <1>1, <1>2, <1>3, <1>4, <1>5, <1>6, LeaveSound

\* A function returns a value.
LEMMA ReturnValueSound ==
    ASSUME TypeOK, TypeOK', IInv, Sound, ZeroClaimed, Len(Params \o Locals) <= MaxLocalPtrs,
           ReturnValue
    PROVE  Sound'
  <1>n. PICK n : n = Len(ctx)
    OBVIOUS
  <1>i. PICK i0 : i0 = Len(ctx) - 1
    OBVIOUS
  <1>v. PICK v : v = Top.vals[1]
    OBVIOUS
  <1>a. PICK a : a = ResultCode(v)
    OBVIOUS
  <1>1. Finish("return") /\ depth > 0 /\ Len(ctx) > 1 /\ LeaveTo(i0, a)
    BY <1>i, <1>v, <1>a DEF ReturnValue
  <1>2. /\ Ready /\ ctx[n].kind = "return" /\ ctx[n].at = depth /\ n \in 1 .. MaxCtx
        /\ Top.vals \in Seq(Value) /\ Len(Top.vals) = 1 /\ Top = ctx[n]
    <2>1. Arity("return") = 1
      BY DEF Arity
    <2>2. /\ Ready /\ Top.kind = "return" /\ Top.at = depth /\ Len(ctx) \in 1 .. MaxCtx
          /\ Top = ctx[Len(ctx)] /\ Top.vals \in Seq(Value) /\ Len(Top.vals) = Arity("return")
      BY <1>1, FinishFacts DEF IInv
    <2> QED
      BY <1>n, <2>1, <2>2
  <1>3. /\ n \in Nat /\ i0 \in Nat /\ i0 + 1 = n /\ n \in 1 .. Len(ctx) /\ i0 \in 1 .. Len(ctx)
        /\ depth \in 1 .. MaxDepth /\ n - 1 = i0
        /\ \A i \in i0 + 1 .. Len(ctx) : i = n
    <2>1. Len(ctx) \in Nat /\ depth \in 0 .. MaxDepth /\ MaxDepth \in Nat
      BY CtxFacts, ArcAssumption DEF TypeOK
    <2> QED
      BY <1>1, <1>n, <1>i, <2>1
  <1>4. ctx[i0].at < depth
    BY <1>2, <1>3 DEF ZeroClaimed, Called
  <1>5. v \in live \cup {NIL} /\ ~Newborn(v) /\ v \in Value
    <2>1. NotEntered(n) /\ 1 \in 1 .. Len(ctx[n].vals) /\ v = ctx[n].vals[1] /\ ~Receiver(n, 1)
      BY <1>2, <1>v DEF NotEntered, Receiver
    <2>2. v \in live \cup {NIL} /\ (v # NIL => rc[v] # 0)
      BY <1>3, <2>1, OperandLive
    <2>3. NIL \notin live
      BY ArcAssumption DEF TypeOK
    <2> QED
      BY <1>2, <1>v, <2>2, <2>3, NewbornFacts
  <1>t. PICK t : t = Operand(1)
    OBVIOUS
  <1>6. t = Temp(n, 1) /\ t \in Temps /\ t \in Root /\ Result \in Temps /\ Result = Temp(0, 0)
    <2>1. 1 \in 1 .. MaxArity
      BY ArcAssumption DEF MaxArity
    <2> QED
      BY <1>2, <1>n, <1>t, <2>1, TempFacts, SlotFacts, ResultUsed DEF Operand, Result
  <1>7. a \in Seq(Instr) /\ Len(a) = 2 /\ a[1] = Retain(v, Result) /\ a[2] = Forget({t})
    BY <1>5, <1>6, <1>a, <1>t, ResultCodeType DEF ResultCode
  <1>8. /\ a[1].op = "retain" /\ a[1].val = v /\ a[1].slot = Result
        /\ a[2].op = "forget" /\ a[2].slots = {t}
    BY <1>7, InstrFacts
  <1>9. \A i \in 1 .. Len(a) : i = 1 \/ i = 2
    BY <1>7
  <1>10. Orderly(a)
    <2>1. \A i \in 1 .. Len(a) : a[i].op # "release"
      BY <1>8, <1>9
    <2> QED
      BY <2>1 DEF Orderly
  <1>11. \A p \in 1 .. MaxCtx, k \in 1 .. MaxArity :
            Result # Temp(p, k) /\ (p <= i0 => Temp(p, k) # t)
    BY <1>3, <1>6, TempFacts, TempInjective
  <1>12. ASSUME NEW i \in 1 .. Len(a)
         PROVE  /\ a[i].op \in {"retain", "forget"}
                /\ a[i].op = "retain" => a[i].val \in live \cup {NIL} /\ ~Newborn(a[i].val)
                /\ \A s : Fills(a[i], s) \/ Empties(a[i], s) => s \in Temps
                /\ \A p \in 1 .. MaxCtx, k \in 1 .. MaxArity :
                      ~Fills(a[i], Temp(p, k)) /\ (p <= i0 => ~Empties(a[i], Temp(p, k)))
    <2>1. CASE i = 1
      BY <1>5, <1>6, <1>8, <1>11, <2>1 DEF Fills, Empties
    <2>2. CASE i = 2
      BY <1>6, <1>8, <1>11, <2>2 DEF Fills, Empties
    <2> QED
      BY <1>9, <2>1, <2>2
  <1>13. \A i \in i0 + 1 .. Len(ctx) : \A k \in 1 .. Len(ctx[i].vals) :
            \E j \in 1 .. Len(a) : Empties(a[j], Temp(i, k))
    <2>1. \A k \in 1 .. Len(ctx[n].vals) : k = 1
      <3>1. Len(ctx[n].vals) = 1
        BY <1>2
      <3> QED
        BY <3>1
    <2>2. 2 \in 1 .. Len(a) /\ Empties(a[2], Temp(n, 1))
      <3>1. 2 \in 1 .. Len(a)
        BY <1>7
      <3>2. Empties(a[2], t)
        BY <1>8 DEF Empties
      <3> QED
        BY <1>6, <3>1, <3>2
    <2> QED
      BY <1>3, <2>1, <2>2
  <1>14. \A i \in i0 + 1 .. Len(ctx) : ctx[i].at = depth
    BY <1>2, <1>3
  <1> QED
    BY <1>1, <1>2, <1>3, <1>4, <1>7, <1>10, <1>12, <1>13, <1>14, LeaveSound

\* Instruction i of oc_record_assign(o, q), where n fields are references.
RecordInstr(e, o, q, n, i) ==
    \/ \E k \in 1 .. n : i = k /\ e = Retain(mem[PtrField(q, k)], Flight(k))
    \/ \E k \in 1 .. n : i = n + k /\ e = Drop(PtrField(o, k))
    \/ i = 2 * n + 1 /\ e = Copy(o, q)
    \/ \E k \in 1 .. n : i = 2 * n + 1 + k /\ e = Move(PtrField(o, k), Flight(k))

LEMMA RecordParts ==
    ASSUME TypeOK, NEW o \in Obj, NEW q \in Obj, NEW n, n = Len(PtrOffsets),
           NEW c, c = RecordAssignCode(o, q)
    PROVE  /\ c \in Seq(Instr) /\ n \in Nat /\ Len(c) = 3 * n + 1
           /\ \A i \in 1 .. Len(c) : RecordInstr(c[i], o, q, n, i)
           /\ \A k \in 1 .. n : c[2 * n + 1 + k] = Move(PtrField(o, k), Flight(k))
  <1>K. PICK a : a = [k \in 1 .. n |-> Retain(mem[PtrField(q, k)], Flight(k))]
    OBVIOUS
  <1>D. PICK b : b = [k \in 1 .. n |-> Drop(PtrField(o, k))]
    OBVIOUS
  <1>C. PICK d : d = <<Copy(o, q)>>
    OBVIOUS
  <1>M. PICK w : w = [k \in 1 .. n |-> Move(PtrField(o, k), Flight(k))]
    OBVIOUS
  <1>1. n \in Nat
    BY ArcAssumption
  <1>2. \A k \in 1 .. n : Flight(k) \in Root
    BY <1>1, SlotFacts, TempFacts, ArcAssumption DEF Flight
  <1>3. \A p \in Obj, k \in 1 .. n : PtrField(p, k) \in Slot
    BY SlotFacts DEF PtrField, StrongField
  <1>4. \A k \in 1 .. n : mem[PtrField(q, k)] \in Value
    BY <1>3 DEF TypeOK
  <1>5. a \in Seq(Instr) /\ Len(a) = n /\ \A k \in 1 .. n : a[k] = Retain(mem[PtrField(q, k)], Flight(k))
    <2>1. \A k \in 1 .. n : Retain(mem[PtrField(q, k)], Flight(k)) \in Instr
      BY <1>2, <1>4 DEF Retain, Instr
    <2> QED
      BY <1>1, <1>K, <2>1, FcnIsSeq
  <1>6. b \in Seq(Instr) /\ Len(b) = n /\ \A k \in 1 .. n : b[k] = Drop(PtrField(o, k))
    <2>1. \A k \in 1 .. n : Drop(PtrField(o, k)) \in Instr
      BY <1>3 DEF Drop, Instr
    <2> QED
      BY <1>1, <1>D, <2>1, FcnIsSeq
  <1>7. d \in Seq(Instr) /\ Len(d) = 1 /\ d[1] = Copy(o, q)
    BY <1>C DEF Copy, Instr
  <1>8. w \in Seq(Instr) /\ Len(w) = n /\ \A k \in 1 .. n : w[k] = Move(PtrField(o, k), Flight(k))
    <2>1. \A k \in 1 .. n : Move(PtrField(o, k), Flight(k)) \in Instr
      BY <1>2, <1>3 DEF Move, Instr
    <2> QED
      BY <1>1, <1>M, <2>1, FcnIsSeq
  <1>x. PICK x : x = a \o b
    OBVIOUS
  <1>y. PICK y : y = x \o d
    OBVIOUS
  <1>9. c = y \o w
    BY <1>K, <1>D, <1>C, <1>M, <1>x, <1>y DEF RecordAssignCode, ForEach
  <1>10. Joined(x, a, b)
    BY <1>5, <1>6, <1>x, Joining
  <1>11. x \in Seq(Instr) /\ Joined(y, x, d)
    <2>1. x \in Seq(Instr)
      BY <1>10 DEF Joined
    <2> QED
      BY <1>7, <1>y, <2>1, Joining
  <1>12. y \in Seq(Instr) /\ Joined(c, y, w)
    <2>1. y \in Seq(Instr)
      BY <1>11 DEF Joined
    <2> QED
      BY <1>8, <1>9, <2>1, Joining
  <1>13. c \in Seq(Instr) /\ Len(x) = 2 * n /\ Len(y) = 2 * n + 1 /\ Len(c) = 3 * n + 1
    BY <1>1, <1>5, <1>6, <1>7, <1>8, <1>10, <1>11, <1>12 DEF Joined
  <1>14. \A k \in 1 .. n : c[k] = Retain(mem[PtrField(q, k)], Flight(k))
    <2> TAKE k \in 1 .. n
    <2>1. k \in 1 .. Len(a) /\ k \in 1 .. Len(x) /\ k \in 1 .. Len(y)
      BY <1>1, <1>5, <1>13
    <2>2. c[k] = y[k] /\ y[k] = x[k] /\ x[k] = a[k]
      BY <1>10, <1>11, <1>12, <2>1 DEF Joined
    <2> QED
      BY <1>5, <2>2
  <1>15. \A k \in 1 .. n : c[n + k] = Drop(PtrField(o, k))
    <2> TAKE k \in 1 .. n
    <2>1. k \in 1 .. Len(b) /\ n + k \in 1 .. Len(x) /\ n + k \in 1 .. Len(y)
      BY <1>1, <1>6, <1>13
    <2>2. c[n + k] = y[n + k] /\ y[n + k] = x[n + k]
      BY <1>11, <1>12, <2>1 DEF Joined
    <2>3. x[n + k] = b[k]
      BY <1>5, <1>10, <2>1 DEF Joined
    <2> QED
      BY <1>6, <2>2, <2>3
  <1>16. c[2 * n + 1] = Copy(o, q)
    <2>1. 1 \in 1 .. Len(d) /\ 2 * n + 1 \in 1 .. Len(y)
      BY <1>1, <1>7, <1>13
    <2>2. c[2 * n + 1] = y[2 * n + 1]
      BY <1>12, <2>1 DEF Joined
    <2>3. y[2 * n + 1] = d[1]
      BY <1>11, <1>13, <2>1 DEF Joined
    <2> QED
      BY <1>7, <2>2, <2>3
  <1>17. \A k \in 1 .. n : c[2 * n + 1 + k] = Move(PtrField(o, k), Flight(k))
    <2> TAKE k \in 1 .. n
    <2>1. k \in 1 .. Len(w)
      BY <1>8
    <2>2. c[(2 * n + 1) + k] = w[k]
      BY <1>12, <1>13, <2>1 DEF Joined
    <2> QED
      BY <1>8, <2>2
  <1>18. ASSUME NEW i \in 1 .. Len(c)
         PROVE  \/ i \in 1 .. n
                \/ \E k \in 1 .. n : i = n + k
                \/ i = 2 * n + 1
                \/ \E k \in 1 .. n : i = 2 * n + 1 + k
    <2>1. CASE i \in 1 .. n
      BY <2>1
    <2>2. CASE i \in n + 1 .. 2 * n
      <3>1. i - n \in 1 .. n /\ i = n + (i - n)
        BY <1>1, <2>2
      <3> QED
        BY <3>1
    <2>3. CASE i > 2 * n + 1
      <3>1. i - (2 * n + 1) \in 1 .. n /\ i = 2 * n + 1 + (i - (2 * n + 1))
        BY <1>1, <1>13, <2>3
      <3> QED
        BY <3>1
    <2>4. i \in 1 .. n \/ i \in n + 1 .. 2 * n \/ i = 2 * n + 1 \/ i > 2 * n + 1
      BY <1>1, <1>13
    <2> QED
      BY <2>1, <2>2, <2>3, <2>4
  <1>19. \A i \in 1 .. Len(c) : RecordInstr(c[i], o, q, n, i)
    BY <1>14, <1>15, <1>16, <1>17, <1>18 DEF RecordInstr
  <1> QED
    BY <1>1, <1>13, <1>17, <1>19

\* Record assignment.
LEMMA RecordSound ==
    ASSUME TypeOK, TypeOK', IInv, Sound, Forms \subseteq LeakingForms,
           NEW x \in Place, NEW y \in Place, RecordAssign(x, y)
    PROVE  Sound'
  <1>o. PICK o : o = mem[x]
    OBVIOUS
  <1>q. PICK q : q = mem[y]
    OBVIOUS
  <1>n. PICK n : n = Len(PtrOffsets)
    OBVIOUS
  <1>c. PICK c : c = RecordAssignCode(o, q)
    OBVIOUS
  <1>1. /\ Boundary /\ Ready /\ Emit(c) /\ UNCHANGED control /\ x \in Direct /\ y \in Direct
        /\ o \in live /\ q \in live /\ o \in Obj /\ q \in Obj
    <2>1. "rec alias" \notin Forms
      BY DEF LeakingForms
    <2> QED
      BY <1>o, <1>q, <1>c, <2>1 DEF RecordAssign, Boundary, TypeOK
  <1>2. /\ c \in Seq(Instr) /\ n \in Nat /\ Len(c) = 3 * n + 1
        /\ \A i \in 1 .. Len(c) : RecordInstr(c[i], o, q, n, i)
        /\ \A k \in 1 .. n : c[2 * n + 1 + k] = Move(PtrField(o, k), Flight(k))
    BY <1>1, <1>n, <1>c, RecordParts, SMTT(30)
  <1>3. /\ code' = c /\ UNCHANGED <<live, rc, mem, stale, cascade, fault>> /\ cascade' = <<>>
        /\ UNCHANGED <<depth, bind, ctx>> /\ Variables' = Variables /\ UNCHANGED heapState
    BY <1>1 DEF Emit, heapState, control, Ready, Variables
  <1>4. Grows
    BY <1>1, <1>3, GrowsFacts
  <1>5. /\ OperandsSound'
        /\ \A p : Newborn(p)' => Newborn(p)
        /\ \A i \in 1 .. MaxCtx, k \in 1 .. MaxArity :
              i > Len(ctx') \/ k > Len(ctx'[i].vals) => Temp(i, k) \in stale'
    BY <1>1, <1>4, Standing
  <1>6. ASSUME NEW k \in 1 .. n
        PROVE  /\ Flight(k) \in Temps /\ \A p \in 1 .. MaxCtx, j \in 1 .. MaxArity : Flight(k) # Temp(p, j)
               /\ \A p \in Obj : /\ PtrField(p, k) = <<p, PtrOffsets[k]>> /\ PtrField(p, k) \in StrongSlot
                                 /\ PtrField(p, k)[1] = p /\ Heap(PtrField(p, k))
                                 /\ PtrField(p, k) \notin Temps /\ PtrOffsets[k] \in StrongField
    <2>1. k \in 0 .. Len(PtrOffsets) + 1 /\ Flight(k) = Temp(0, k) /\ k \in Int
      BY <1>2, <1>n DEF Flight
    <2>2. \A p \in 1 .. MaxCtx, j \in 1 .. MaxArity : Flight(k) # Temp(p, j)
      BY <2>1, TempFacts, TempInjective
    <2>3. ASSUME NEW p \in Obj
          PROVE  /\ PtrField(p, k) = <<p, PtrOffsets[k]>> /\ PtrField(p, k) \in StrongSlot
                 /\ PtrField(p, k)[1] = p /\ Heap(PtrField(p, k))
                 /\ PtrField(p, k) \notin Temps /\ PtrOffsets[k] \in StrongField
      <3>1. PICK s : s = <<p, PtrOffsets[k]>>
        OBVIOUS
      <3>2. PtrOffsets[k] \in StrongField /\ s[1] = p /\ PtrField(p, k) = s
        BY <1>n, <3>1 DEF StrongField, PtrField
      <3>3. s \in StrongSlot
        BY <3>1, <3>2 DEF StrongSlot
      <3>4. Heap(s) /\ s \notin Temps
        BY <3>2, SlotKinds, SlotFacts DEF Heap
      <3> QED
        BY <3>1, <3>2, <3>3, <3>4
    <2> QED
      BY <2>1, <2>2, <2>3, TempFacts
  <1>7. \A j, k \in 1 .. n : PtrField(o, j) = PtrField(o, k) => j = k
    BY <1>n, ArcAssumption DEF PtrField
  <1>8. ASSUME NEW k \in 1 .. n, NEW v, v = mem[PtrField(q, k)]
        PROVE  v \in live \cup {NIL} /\ ~Newborn(v)'
    <2>1. PICK s : s = PtrField(q, k)
      OBVIOUS
    <2>2. s \in StrongSlot \ stale
      BY <1>1, <1>6, <2>1, QuietFacts
    <2>3. v \in live \cup {NIL} /\ (v # NIL => rc[v] # 0)
      BY <1>8, <2>1, <2>2, OwnedFacts DEF IInv
    <2>4. NIL \notin live
      BY ArcAssumption DEF TypeOK
    <2> QED
      BY <1>5, <2>1, <2>3, <2>4, NewbornFacts
  <1>9. ASSUME NEW i \in 1 .. Len(c), NEW e, e = c[i]
        PROVE  /\ e.op = "retain" => i \in 1 .. n /\ \E k \in 1 .. n : e.val = mem[PtrField(q, k)]
               /\ i \in 1 .. n => e.op = "retain"
               /\ e.op = "release" => \E k \in 1 .. n : i = n + k /\ e.slot = PtrField(o, k)
               /\ e.op = "move" => \E k \in 1 .. n : i = 2 * n + 1 + k /\ e.slot = PtrField(o, k)
               /\ e.op = "copy" => e.obj = o /\ e.from = q
               /\ e.op \in {"retain", "release", "move", "copy"}
               /\ \A s : Fills(e, s) => \/ \E k \in 1 .. n : s = Flight(k)
                                        \/ e.op = "move" /\ s = e.slot
               /\ \A s : Empties(e, s) => \/ \E k \in 1 .. n : s = Flight(k)
                                          \/ e.op = "release" /\ s = e.slot
    <2>0. RecordInstr(e, o, q, n, i)
      BY <1>2, <1>9
    <2>1. CASE \E k \in 1 .. n : i = k /\ e = Retain(mem[PtrField(q, k)], Flight(k))
      <3>1. PICK k \in 1 .. n : i = k /\ e = Retain(mem[PtrField(q, k)], Flight(k))
        BY <2>1
      <3>2. e.op = "retain" /\ e.val = mem[PtrField(q, k)] /\ e.slot = Flight(k)
        BY <3>1, InstrFacts
      <3> QED
        BY <3>1, <3>2 DEF Fills, Empties
    <2>2. CASE \E k \in 1 .. n : i = n + k /\ e = Drop(PtrField(o, k))
      <3>1. PICK k \in 1 .. n : i = n + k /\ e = Drop(PtrField(o, k))
        BY <2>2
      <3>2. e.op = "release" /\ e.slot = PtrField(o, k) /\ i \notin 1 .. n
        BY <1>2, <3>1, InstrFacts
      <3> QED
        BY <3>1, <3>2 DEF Fills, Empties
    <2>3. CASE i = 2 * n + 1 /\ e = Copy(o, q)
      <3>1. e.op = "copy" /\ e.obj = o /\ e.from = q /\ i \notin 1 .. n
        BY <1>2, <2>3, InstrFacts
      <3> QED
        BY <3>1 DEF Fills, Empties
    <2>4. CASE \E k \in 1 .. n : i = 2 * n + 1 + k /\ e = Move(PtrField(o, k), Flight(k))
      <3>1. PICK k \in 1 .. n : i = 2 * n + 1 + k /\ e = Move(PtrField(o, k), Flight(k))
        BY <2>4
      <3>2. e.op = "move" /\ e.slot = PtrField(o, k) /\ e.from = Flight(k) /\ i \notin 1 .. n
        BY <1>2, <3>1, InstrFacts
      <3> QED
        BY <3>1, <3>2 DEF Fills, Empties
    <2> QED
      BY <2>0, <2>1, <2>2, <2>3, <2>4 DEF RecordInstr
  <1>10. ASSUME NEW i \in 1 .. Len(c), NEW s, Touches(c[i], s)
         PROVE  /\ s \in Temps \/ \E k \in 1 .. n : s = PtrField(o, k)
                /\ s \in Temps => \E k \in 1 .. n : s = Flight(k)
    <2>1. PICK e : e = c[i]
      OBVIOUS
    <2>2. /\ e.op \in {"release", "move"} => \E k \in 1 .. n : e.slot = PtrField(o, k)
          /\ Fills(e, s) \/ Empties(e, s) => \/ \E k \in 1 .. n : s = Flight(k)
                                             \/ e.op \in {"release", "move"} /\ s = e.slot
      BY <1>9, <2>1
    <2>3. Fills(e, s) \/ Empties(e, s)
      BY <1>10, <2>1 DEF Touches
    <2> QED
      BY <1>1, <1>6, <2>2, <2>3
  <1>11. Kept(o, c)' /\ Kept(q, c)'
    <2>1. ASSUME NEW r \in Direct, NEW p, p = mem[r]
          PROVE  Kept(p, c)'
      <3>1. r \in Variables /\ r \notin stale
        BY <1>1, PlaceSound, QuietFacts
      <3>2. \A i \in 1 .. Len(c) : ~Touches(c[i], r)
        BY <1>1, <1>6, <1>10, <3>1, VariableFacts
      <3> QED
        BY <1>3, <2>1, <3>1, <3>2 DEF Kept
    <2> QED
      BY <1>1, <1>o, <1>q, <2>1
  <1>12. Orderly(c)
    <2>1. ASSUME NEW i \in 1 .. Len(c), c[i].op = "retain", NEW j \in 1 .. i - 1
          PROVE  c[j].op # "release"
      <3>1. i \in 1 .. n
        BY <1>9, <2>1
      <3>2. j \in 1 .. n /\ j \in 1 .. Len(c)
        BY <1>2, <3>1
      <3>3. c[j].op = "retain"
        BY <1>9, <3>2
      <3> QED
        BY <3>3
    <2>2. ASSUME NEW i \in 1 .. Len(c), c[i].op = "release"
          PROVE  UntilThen(c, c[i].slot, i) /\ c[i].slot \notin Temps
      <3>1. PICK k \in 1 .. n : i = n + k /\ c[i].slot = PtrField(o, k)
        BY <1>9, <2>2
      <3>2. PICK s : s = PtrField(o, k)
        OBVIOUS
      <3>3. s \notin Temps /\ \A m \in 1 .. n : s # Flight(m)
        BY <1>1, <1>6, <3>2
      <3>4. ASSUME NEW j \in 1 .. i - 1, Touches(c[j], s)
            PROVE  FALSE
        <4>1. j \in 1 .. Len(c) /\ j < n + k /\ \A m \in 1 .. n : j # 2 * n + 1 + m
          BY <1>2, <3>1
        <4>2. PICK e : e = c[j]
          OBVIOUS
        <4>3. (Fills(e, s) => e.op = "move" /\ s = e.slot)
              /\ (Empties(e, s) => e.op = "release" /\ s = e.slot)
          BY <1>9, <3>3, <4>1, <4>2
        <4>4. e.op # "move"
          BY <1>9, <4>1, <4>2
        <4>5. e.op = "release" /\ s = e.slot
          BY <3>4, <4>2, <4>3, <4>4 DEF Touches
        <4>6. PICK m \in 1 .. n : j = n + m /\ e.slot = PtrField(o, m)
          BY <1>9, <4>1, <4>2, <4>5
        <4>7. m = k
          BY <1>7, <3>2, <4>5, <4>6
        <4> QED
          BY <1>2, <4>1, <4>6, <4>7
      <3> QED
        BY <3>1, <3>2, <3>3, <3>4 DEF UntilThen
    <2> QED
      BY <2>1, <2>2 DEF Orderly
  <1>13. ASSUME NEW s \in StrongSlot \ stale, \A k \in 1 .. n : s # PtrField(o, k), s \notin Temps
         PROVE  Lasts(c, s)'
    <2>1. \A i \in 1 .. Len(c) : ~Empties(c[i], s)
      BY <1>10, <1>13 DEF Touches
    <2> QED
      BY <1>3, <2>1 DEF Lasts
  <1>14. ASSUME NEW k \in 1 .. n, NEW s, s = PtrField(o, k)
         PROVE  Lasts(c, s)'
    <2>1. PICK i : i = 2 * n + 1 + k
      OBVIOUS
    <2>2. i \in 1 .. Len(c) /\ i \in Int
      BY <1>2, <2>1
    <2>3. c[i].op = "move" /\ c[i].slot = s
      BY <1>2, <1>14, <2>1, InstrFacts
    <2>4. Fills(c[i], s)
      BY <2>3 DEF Fills
    <2>5. ASSUME NEW m \in i + 1 .. Len(c)
          PROVE  ~Empties(c[m], s)
      <3>1. m \in 1 .. Len(c) /\ \A j \in 1 .. n : m # n + j
        BY <1>2, <2>1, <2>2
      <3>2. c[m].op # "release"
        BY <1>9, <3>1
      <3>3. \A j \in 1 .. n : s # Flight(j)
        BY <1>1, <1>6, <1>14
      <3> QED
        BY <1>9, <3>1, <3>2, <3>3
    <2> QED
      BY <2>2, <2>4, <2>5 DEF Lasts
  <1>15. \A s \in Variables' : Lasts(c, s)'
    <2>1. \A s \in Variables : s \in StrongSlot \ stale /\ s \notin Temps /\ ~Heap(s)
      BY <1>1, QuietFacts, VariableFacts
    <2> QED
      BY <1>1, <1>3, <1>6, <1>13, <2>1
  <1>16. \A p \in live', f \in StrongField : Lasts(c, <<p, f>>)'
    <2> TAKE p \in live', f \in StrongField
    <2>1. PICK s : s = <<p, f>>
      OBVIOUS
    <2>2. s \in StrongSlot \ stale /\ s \notin Temps
      <3>1. p \in live /\ p \in Obj /\ s[1] = p
        BY <1>3, <2>1 DEF TypeOK
      <3> QED
        BY <1>1, <2>1, <3>1, QuietFacts, SlotKinds, SlotFacts
    <2>3. CASE \E k \in 1 .. n : s = PtrField(o, k)
      BY <1>14, <2>1, <2>3
    <2>4. CASE \A k \in 1 .. n : s # PtrField(o, k)
      BY <1>13, <2>1, <2>2, <2>4
    <2> QED
      BY <2>3, <2>4
  <1>17. ASSUME NEW i \in 1 .. Len(c)
         PROVE  /\ c[i].op = "retain" => c[i].val \in live' \cup {NIL} /\ ~Newborn(c[i].val)'
                /\ c[i].op = "release" => Clean(c[i].slot)'
                /\ c[i].op \in {"release", "move", "poke"} /\ Heap(c[i].slot) =>
                      Kept(c[i].slot[1], c)'
                /\ c[i].op = "copy" => Kept(c[i].obj, c)' /\ Kept(c[i].from, c)'
                /\ \A p \in 1 .. MaxCtx, k \in 1 .. MaxArity :
                      ~Fills(c[i], Temp(p, k)) /\ (p <= Len(ctx') => ~Empties(c[i], Temp(p, k)))
    <2>1. PICK e : e = c[i]
      OBVIOUS
    <2>2. /\ e.op = "retain" => \E k \in 1 .. n : e.val = mem[PtrField(q, k)]
          /\ e.op \in {"release", "move"} => \E k \in 1 .. n : e.slot = PtrField(o, k)
          /\ e.op = "copy" => e.obj = o /\ e.from = q
          /\ e.op \in {"retain", "release", "move", "copy"}
      BY <1>9, <2>1
    <2>3. e.op = "retain" => e.val \in live' \cup {NIL} /\ ~Newborn(e.val)'
      <3>1. SUFFICES ASSUME e.op = "retain"
                     PROVE  e.val \in live' \cup {NIL} /\ ~Newborn(e.val)'
        OBVIOUS
      <3>2. PICK k \in 1 .. n : e.val = mem[PtrField(q, k)]
        BY <2>2, <3>1
      <3> QED
        BY <1>3, <1>8, <3>2 DEF Newborn
    <2>4. ASSUME e.op \in {"release", "move"}
          PROVE  /\ Clean(e.slot)' /\ Kept(e.slot[1], c)'
      <3>1. PICK k \in 1 .. n : e.slot = PtrField(o, k)
        BY <2>2, <2>4
      <3>2. PICK s : s = PtrField(o, k)
        OBVIOUS
      <3>3. s[1] = o /\ s \notin stale
        BY <1>1, <1>6, <3>2, QuietFacts
      <3>4. Clean(s)'
        BY <1>3, <3>3 DEF Clean
      <3> QED
        BY <1>11, <3>1, <3>2, <3>3, <3>4 DEF Kept, Clean
    <2>5. e.op = "copy" => Kept(e.obj, c)' /\ Kept(e.from, c)'
      BY <1>11, <2>2 DEF Kept
    <2>6. \A p \in 1 .. MaxCtx, k \in 1 .. MaxArity : ~Touches(e, Temp(p, k))
      <3> TAKE p \in 1 .. MaxCtx, k \in 1 .. MaxArity
      <3>1. PICK s : s = Temp(p, k)
        OBVIOUS
      <3>2. s \in Temps /\ \A j \in 1 .. n : s # Flight(j)
        BY <1>6, <3>1, TempFacts
      <3> QED
        BY <1>10, <2>1, <3>1, <3>2
    <2>7. e.op # "poke"
      BY <2>2
    <2> QED
      BY <2>1, <2>3, <2>4, <2>5, <2>6, <2>7 DEF Touches
  <1>18. \A t \in Temps : mem'[t] = mem[t] /\ (t \in stale' <=> t \in stale)
    BY <1>3
  <1> QED
    BY <1>1, <1>2, <1>3, <1>5, <1>12, <1>15, <1>16, <1>17, <1>18, EmitSound

-----------------------------------------------------------------------------
(* Every step. *)

LEMMA StatementSound ==
    ASSUME TypeOK, TypeOK', IInv, Sound, ZeroClaimed, Forms \subseteq LeakingForms,
           Len(Params \o Locals) <= MaxLocalPtrs, Statement
    PROVE  Sound'
  <1>1. CASE \E x \in Place, o \in Obj : New(x, o)
    BY <1>1, NewSound
  <1>2. CASE \E x, y \in Place : RecordAssign(x, y) \/ ArrayAssign(x, y)
    BY <1>2, RecordSound, ArraySound
  <1>3. CASE \/ \E x \in Place : BeginStore(x) \/ BeginRelate(x)
             \/ \E v \in Place \cup {NIL} : BeginCall(v)
             \/ BeginCompare \/ BeginReturn
    BY <1>3, BeginSound
  <1>4. CASE \E o \in Obj : BeginConstruct(o)
    BY <1>4, ConstructSound
  <1>5. CASE \/ \E s \in Place : Borrow(s) \/ BorrowFaults(s)
             \/ BorrowNil \/ TakeResult
             \/ \E o \in Immortal : TakeStatic(o)
    BY <1>5, OperandSound
  <1> QED
    BY <1>1, <1>2, <1>3, <1>4, <1>5, StoreSound, CompareSound, CompareSafe, EnterSound, ReturnValueSound,
       ReturnPlainSound, InScopePlace DEF Statement

LEMMA InitSound == Init => Sound
  <1>1. SUFFICES ASSUME Init PROVE Sound
    OBVIOUS
  <1>2. /\ live = Immortal /\ mem = [s \in Slot |-> NIL] /\ cascade = <<>> /\ code = <<>>
        /\ ctx = <<>> /\ depth = 0 /\ fault = FALSE
        /\ stale = (Root \ Globals) \cup ((Obj \ Immortal) \X StrongField)
        /\ Len(code) = 0 /\ Len(cascade) = 0 /\ Len(ctx) = 0
    BY <1>1 DEF Init, HeapInit
  <1>3. Held = StrongSlot \ stale /\ \A s : ~Released(s)
    BY <1>2, HeldQuiet
  <1>4. \A s \in Held : HeldBy(Held, code, s, Len(code) + 1)
    BY <1>2 DEF HeldBy
  <1>5. VariablesHeld
    <2>1. Variables = Globals
      BY <1>2 DEF Variables
    <2>2. \A s \in Globals : s \in StrongSlot /\ s \notin stale
      BY <1>2, SlotFacts, SlotKinds
    <2> QED
      BY <1>3, <1>4, <2>1, <2>2 DEF VariablesHeld
  <1>6. FieldsHeld
    <2>1. ASSUME NEW o \in live, NEW f \in StrongField
          PROVE  HeldBy(Held, code, <<o, f>>, Len(code) + 1)
      <3>1. PICK s : s = <<o, f>>
        OBVIOUS
      <3>2. o \in Immortal /\ o \in Obj /\ s[1] = o
        BY <1>2, <3>1, ArcAssumption
      <3>3. s \in StrongSlot
        BY <3>1, <3>2 DEF StrongSlot
      <3>4. s \notin stale
        BY <1>2, <3>1, <3>2, SlotKinds
      <3> QED
        BY <1>3, <1>4, <3>1, <3>3, <3>4
    <2> QED
      BY <2>1 DEF FieldsHeld
  <1>7. RegistersWiped
    <2>1. \A t \in Temps : t \in Slot /\ t \in stale
      <3>1. \A g \in Globals : g[1] = 0
        BY DEF Globals
      <3>2. \A t \in Temps : t \in Root /\ t \notin Globals /\ t \in Slot
        BY <3>1, SlotFacts, SlotKinds
      <3> QED
        BY <1>2, <3>2
    <2>2. \A t \in Temps : mem[t] = NIL
      BY <1>2, <2>1
    <2>3. \A i \in 1 .. MaxCtx, k \in 1 .. MaxArity : Temp(i, k) \in stale
      BY <2>1, TempFacts
    <2> QED
      BY <1>2, <2>2, <2>3 DEF RegistersWiped
  <1>8. CodeSound /\ CascadeSound
    BY <1>2 DEF CodeSound, CascadeSound
  <1>9. OperandsSound
    BY <1>2 DEF OperandsSound
  <1> QED
    BY <1>2, <1>5, <1>6, <1>7, <1>8, <1>9 DEF Sound

LEMMA StutterSound ==
    ASSUME Sound, UNCHANGED vars
    PROVE  Sound'
  <1>1. UNCHANGED <<live, rc, mem, stale, cascade, fault, depth, bind, ctx, code>>
    BY DEF vars, heapState, control
  <1>2. /\ Held' = Held /\ Variables' = Variables
        /\ \A s : Released(s)' <=> Released(s)
        /\ \A o : Freeing(o)' <=> Freeing(o)
    BY <1>1 DEF Held, Released, Variables, Freeing
  <1>3. /\ \A o, c, i : Guarded(o, c, i)' <=> Guarded(o, c, i)
        /\ \A i : NotEntered(i)' <=> NotEntered(i)
        /\ \A s : Clean(s)' <=> Clean(s)
    BY <1>1, <1>2 DEF Guarded, NotEntered, Clean
  <1>4. \A o : Newborn(o)' <=> Newborn(o)
    BY <1>1, <1>3 DEF Newborn
  <1>5. VariablesHeld' /\ FieldsHeld'
    BY <1>1, <1>2 DEF Sound, VariablesHeld, FieldsHeld
  <1>6. RegistersWiped'
    BY <1>1, <1>2 DEF Sound, RegistersWiped
  <1>7. \A i \in 1 .. Len(code) : SoundInstr(code, i)'
    BY <1>1, <1>2, <1>3, <1>4 DEF Sound, CodeSound, SoundInstr
  <1>8. CodeSound'
    BY <1>1, <1>7 DEF CodeSound
  <1>9. CascadeSound'
    BY <1>1, <1>2, <1>3 DEF Sound, CascadeSound, SoundRelease
  <1>10. OperandsSound'
    BY <1>1, <1>2, <1>3 DEF Sound, OperandsSound, SoundOperand, Receiver, Idle
  <1> QED
    BY <1>1, <1>5, <1>6, <1>8, <1>9, <1>10 DEF Sound

(* Sound is inductive, together with Inductive and NoneForgotten: the      *)
(* compiled code of programs in none of the unprotected forms.             *)
THEOREM SoundAlways ==
    ASSUME Forms \subseteq LeakingForms, Len(Params \o Locals) <= MaxLocalPtrs
    PROVE  Spec => []Sound
  <1>0. Forms \cap UnbalancedForms = {}
    BY DEF LeakingForms, UnbalancedForms
  <1>1. Init => Sound
    BY InitSound
  <1>2. /\ TypeOK /\ TypeOK' /\ IInv /\ ZeroClaimed /\ Sound
        /\ [Next]_vars
        => Sound'
    <2>1. ASSUME TypeOK, TypeOK', IInv, ZeroClaimed, Sound, Next
          PROVE  Sound'
      BY <2>1, RunSound, StatementSound DEF Next
    <2> QED
      BY <2>1, StutterSound
  <1>3. Spec => []IInv /\ []ZeroClaimed
    BY <1>0, Inductive, NoneForgotten
  <1> QED
    BY <1>1, <1>2, <1>3, TypeCorrect, PTL DEF Spec

(* Compiled code never touches a freed object and never releases a         *)
(* reference twice, whatever the program, its calls and its object graph,  *)
(* as long as it uses none of the forms the compiler does not protect.     *)
THEOREM NeverFaults ==
    ASSUME Forms \subseteq LeakingForms, Len(Params \o Locals) <= MaxLocalPtrs
    PROVE  Spec => []NoFault
  <1>1. Sound => NoFault
    BY DEF Sound, NoFault
  <1> QED
    BY <1>1, SoundAlways, PTL
=============================================================================
