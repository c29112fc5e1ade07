---------------------------- MODULE FilesProofs ----------------------------
(* Theorems about Files and their proofs. *)
EXTENDS Files, SequenceTheorems, TLAPS

-----------------------------------------------------------------------------
(* Contents and buffers. *)

\* A sequence is a function on its positions.
LEMMA SeqIsFcn ==
    ASSUME NEW S, NEW t \in Seq(S)
    PROVE  t \in [1 .. Len(t) -> S]
  OBVIOUS

\* A content is a sequence of at most MaxLen bytes, and its buffer extends it.
LEMMA BufferFacts ==
    ASSUME NEW s \in Contents
    PROVE  /\ Len(s) \in 0 .. MaxLen
           /\ s = [i \in 1 .. Len(s) |-> s[i]]
           /\ Buffer(s) \in [1 .. MaxLen -> Byte \cup {0}]
           /\ \A i \in 1 .. Len(s) : Buffer(s)[i] = s[i]
  <1>1. PICK k \in 0 .. MaxLen : s \in [1 .. k -> Byte \cup {0}]
    BY DEF Contents
  <1>2. Len(s) = k
    BY <1>1, FilesAssumption
  <1>3. \A i \in 1 .. MaxLen : i <= Len(s) => i \in 1 .. k
    BY <1>1, <1>2, FilesAssumption
  <1> QED
    BY <1>1, <1>2, <1>3, FilesAssumption DEF Buffer

\* What a file holds is a content, and so is the part of it already written.
LEMMA ContentFacts ==
    ASSUME TypeOK, NEW f \in Open
    PROVE  /\ Content(f) \in Contents
           /\ Len(Content(f)) = open[f].len
           /\ \A k \in 0 .. open[f].len : SubSeq(Content(f), 1, k) \in Contents
  <1> DEFINE n == open[f].len
  <1>1. n \in 0 .. MaxLen /\ open[f].data \in [1 .. MaxLen -> Byte \cup {0}]
    BY DEF TypeOK, FileDesc
  <1>2. Content(f) \in [1 .. n -> Byte \cup {0}]
    BY <1>1, FilesAssumption DEF Content
  <1>3. Content(f) \in Seq(Byte \cup {0}) /\ Len(Content(f)) = n
    BY <1>1, <1>2
  <1>4. ASSUME NEW k \in 0 .. n
        PROVE  SubSeq(Content(f), 1, k) \in [1 .. k -> Byte \cup {0}]
    <2> DEFINE c == Content(f)  t == SubSeq(c, 1, k)
    <2> HIDE DEF c, t
    <2>1. c \in [1 .. n -> Byte \cup {0}] /\ c \in Seq(Byte \cup {0}) /\ Len(c) = n
      BY <1>2, <1>3 DEF c
    <2>2. t \in Seq(Byte \cup {0}) /\ Len(t) = k
      BY <2>1, <1>1, <1>4, SubSeqProperties DEF t
    <2>3. t \in [1 .. k -> Byte \cup {0}]
      BY <2>2, SeqIsFcn
    <2> QED
      BY <2>3 DEF c, t
  <1>5. \A k \in 0 .. n : k \in 0 .. MaxLen
    BY <1>1, FilesAssumption
  <1> QED
    BY <1>1, <1>2, <1>3, <1>4, <1>5 DEF Contents

-----------------------------------------------------------------------------
(* The invariant is inductive. *)

LEMMA InitStored == Init => StoredInv
  <1> SUFFICES ASSUME Init PROVE StoredInv
    OBVIOUS
  <1>1. << >> \in Contents
    <2>1. 0 \in 0 .. MaxLen /\ << >> \in [1 .. 0 -> Byte \cup {0}]
      BY FilesAssumption
    <2> QED
      BY <2>1 DEF Contents
  <1>2. TypeOK
    BY <1>1, FilesAssumption DEF Init, TypeOK, Open
  <1>3. Open = {} /\ writing = NIL
    BY DEF Init, Open
  <1> QED
    BY <1>2, <1>3 DEF StoredInv, CleanIsStored, SaveOwns

\* What CleanIsStored says of one file.
Stored(f) ==
    open[f].registered /\ ~open[f].dirty =>
        /\ \E k \in 0 .. open[f].len : disk[open[f].name] = SubSeq(Content(f), 1, k)
        /\ f \in cut \/ Saving(f) \/ disk[open[f].name] = Content(f)

\* A content is a beginning of itself, and so is the empty one.
LEMMA WholeFacts ==
    ASSUME NEW s \in Contents
    PROVE  /\ Len(s) \in 0 .. Len(s) /\ s = SubSeq(s, 1, Len(s))
           /\ 0 \in 0 .. Len(s) /\ << >> = SubSeq(s, 1, 0)
  <1>1. PICK k \in 0 .. MaxLen : s \in [1 .. k -> Byte \cup {0}]
    BY DEF Contents
  <1>2. s \in Seq(Byte \cup {0}) /\ Len(s) = k /\ k \in Nat
    BY <1>1, FilesAssumption
  <1> QED
    BY <1>2

\* A file whose record, buffer, host file and part in a save stay as they are.
LEMMA StillStored ==
    ASSUME NEW f, open'[f] = open[f], disk'[open[f].name] = disk[open[f].name],
           f \in cut => f \in cut', Saving(f) => Saving(f)', Stored(f)
    PROVE  Stored(f)'
  <1>1. Content(f)' = Content(f)
    BY DEF Content
  <1> QED
    BY <1>1 DEF Stored

\* A new record leaves the others as they are.
LEMMA AllocateKeeps ==
    ASSUME StoredInv, writing = NIL, UNCHANGED <<disk, rider, writing, foreign, cut>>,
           NEW f \in File, NEW n \in Name, NEW s \in Contents, NEW d \in BOOLEAN, NEW b \in BOOLEAN,
           Allocate(f, [name |-> n, data |-> Buffer(s), len |-> Len(s),
                        dirty |-> d, registered |-> b]),
           b => disk[n] = s
    PROVE  StoredInv'
  <1> DEFINE desc == [name |-> n, data |-> Buffer(s), len |-> Len(s),
                      dirty |-> d, registered |-> b]
  <1>1. /\ f \notin Open /\ Open' = Open \cup {f}
        /\ \A g \in Open : open'[g] = open[g]
        /\ open'[f] = desc
    BY DEF Allocate, Open
  <1>2. desc \in FileDesc
    BY BufferFacts DEF FileDesc
  <1>3. TypeOK'
    BY <1>1, <1>2 DEF StoredInv, TypeOK, Open, Allocate
  <1>4. Content(f)' = s
    <2>1. Content(f)' = [i \in 1 .. Len(s) |-> Buffer(s)[i]]
      BY <1>1 DEF Content
    <2> QED
      BY <2>1, BufferFacts
  <1>5. ASSUME NEW g \in Open \ foreign
        PROVE  Stored(g)'
    <2>1. Stored(g)
      BY DEF StoredInv, CleanIsStored, Stored
    <2> QED
      BY <1>1, <2>1, StillStored DEF Saving
  <1>6. Stored(f)'
    <2>1. b => disk'[open'[f].name] = s
      BY <1>1
    <2>2. open'[f].len = Len(s) /\ open'[f].registered = b
      BY <1>1
    <2>3. Len(s) \in 0 .. Len(s) /\ s = SubSeq(s, 1, Len(s))
      BY WholeFacts
    <2> QED
      BY <1>4, <2>1, <2>2, <2>3 DEF Stored
  <1>7. CleanIsStored'
    BY <1>1, <1>5, <1>6 DEF CleanIsStored, Stored
  <1> QED
    BY <1>3, <1>7 DEF StoredInv, SaveOwns

\* Old and New.
LEMMA OldKeeps ==
    ASSUME StoredInv, NEW n \in Name, NEW f \in File, Old(n, f)
    PROVE  StoredInv'
  <1>1. disk[n] \in Contents
    BY DEF Old, StoredInv, TypeOK
  <1> QED
    BY <1>1, AllocateKeeps DEF Old

LEMMA NewKeeps ==
    ASSUME StoredInv, NEW n \in Name, NEW f \in File, New(n, f)
    PROVE  StoredInv'
  <1>1. << >> \in Contents /\ Len(<< >>) = 0
    BY FilesAssumption DEF Contents
  <1> QED
    BY <1>1, AllocateKeeps DEF New

\* A file that is dropped was nobody's, and the others keep their contents.
LEMMA DropKeeps ==
    ASSUME StoredInv, NEW f \in File, Drop(f)
    PROVE  StoredInv'
  <1>1. /\ Open' = Open \ {f}
        /\ \A g \in Open' : open'[g] = open[g]
        /\ writing = NIL /\ writing' = NIL
    BY DEF Drop, Open
  <1>2. TypeOK'
    BY <1>1 DEF Drop, StoredInv, TypeOK, Open
  <1>3. ASSUME NEW g \in Open' \ foreign'
        PROVE  Stored(g)'
    <2>1. g \in Open \ foreign /\ g # f
      BY <1>1 DEF Drop
    <2>2. Stored(g)
      BY <2>1 DEF StoredInv, CleanIsStored, Stored
    <2> QED
      BY <1>1, <2>1, <2>2, StillStored DEF Drop, Saving
  <1>4. CleanIsStored'
    BY <1>3 DEF CleanIsStored, Stored
  <1> QED
    BY <1>1, <1>2, <1>4 DEF StoredInv, SaveOwns

\* What Purge and a rider's write have in common: the file they change is
\* marked dirty, and nothing else changes but riders.
LEMMA DirtyKeeps ==
    ASSUME StoredInv, writing = NIL, NEW f \in Open, TypeOK',
           Open' = Open, \A g \in Open \ {f} : open'[g] = open[g],
           open'[f].dirty, UNCHANGED <<disk, writing, foreign>>, cut' = cut \ {f}
    PROVE  StoredInv'
  <1>1. ASSUME NEW g \in Open' \ foreign'
        PROVE  Stored(g)'
    <2>1. CASE g = f
      BY <2>1 DEF Stored
    <2>2. CASE g # f
      <3>1. g \in Open \ foreign /\ open'[g] = open[g] /\ (g \in cut => g \in cut')
        BY <2>2
      <3>2. Stored(g)
        BY <3>1 DEF StoredInv, CleanIsStored, Stored
      <3> QED
        BY <3>1, <3>2, StillStored DEF Saving
    <2> QED
      BY <2>1, <2>2
  <1>2. CleanIsStored'
    BY <1>1 DEF CleanIsStored, Stored
  <1> QED
    BY <1>2 DEF StoredInv, SaveOwns

LEMMA PurgeKeeps ==
    ASSUME StoredInv, NEW f \in File, Purge(f)
    PROVE  StoredInv'
  <1>1. TypeOK'
    <2>1. open[f] \in FileDesc /\ 0 \in 0 .. MaxLen
      BY FilesAssumption DEF Purge, StoredInv, TypeOK
    <2>2. [open[f] EXCEPT !.len = 0, !.dirty = TRUE] \in FileDesc
      BY <2>1 DEF FileDesc
    <2>3. open' = [open EXCEPT ![f] = [open[f] EXCEPT !.len = 0, !.dirty = TRUE]]
      BY DEF Purge, StoredInv, TypeOK
    <2>4. open' \in [Open -> FileDesc]
      BY <2>2, <2>3 DEF StoredInv, TypeOK
    <2> QED
      BY <2>4 DEF Purge, StoredInv, TypeOK, Open
  <1>2. /\ f \in Open /\ Open' = Open /\ open'[f].dirty
        /\ \A g \in Open \ {f} : open'[g] = open[g]
    BY DEF Purge, StoredInv, TypeOK, Open, FileDesc
  <1> QED
    BY <1>1, <1>2, DirtyKeeps DEF Purge

LEMMA WriteByteKeeps ==
    ASSUME StoredInv, NEW r \in Rider, NEW b \in Byte, WriteByte(r, b)
    PROVE  StoredInv'
  <1> DEFINE f == rider[r].file  p == rider[r].pos
  <1>1. f \in Open /\ p \in 0 .. MaxLen /\ p < MaxLen
    BY DEF WriteByte, StoredInv, TypeOK
  <1>2. p + 1 \in 1 .. MaxLen
    BY <1>1, FilesAssumption
  <1>3. TypeOK'
    <2> DEFINE d == open[f]
               e == [d EXCEPT !.data[p + 1] = b, !.dirty = TRUE,
                              !.len = IF p + 1 > @ THEN p + 1 ELSE @]
    <2>1. d \in FileDesc
      BY <1>1 DEF StoredInv, TypeOK
    <2>2. /\ d.len \in 0 .. MaxLen /\ p + 1 \in 0 .. MaxLen
          /\ [d.data EXCEPT ![p + 1] = b] \in [1 .. MaxLen -> Byte \cup {0}]
      BY <2>1, <1>2 DEF FileDesc
    <2>3. e \in FileDesc
      BY <2>1, <2>2 DEF FileDesc
    <2>4. open' = [open EXCEPT ![f] = e]
      BY <1>1 DEF WriteByte, StoredInv, TypeOK
    <2>5. open' \in [Open -> FileDesc]
      BY <2>3, <2>4, <1>1 DEF StoredInv, TypeOK
    <2>6. rider' \in [Rider -> [file : Open \cup {NIL}, pos : 0 .. MaxLen, eof : BOOLEAN]]
      BY <1>1, <2>2 DEF WriteByte, StoredInv, TypeOK
    <2> QED
      BY <2>5, <2>6, <1>1 DEF WriteByte, StoredInv, TypeOK, Open
  <1>4. /\ Open' = Open /\ open'[f].dirty
        /\ \A g \in Open \ {f} : open'[g] = open[g]
    BY <1>1 DEF WriteByte, StoredInv, TypeOK, Open, FileDesc
  <1> QED
    BY <1>1, <1>3, <1>4, DirtyKeeps DEF WriteByte

\* Moving a rider moves nothing else.
LEMMA RiderKeeps ==
    ASSUME StoredInv, NEW r \in Rider,
           \/ \E f \in File, p \in 0 .. MaxLen : Set(r, f, p)
           \/ SetNil(r)
           \/ ReadByte(r)
    PROVE  StoredInv'
  <1>1. UNCHANGED <<disk, open, writing, foreign, cut>>
    BY DEF Set, SetNil, ReadByte
  <1>2. TypeOK'
    <2>1. CASE \E f \in File, p \in 0 .. MaxLen : Set(r, f, p)
      BY <2>1, <1>1 DEF Set, StoredInv, TypeOK, Open
    <2>2. CASE SetNil(r)
      BY <2>2, <1>1, FilesAssumption DEF SetNil, StoredInv, TypeOK, Open
    <2>3. CASE ReadByte(r)
      <3> DEFINE f == rider[r].file  p == rider[r].pos
      <3>1. f \in Open /\ p \in 0 .. MaxLen /\ open[f].len \in 0 .. MaxLen
        BY <2>3 DEF ReadByte, StoredInv, TypeOK, FileDesc
      <3>2. ~(p >= open[f].len) => p + 1 \in 0 .. MaxLen
        BY <3>1, FilesAssumption
      <3> QED
        BY <2>3, <3>1, <3>2, <1>1 DEF ReadByte, StoredInv, TypeOK, Open
    <2> QED
      BY <2>1, <2>2, <2>3
  <1> QED
    BY <1>1, <1>2 DEF StoredInv, CleanIsStored, SaveOwns, Saving, Content, OfName, Target, Open

\* Deleting and renaming change the host under files that are foreign then.
LEMMA HostKeeps ==
    ASSUME StoredInv, NEW N \in SUBSET Name, UNCHANGED <<open, rider, writing, cut>>,
           disk' \in [Name -> Contents \cup {NIL}],
           \A n \in Name \ N : disk'[n] = disk[n],
           foreign' = foreign \cup { f \in Open : open[f].name \in N },
           writing = NIL
    PROVE  StoredInv'
  <1>1. TypeOK'
    BY DEF StoredInv, TypeOK, Open
  <1>2. ASSUME NEW g \in Open' \ foreign'
        PROVE  Stored(g)'
    <2>1. g \in Open \ foreign /\ open[g].name \in Name \ N
      BY DEF Open, StoredInv, TypeOK, FileDesc
    <2>2. Stored(g)
      BY <2>1 DEF StoredInv, CleanIsStored, Stored
    <2> QED
      BY <2>1, <2>2, StillStored DEF Saving
  <1>3. CleanIsStored'
    BY <1>2 DEF CleanIsStored, Stored
  <1> QED
    BY <1>1, <1>3 DEF StoredInv, SaveOwns

LEMMA DeleteKeeps ==
    ASSUME StoredInv, NEW n \in Name, Delete(n)
    PROVE  StoredInv'
  <1>1. /\ disk' \in [Name -> Contents \cup {NIL}]
        /\ \A m \in Name \ {n} : disk'[m] = disk[m]
    BY DEF Delete, StoredInv, TypeOK
  <1>2. foreign' = foreign \cup { f \in Open : open[f].name \in {n} }
    BY DEF Delete, OfName
  <1>3. {n} \in SUBSET Name /\ UNCHANGED <<open, rider, writing, cut>> /\ writing = NIL
    BY DEF Delete
  <1> QED
    BY <1>1, <1>2, <1>3, HostKeeps

LEMMA RenameKeeps ==
    ASSUME StoredInv, NEW m \in Name, NEW n \in Name, Rename(m, n)
    PROVE  StoredInv'
  <1>1. /\ disk' \in [Name -> Contents \cup {NIL}]
        /\ \A k \in Name \ {m, n} : disk'[k] = disk[k]
    BY DEF Rename, StoredInv, TypeOK
  <1>2. foreign' = foreign \cup { f \in Open : open[f].name \in {m, n} }
    BY DEF Rename, OfName
  <1>3. {m, n} \in SUBSET Name /\ UNCHANGED <<open, rider, writing, cut>> /\ writing = NIL
    BY DEF Rename
  <1> QED
    BY <1>1, <1>2, <1>3, HostKeeps

\* A save that begins makes the host's file foreign to the others of its name.
LEMMA TruncateKeeps ==
    ASSUME StoredInv, NEW f \in Open, NEW op \in {"Register", "Close"},
           writing = NIL, Truncate(f, op)
    PROVE  StoredInv'
  <1> DEFINE n == open[f].name
  <1>1. n \in Name
    BY DEF StoredInv, TypeOK, FileDesc
  <1>2. << >> \in Contents
    BY FilesAssumption DEF Contents
  <1>3. /\ disk' \in [Name -> Contents \cup {NIL}] /\ disk'[n] = << >>
        /\ \A m \in Name \ {n} : disk'[m] = disk[m]
    BY <1>1, <1>2 DEF Truncate, StoredInv, TypeOK
  <1>4. /\ writing' = [file |-> f, op |-> op] /\ open' = open /\ rider' = rider
        /\ foreign' = (foreign \cup OfName(n)) \ {f} /\ cut' = cut \ {f}
        /\ Open' = Open
    BY DEF Truncate, Open
  <1>5. TypeOK'
    BY <1>3, <1>4 DEF StoredInv, TypeOK, OfName
  <1>6. \E k \in 0 .. open[f].len : disk'[n] = SubSeq(Content(f)', 1, k)
    <2>1. Content(f) \in Contents /\ Len(Content(f)) = open[f].len
      BY ContentFacts DEF StoredInv
    <2>2. Content(f)' = Content(f)
      BY <1>4 DEF Content
    <2> QED
      BY <1>3, <2>1, <2>2, WholeFacts
  <1>7. ASSUME NEW g \in Open' \ foreign'
        PROVE  Stored(g)'
    <2>1. CASE g = f
      <3>1. Saving(f)'
        BY <1>4, FilesAssumption DEF StoredInv, TypeOK, Saving
      <3> QED
        BY <1>4, <1>6, <2>1, <3>1 DEF Stored
    <2>2. CASE g # f
      <3>1. g \in Open \ foreign /\ open[g].name \in Name \ {n} /\ (g \in cut => g \in cut')
        BY <1>4, <2>2 DEF OfName, StoredInv, TypeOK, FileDesc
      <3>2. Stored(g)
        BY <3>1 DEF StoredInv, CleanIsStored, Stored
      <3> QED
        BY <1>3, <1>4, <3>1, <3>2, StillStored DEF Saving
    <2> QED
      BY <2>1, <2>2
  <1>8. CleanIsStored'
    BY <1>7 DEF CleanIsStored, Stored
  <1>9. SaveOwns'
    <2>1. writing'.file = f /\ Target' = n
      BY <1>4 DEF Target
    <2>2. OfName(n)' = OfName(n)
      BY <1>4 DEF OfName
    <2>3. f \notin foreign' /\ OfName(n) \ {f} \subseteq foreign'
      BY <1>4
    <2> QED
      BY <1>4, <1>6, <2>1, <2>2, <2>3 DEF SaveOwns
  <1> QED
    BY <1>5, <1>8, <1>9 DEF StoredInv

LEMMA FlushKeeps ==
    ASSUME StoredInv, NEW k \in 1 .. MaxLen, Flush(k)
    PROVE  StoredInv'
  <1> SUFFICES ASSUME NEW f, f = writing.file, NEW t, t = Target PROVE StoredInv'
    OBVIOUS
  <1>1. /\ f \in Open /\ t \in Name /\ t = open[f].name /\ writing # NIL
        /\ open[f].len \in 0 .. MaxLen /\ k < open[f].len
    BY DEF Flush, Target, StoredInv, TypeOK, FileDesc
  <1>2. k \in 0 .. open[f].len
    BY <1>1, FilesAssumption
  <1>3. SubSeq(Content(f), 1, k) \in Contents
    BY <1>1, <1>2, ContentFacts DEF StoredInv
  <1>4. /\ disk' \in [Name -> Contents \cup {NIL}]
        /\ disk'[t] = SubSeq(Content(f), 1, k)
        /\ \A m \in Name \ {t} : disk'[m] = disk[m]
    BY <1>1, <1>3 DEF Flush, StoredInv, TypeOK
  <1>5. UNCHANGED <<open, rider, writing, foreign, cut>> /\ Open' = Open
    BY DEF Flush, Open
  <1>6. TypeOK'
    BY <1>4, <1>5 DEF StoredInv, TypeOK
  <1>7. \A g : Content(g)' = Content(g) /\ Saving(g)' = Saving(g)
    BY <1>5 DEF Content, Saving
  <1>8. \E j \in 0 .. open'[f].len : disk'[t] = SubSeq(Content(f)', 1, j)
    BY <1>2, <1>4, <1>5, <1>7
  <1>9. ASSUME NEW g \in Open' \ foreign'
        PROVE  Stored(g)'
    <2>1. CASE g = f
      BY <1>1, <1>5, <1>7, <1>8, <2>1 DEF Stored, Saving
    <2>2. CASE g # f
      <3>1. g \in Open \ foreign /\ open[g].name \in Name \ {t}
        BY <1>1, <1>5, <2>2 DEF OfName, SaveOwns, StoredInv, TypeOK, FileDesc
      <3>2. Stored(g)
        BY <3>1 DEF StoredInv, CleanIsStored, Stored
      <3> QED
        BY <1>4, <1>5, <1>7, <3>1, <3>2, StillStored
    <2> QED
      BY <2>1, <2>2
  <1>10. CleanIsStored'
    BY <1>9 DEF CleanIsStored, Stored
  <1>11. SaveOwns'
    <2>1. Target' = t /\ OfName(t)' = OfName(t) /\ writing'.file = f
      BY <1>5 DEF Target, OfName
    <2> QED
      BY <1>5, <1>8, <2>1 DEF StoredInv, SaveOwns
  <1> QED
    BY <1>6, <1>10, <1>11 DEF StoredInv

\* What Finish and LoseTail do to the file that was saved.
LEMMA SavedFacts ==
    ASSUME StoredInv, Saved
    PROVE  /\ writing.file \in Open /\ Target \in Name
           /\ Open' = Open /\ open' \in [Open -> FileDesc]
           /\ \A g \in Open : /\ open'[g].name = open[g].name
                              /\ Content(g)' = Content(g)
                              /\ g # writing.file => open'[g] = open[g]
           /\ writing' = NIL /\ UNCHANGED <<rider, foreign>>
  <1> DEFINE f == writing.file
             d == [open[f] EXCEPT !.dirty = FALSE,
                                  !.registered = @ \/ writing.op = "Register"]
  <1>1. f \in Open /\ open[f] \in FileDesc
    BY DEF Saved, StoredInv, TypeOK
  <1>2. /\ d \in FileDesc /\ d.name = open[f].name
        /\ d.len = open[f].len /\ d.data = open[f].data
    BY <1>1 DEF FileDesc
  <1>3. open' = [open EXCEPT ![f] = d]
    BY <1>1 DEF Saved, StoredInv, TypeOK
  <1>4. open' \in [Open -> FileDesc] /\ open'[f] = d
        /\ \A g \in Open : g # f => open'[g] = open[g]
    BY <1>1, <1>2, <1>3 DEF StoredInv, TypeOK
  <1>5. Open' = Open
    BY <1>4 DEF Open
  <1>6. \A g \in Open : Content(g)' = Content(g)
    <2> SUFFICES ASSUME NEW g \in Open PROVE Content(g)' = Content(g)
      OBVIOUS
    <2>1. open'[g].len = open[g].len /\ open'[g].data = open[g].data
      BY <1>2, <1>4
    <2> QED
      BY <2>1 DEF Content
  <1>7. Target \in Name
    BY <1>1 DEF Target, FileDesc
  <1> QED
    BY <1>1, <1>2, <1>4, <1>5, <1>6, <1>7 DEF Saved

\* The end of a save, whether the host got the last bytes or not: the file is
\* no other's, and no other file relies on it.
LEMMA EndKeeps ==
    ASSUME StoredInv, Saved, NEW f, f = writing.file,
           disk' \in [Name -> Contents \cup {NIL}],
           \A m \in Name \ {Target} : disk'[m] = disk[m],
           cut' = cut \/ cut' = cut \cup {f},
           Stored(f)'
    PROVE  StoredInv'
  <1>1. f \in Open /\ writing # NIL /\ Target = open[f].name
    BY DEF Saved, StoredInv, TypeOK, Target
  <1>2. TypeOK'
    BY <1>1, SavedFacts DEF StoredInv, TypeOK
  <1>3. ASSUME NEW g \in Open' \ foreign', g # f
        PROVE  Stored(g)'
    <2>1. g \in Open \ foreign /\ open[g].name \in Name \ {Target} /\ open'[g] = open[g]
      BY <1>1, <1>3, SavedFacts DEF OfName, SaveOwns, StoredInv, TypeOK, FileDesc
    <2>2. Stored(g) /\ ~Saving(g) /\ (g \in cut => g \in cut')
      BY <2>1, <1>3 DEF StoredInv, CleanIsStored, Stored, Saving
    <2> QED
      BY <2>1, <2>2, StillStored
  <1>4. CleanIsStored'
    BY <1>3 DEF CleanIsStored, Stored
  <1> QED
    BY <1>2, <1>4, SavedFacts DEF StoredInv, SaveOwns

LEMMA FinishKeeps ==
    ASSUME StoredInv, Finish
    PROVE  StoredInv'
  <1> SUFFICES ASSUME NEW f, f = writing.file PROVE StoredInv'
    OBVIOUS
  <1>1. Saved /\ f \in Open /\ Target \in Name /\ Target = open[f].name
    BY SavedFacts DEF Finish, Target
  <1>2. Content(f) \in Contents /\ Len(Content(f)) = open[f].len
    BY <1>1, ContentFacts DEF StoredInv
  <1>3. /\ disk' \in [Name -> Contents \cup {NIL}]
        /\ disk'[Target] = Content(f)
        /\ \A m \in Name \ {Target} : disk'[m] = disk[m]
        /\ cut' = cut
    BY <1>1, <1>2 DEF Finish, StoredInv, TypeOK
  <1>4. open'[f].name = open[f].name /\ open'[f].len = open[f].len /\ Content(f)' = Content(f)
    <2>1. open'[f] = [open[f] EXCEPT !.dirty = FALSE,
                                     !.registered = @ \/ writing.op = "Register"]
      BY <1>1 DEF Saved, StoredInv, TypeOK
    <2>2. open[f] \in FileDesc
      BY <1>1 DEF StoredInv, TypeOK
    <2>3. open'[f].name = open[f].name /\ open'[f].len = open[f].len
      BY <2>1, <2>2 DEF FileDesc
    <2> QED
      BY <1>1, <2>3, SavedFacts
  <1>5. Stored(f)'
    <2>1. Len(Content(f)) \in 0 .. Len(Content(f))
          /\ Content(f) = SubSeq(Content(f), 1, Len(Content(f)))
      BY <1>2, WholeFacts
    <2> QED
      BY <1>1, <1>2, <1>3, <1>4, <2>1 DEF Stored
  <1> QED
    BY <1>1, <1>3, <1>5, EndKeeps

LEMMA LoseTailKeeps ==
    ASSUME StoredInv, LoseTail
    PROVE  StoredInv'
  <1> SUFFICES ASSUME NEW f, f = writing.file PROVE StoredInv'
    OBVIOUS
  <1>1. /\ Saved /\ f \in Open /\ Target = open[f].name /\ disk' = disk
        /\ cut' = cut \cup {f} /\ writing # NIL
    BY SavedFacts DEF LoseTail, Saved, Target
  <1>2. open'[f].name = open[f].name /\ open'[f].len = open[f].len /\ Content(f)' = Content(f)
    <2>1. open'[f] = [open[f] EXCEPT !.dirty = FALSE,
                                     !.registered = @ \/ writing.op = "Register"]
      BY <1>1 DEF Saved, StoredInv, TypeOK
    <2>2. open[f] \in FileDesc
      BY <1>1 DEF StoredInv, TypeOK
    <2>3. open'[f].name = open[f].name /\ open'[f].len = open[f].len
      BY <2>1, <2>2 DEF FileDesc
    <2> QED
      BY <1>1, <2>3, SavedFacts
  <1>3. \E k \in 0 .. open[f].len : disk[Target] = SubSeq(Content(f), 1, k)
    BY <1>1 DEF StoredInv, SaveOwns
  <1>4. Stored(f)'
    BY <1>1, <1>2, <1>3 DEF Stored
  <1> QED
    BY <1>1, <1>4, EndKeeps DEF StoredInv, TypeOK

\* After a short fwrite a dirty file stays dirty.
LEMMA GiveUpKeeps ==
    ASSUME StoredInv, GiveUp
    PROVE  StoredInv'
  <1> SUFFICES ASSUME NEW f, f = writing.file PROVE StoredInv'
    OBVIOUS
  <1>1. /\ writing # NIL /\ f \in Open /\ Target = open[f].name
        /\ writing' = NIL /\ UNCHANGED <<disk, open, rider, foreign>>
        /\ cut' = IF open[f].dirty THEN cut ELSE cut \cup {f}
    BY DEF GiveUp, CutShort, Target, StoredInv, TypeOK
  <1>2. Open' = Open /\ \A g : Content(g)' = Content(g)
    BY <1>1 DEF Open, Content
  <1>3. TypeOK'
    BY <1>1, <1>2 DEF StoredInv, TypeOK
  <1>4. \E k \in 0 .. open[f].len : disk[open[f].name] = SubSeq(Content(f), 1, k)
    BY <1>1 DEF StoredInv, SaveOwns
  <1>5. Stored(f)'
    BY <1>1, <1>2, <1>4 DEF Stored
  <1>6. ASSUME NEW g \in Open' \ foreign', g # f
        PROVE  Stored(g)'
    <2>1. g \in Open \ foreign /\ ~Saving(g) /\ (g \in cut => g \in cut')
      BY <1>1, <1>2, <1>6 DEF Saving
    <2>2. Stored(g)
      BY <2>1 DEF StoredInv, CleanIsStored, Stored
    <2> QED
      BY <1>1, <2>1, <2>2, StillStored
  <1>7. CleanIsStored'
    BY <1>5, <1>6 DEF CleanIsStored, Stored
  <1> QED
    BY <1>1, <1>3, <1>7 DEF StoredInv, SaveOwns

LEMMA CrashKeeps ==
    ASSUME StoredInv, Crash
    PROVE  StoredInv'
  <1>1. TypeOK'
    BY FilesAssumption DEF Crash, StoredInv, TypeOK, Open
  <1>2. Open' = {} /\ writing' = NIL
    BY DEF Crash, Open
  <1> QED
    BY <1>1, <1>2 DEF StoredInv, CleanIsStored, SaveOwns

\* Every step.
LEMMA NextStored == StoredInv /\ [Next]_vars => StoredInv'
  <1> SUFFICES ASSUME StoredInv, [Next]_vars PROVE StoredInv'
    OBVIOUS
  <1>1. ASSUME NEW f \in File, Life(f) PROVE StoredInv'
    <2>1. CASE \E n \in Name : Old(n, f) \/ New(n, f)
      BY <2>1, OldKeeps, NewKeeps
    <2>2. CASE Drop(f) \/ Purge(f)
      BY <2>2, DropKeeps, PurgeKeeps
    <2>3. CASE Register(f) \/ Close(f)
      BY <2>3, TruncateKeeps DEF Register, Close
    <2> QED
      BY <1>1, <2>1, <2>2, <2>3 DEF Life
  <1>2. ASSUME NEW r \in Rider, Ride(r) PROVE StoredInv'
    BY <1>2, RiderKeeps, WriteByteKeeps DEF Ride
  <1>3. CASE WriteOut
    BY <1>3, FlushKeeps, FinishKeeps, GiveUpKeeps, LoseTailKeeps DEF WriteOut
  <1>4. CASE Crash
    BY <1>4, CrashKeeps
  <1>5. CASE \E n \in Name : Delete(n)
    BY <1>5, DeleteKeeps
  <1>6. CASE \E m, n \in Name : Rename(m, n)
    BY <1>6, RenameKeeps
  <1>7. CASE UNCHANGED vars
    <2>1. /\ UNCHANGED <<disk, open, rider, writing, foreign, cut>> /\ Open' = Open
          /\ Target' = Target
      BY <1>7 DEF vars, Open, Target
    <2>2. \A f : Content(f)' = Content(f) /\ Saving(f)' = Saving(f)
      BY <2>1 DEF Content, Saving
    <2>3. \A n : OfName(n)' = OfName(n)
      BY <2>1 DEF OfName
    <2>4. TypeOK'
      BY <2>1 DEF StoredInv, TypeOK
    <2>5. CleanIsStored'
      BY <2>1, <2>2 DEF StoredInv, CleanIsStored
    <2>6. SaveOwns'
      BY <2>1, <2>2, <2>3 DEF StoredInv, SaveOwns
    <2> QED
      BY <2>4, <2>5, <2>6 DEF StoredInv
  <1> QED
    BY <1>1, <1>2, <1>3, <1>4, <1>5, <1>6, <1>7 DEF Next

-----------------------------------------------------------------------------
(* The theorems. *)

\* For any names, files, riders and length, at every point of every save, error
\* and crash: the host has the buffer of a clean file that nobody else wrote
\* over, after one of the two ends of write_file that leave a file clean too
\* early its beginning only, and a changed file whose fwrite was short is dirty.
THEOREM CleanFilesStored == Spec => []CleanIsStored
  <1>1. StoredInv => CleanIsStored
    BY DEF StoredInv
  <1> QED
    BY InitStored, NextStored, <1>1, PTL DEF Spec

\* The records, buffers, riders and the host's files keep their types; in
\* particular no rider is left on a file that was given up.
THEOREM FilesTypeCorrect == Spec => []TypeOK
  <1>1. StoredInv => TypeOK
    BY DEF StoredInv
  <1> QED
    BY InitStored, NextStored, <1>1, PTL DEF Spec
=============================================================================
