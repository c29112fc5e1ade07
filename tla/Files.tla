------------------------------- MODULE Files -------------------------------
(* Files on a host file system (Files_rt.c): every open file keeps the whole *)
(* contents in a buffer of its own, riders read and write the buffer, and    *)
(* Register and Close write it over the host file.  The write takes several  *)
(* steps, each of which may be the last before the process dies.             *)
EXTENDS Integers, Sequences, FiniteSets

CONSTANTS
    Name,       \* paths on the host
    File,       \* addresses of FileDesc records
    Rider,
    Byte,       \* what a program writes
    MaxLen,     \* bound: length of a file
    NIL

ASSUME FilesAssumption ==
    /\ MaxLen \in Nat \ {0}
    /\ Byte \subseteq Nat
    /\ NIL \notin File \cup [file : File, op : {"Register", "Close"}]

VARIABLES
    disk,       \* the host's files: a sequence of bytes, or NIL
    open,       \* the FileDesc records alive, each with its buffer
    rider,
    writing,    \* the Register or Close inside write_file, or NIL
    foreign,    \* history: files whose host file somebody else changed since
    cut         \* history: files clean since a save that did not end well

vars == <<disk, open, rider, writing, foreign, cut>>

Open     == DOMAIN open
Contents == UNION { [1 .. k -> Byte \cup {0}] : k \in 0 .. MaxLen }

FileDesc == [name : Name, data : [1 .. MaxLen -> Byte \cup {0}],
             len : 0 .. MaxLen, dirty : BOOLEAN, registered : BOOLEAN]

(* The bytes of a buffer that belong to the file; those above len are left   *)
(* over, or zero as grow_buf leaves them.                                    *)
Content(f) == [i \in 1 .. open[f].len |-> open[f].data[i]]
Buffer(s)  == [i \in 1 .. MaxLen |-> IF i <= Len(s) THEN s[i] ELSE 0]

OfName(n) == { f \in Open : open[f].name = n }

Init == /\ disk \in [Name -> {NIL, << >>}]
        /\ open = << >>
        /\ rider = [r \in Rider |-> [file |-> NIL, pos |-> 0, eof |-> FALSE]]
        /\ writing = NIL
        /\ foreign = {} /\ cut = {}

--------------------------------------------------------------------------
(* The life of a file.  The program calls one procedure at a time. *)

Allocate(f, desc) ==
    /\ f \in File \ Open
    /\ open' = [g \in Open \cup {f} |-> IF g = f THEN desc ELSE open[g]]

(* Old answers NIL, and changes nothing, for a name the host does not have. *)
Old(n, f) ==
    /\ writing = NIL /\ disk[n] # NIL
    /\ Allocate(f, [name |-> n, data |-> Buffer(disk[n]), len |-> Len(disk[n]),
                    dirty |-> FALSE, registered |-> TRUE])
    /\ UNCHANGED <<disk, rider, writing, foreign, cut>>

New(n, f) ==
    /\ writing = NIL
    /\ Allocate(f, [name |-> n, data |-> Buffer(<< >>), len |-> 0,
                    dirty |-> FALSE, registered |-> FALSE])
    /\ UNCHANGED <<disk, rider, writing, foreign, cut>>

(* A file given up while a rider is on it: Set without its oc_retain. *)
DropUnderRider(f) ==
    /\ writing = NIL /\ f \in Open
    /\ open' = [g \in Open \ {f} |-> open[g]]
    /\ foreign' = foreign \ {f} /\ cut' = cut \ {f}
    /\ UNCHANGED <<disk, rider, writing>>

(* The program's last reference goes: the buffer is not written. *)
Drop(f) ==
    /\ writing = NIL /\ f \in Open
    /\ \A r \in Rider : rider[r].file # f
    /\ open' = [g \in Open \ {f} |-> open[g]]
    /\ foreign' = foreign \ {f} /\ cut' = cut \ {f}
    /\ UNCHANGED <<disk, rider, writing>>

Purge(f) ==
    /\ writing = NIL /\ f \in Open
    /\ open' = [open EXCEPT ![f].len = 0, ![f].dirty = TRUE]
    /\ cut' = cut \ {f}
    /\ UNCHANGED <<disk, rider, writing, foreign>>

(* Riders *)

Set(r, f, pos) ==
    /\ writing = NIL /\ f \in Open
    /\ rider' = [rider EXCEPT ![r] = [file |-> f, pos |-> pos, eof |-> FALSE]]
    /\ UNCHANGED <<disk, open, writing, foreign, cut>>

SetNil(r) ==
    /\ writing = NIL
    /\ rider' = [rider EXCEPT ![r] = [file |-> NIL, pos |-> 0, eof |-> FALSE]]
    /\ UNCHANGED <<disk, open, writing, foreign, cut>>

ReadByte(r) ==
    /\ writing = NIL /\ rider[r].file # NIL
    /\ rider' = IF rider[r].pos >= open[rider[r].file].len
                THEN [rider EXCEPT ![r].eof = TRUE]
                ELSE [rider EXCEPT ![r].pos = @ + 1]
    /\ UNCHANGED <<disk, open, writing, foreign, cut>>

(* A position past the end leaves a gap with whatever the buffer has there. *)
WriteByte(r, b) ==
    LET f == rider[r].file  p == rider[r].pos
    IN  /\ writing = NIL /\ f # NIL /\ p < MaxLen
        /\ open' = [open EXCEPT ![f].data[p + 1] = b, ![f].dirty = TRUE,
                                ![f].len = IF p + 1 > @ THEN p + 1 ELSE @]
        /\ rider' = [rider EXCEPT ![r].pos = p + 1]
        /\ cut' = cut \ {f}
        /\ UNCHANGED <<disk, writing, foreign>>

--------------------------------------------------------------------------
(* write_file *)

(* fopen "wb" empties the host's file, or makes one: from here on it is f's, *)
(* and foreign to the other files of the name.                               *)
Truncate(f, op) ==
    /\ disk' = [disk EXCEPT ![open[f].name] = << >>]
    /\ writing' = [file |-> f, op |-> op]
    /\ foreign' = (foreign \cup OfName(open[f].name)) \ {f}
    /\ cut' = cut \ {f}
    /\ UNCHANGED <<open, rider>>

Register(f) == writing = NIL /\ f \in Open /\ Truncate(f, "Register")

Close(f) ==
    /\ writing = NIL /\ f \in Open
    /\ open[f].registered /\ open[f].dirty
    /\ Truncate(f, "Close")

Target == open[writing.file].name

(* The host takes some more of the buffer. *)
Flush(k) ==
    /\ writing # NIL
    /\ k > Len(disk[Target]) /\ k < open[writing.file].len
    /\ disk' = [disk EXCEPT ![Target] = SubSeq(Content(writing.file), 1, k)]
    /\ UNCHANGED <<open, rider, writing, foreign, cut>>

(* write_file returned 0. *)
Saved ==
    /\ writing # NIL
    /\ open' = [open EXCEPT ![writing.file].dirty = FALSE,
                            ![writing.file].registered = @ \/ writing.op = "Register"]
    /\ writing' = NIL
    /\ UNCHANGED <<rider, foreign>>

Finish ==
    /\ Saved
    /\ disk' = [disk EXCEPT ![Target] = Content(writing.file)]
    /\ UNCHANGED cut

\* What GiveUp and its mutant share.  A Register may have been asked of a file
\* that is clean already.
CutShort ==
    /\ writing # NIL
    /\ open[writing.file].len > 0
    /\ writing' = NIL
    /\ cut' = IF open[writing.file].dirty THEN cut ELSE cut \cup {writing.file}
    /\ UNCHANGED <<disk, rider, foreign>>

\* Mutant: the buffer counts as written although write_file failed.
GiveUpCleans ==
    /\ CutShort
    /\ open' = [open EXCEPT ![writing.file].dirty = FALSE]

(* A short fwrite: write_file returns -1 and Register and Close do nothing. *)
GiveUp ==
    /\ CutShort
    /\ UNCHANGED open

(* The bytes that fwrite left in the stream's buffer are lost when fclose    *)
(* fails, and write_file returns 0 all the same.                             *)
LoseTail ==
    /\ Saved
    /\ open[writing.file].len > 0
    /\ cut' = cut \cup {writing.file}
    /\ UNCHANGED disk

(* The process dies, and another one starts. *)
Crash ==
    /\ open' = << >>
    /\ rider' = [r \in Rider |-> [file |-> NIL, pos |-> 0, eof |-> FALSE]]
    /\ writing' = NIL
    /\ foreign' = {} /\ cut' = {}
    /\ UNCHANGED disk

--------------------------------------------------------------------------
(* The directory: open files keep the name they were made with. *)

Delete(n) ==
    /\ writing = NIL /\ disk[n] # NIL
    /\ disk' = [disk EXCEPT ![n] = NIL]
    /\ foreign' = foreign \cup OfName(n)
    /\ UNCHANGED <<open, rider, writing, cut>>

Rename(old, new) ==
    /\ writing = NIL /\ disk[old] # NIL /\ old # new
    /\ disk' = [disk EXCEPT ![new] = disk[old], ![old] = NIL]
    /\ foreign' = foreign \cup OfName(old) \cup OfName(new)
    /\ UNCHANGED <<open, rider, writing, cut>>

Life(f) == \/ \E n \in Name : Old(n, f) \/ New(n, f)
           \/ Drop(f) \/ Purge(f) \/ Register(f) \/ Close(f)

Ride(r) == \/ \E f \in File, p \in 0 .. MaxLen : Set(r, f, p)
           \/ SetNil(r) \/ ReadByte(r)
           \/ \E b \in Byte : WriteByte(r, b)

WriteOut == (\E k \in 1 .. MaxLen : Flush(k)) \/ Finish \/ GiveUp \/ LoseTail

Next == \/ \E f \in File : Life(f)
        \/ \E r \in Rider : Ride(r)
        \/ WriteOut
        \/ Crash
        \/ \E n \in Name : Delete(n)
        \/ \E m, n \in Name : Rename(m, n)

Spec == Init /\ [][Next]_vars

--------------------------------------------------------------------------
(* Properties *)

TypeOK ==
    /\ disk \in [Name -> Contents \cup {NIL}]
    /\ Open \subseteq File
    /\ open \in [Open -> FileDesc]
    /\ rider \in [Rider -> [file : Open \cup {NIL}, pos : 0 .. MaxLen, eof : BOOLEAN]]
    /\ writing \in [file : Open, op : {"Register", "Close"}] \cup {NIL}
    /\ foreign \subseteq Open /\ cut \subseteq Open

Saving(f) == writing # NIL /\ writing.file = f

(* Close skips the write of a file that is registered and clean.  Unless     *)
(* somebody else changed the host's file meanwhile, the host then has the    *)
(* buffer, to the last byte; a short fwrite leaves the file dirty, so that   *)
(* the next Close writes it again.  While a save runs, and after one of the  *)
(* two that leave the file clean and its end unwritten (`cut`: fclose failed *)
(* unnoticed, or Register of a clean file met a short fwrite), the host has  *)
(* a beginning of the buffer and nothing else.                               *)
CleanIsStored ==
    \A f \in Open \ foreign :
        open[f].registered /\ ~open[f].dirty =>
            /\ \E k \in 0 .. open[f].len :
                  disk[open[f].name] = SubSeq(Content(f), 1, k)
            /\ f \in cut \/ Saving(f) \/ disk[open[f].name] = Content(f)

(* While a save runs, the host's file has a beginning of the buffer, and is  *)
(* foreign to every other file of the name.                                  *)
SaveOwns ==
    writing # NIL =>
        /\ \E k \in 0 .. open[writing.file].len :
              disk[Target] = SubSeq(Content(writing.file), 1, k)
        /\ writing.file \notin foreign
        /\ OfName(Target) \ {writing.file} \subseteq foreign

(* Inductive: a step of write_file changes the host under no other file that *)
(* relies on it, and what is there when it ends is a beginning of the buffer.*)
StoredInv == TypeOK /\ CleanIsStored /\ SaveOwns

(* What Files_rt.c says of Register and Close: they flush the buffer, so a   *)
(* file that goes from dirty to clean is on the host as it is.              *)
CleanIsFlushed ==
    [][\A f \in Open \cap DOMAIN open' :
          open[f].dirty /\ ~open'[f].dirty
             => disk'[open[f].name] = Content(f)]_vars

(* What Files.Mod says of Register: the new contents take the place of the   *)
(* old in one step.                                                          *)
RegisterReplaces ==
    [][\A n \in Name : disk'[n] \notin {disk[n], NIL} =>
          \/ \E f \in Open : open[f].name = n /\ disk'[n] = Content(f)
          \/ \E m \in Name : disk'[n] = disk[m] /\ disk'[m] = NIL]_vars
=============================================================================
