------------------------------ MODULE Modules ------------------------------
(* The run-time module loader (Modules_rt.c), on the records Modules.Mod     *)
(* declares: the list of loaded modules that hangs from Modules.root, the    *)
(* side table that says who loaded each, the reference counts of the         *)
(* descriptors, and the bodies of the modules, which run inside Load and may *)
(* call the loader again.                                                    *)
EXTENDS Integers, Sequences, FiniteSets

CONSTANTS
    Name,        \* module names, told apart by their first 31 characters
    Manifest,    \* names the manifest of the executable lists
    Dylib,       \* names dlopen can find as ./<name>.dylib
    Desc,        \* the addresses NEW may return for a ModDesc
    Var,         \* the program's variables of type Modules.Module
    NIL,
    MaxRefcnt    \* bound: Loads of one module that are not freed

ASSUME LoaderAssumption ==
    /\ Manifest \subseteq Name /\ Dylib \subseteq Name
    /\ NIL \notin Desc /\ NIL \notin Name
    /\ NIL \notin [name : Name, fresh : BOOLEAN]
    /\ IsFiniteSet(Desc) /\ IsFiniteSet(Var)
    /\ MaxRefcnt \in Nat \ {0}

VARIABLES
    desc,        \* the ModDesc records allocated and not freed
    root,        \* Modules.root
    handles,     \* the side table: which loader brought a descriptor in
    var,         \* the program's variables
    loading,     \* the Loads whose module body is running, innermost last
    inited,      \* the bodies whose <name>__inited guard is set
    answer       \* what ThisCommand last returned: the module it looked in, or NIL

vars == <<desc, root, handles, var, loading, inited, answer>>

Live == DOMAIN desc
Way  == {"manifest", "dlopen"}

ModDesc == [name : Manifest \cup Dylib, refcnt : 0 .. MaxRefcnt, next : Desc \cup {NIL}, rc : Nat]

(* The records on the next chain that starts at d. *)
Chain(h, d) ==
    { e \in DOMAIN h :
        \A S \in SUBSET DOMAIN h :
            (d \in S /\ \A x \in S : h[x].next = NIL \/ h[x].next \in S) => e \in S }

Listed == IF root = NIL THEN {} ELSE Chain(desc, root)
Named(n) == { d \in Listed : desc[d].name = n }

(* The first record of that name on the list. *)
First(n) == CHOOSE d \in Named(n) : Named(n) \subseteq Chain(desc, d)

--------------------------------------------------------------------------
(* Reference counts *)

oc_retain(h, d) == IF d = NIL THEN h ELSE [h EXCEPT ![d].rc = @ + 1]

(* A record whose last reference goes is freed and its next is released in  *)
(* turn: the records freed are those from d on, up to the first whose count *)
(* is above one, which only loses one.                                      *)
Freed(h, d) ==
    { e \in DOMAIN h :
        /\ h[d].rc <= 1
        /\ \A S \in SUBSET DOMAIN h :
             (/\ d \in S
              /\ \A x \in S : h[x].next # NIL /\ h[h[x].next].rc <= 1
                                 => h[x].next \in S) => e \in S }

oc_release(h, d) ==
    IF d = NIL THEN h
    ELSE LET gone  == Freed(h, d)
             lower == ({d} \cup { h[e].next : e \in gone }) \ (gone \cup {NIL})
         IN  [e \in DOMAIN h \ gone |->
                IF e \in lower THEN [h[e] EXCEPT !.rc = @ - 1] ELSE h[e]]

(* *p := d in the runtime: d is retained before what p held is released. *)
Assign(h, old, d) == oc_release(oc_retain(h, d), old)

--------------------------------------------------------------------------
Init ==
    /\ desc = << >>
    /\ root = NIL
    /\ handles = << >>
    /\ var = [v \in Var |-> NIL]
    /\ loading = << >>
    /\ inited = {}
    /\ answer = NIL

(* The body of a module of the executable is reached through an import, by   *)
(* the program's start-up or by the body of a module being loaded.           *)
Import(n) ==
    /\ n \in Manifest
    /\ inited' = inited \cup {<<n, "manifest">>}
    /\ UNCHANGED <<desc, root, handles, var, loading, answer>>

(* A descriptor no reference is counted for, as Modules.Mod describes it. *)
NewModDescUncounted(n) == [name |-> n, refcnt |-> 1, next |-> NIL, rc |-> 0]

(* NEW stores the record in m, RETURN m retains it for the caller, and the  *)
(* release of the local m leaves that one.                                  *)
NewModDesc(n) == [name |-> n, refcnt |-> 1, next |-> NIL, rc |-> 1]

(* A link that moves the head without retaining the old one for the field. *)
LinkMoves(h, d) == oc_retain(oc_release([h EXCEPT ![d].next = root], root), d)

(* The descriptor goes in front of the list. *)
Link(h, d) == oc_retain(oc_release(oc_retain([h EXCEPT ![d].next = root], root), root), d)

(* Load gives its caller the descriptor, or NIL, on the way out. *)
Return(h, v, d) ==
    /\ desc' = Assign(h, var[v], d)
    /\ var'  = [var EXCEPT ![v] = d]

(* Load of a module that is on the list. *)
LoadListed(n, v) ==
    /\ Named(n) # {}
    /\ desc[First(n)].refcnt < MaxRefcnt
    /\ Return([desc EXCEPT ![First(n)].refcnt = @ + 1], v, First(n))
    /\ UNCHANGED <<root, handles, loading, inited, answer>>

(* How a Load of n goes: through the manifest if n is there, otherwise, or   *)
(* when no descriptor could be allocated, through dlopen.                    *)
Finds(n, w) == IF w = "manifest" THEN n \in Manifest
                                 ELSE n \in Dylib /\ n \notin Manifest

(* A new descriptor, on the list and in the table before the body runs. *)
Attach(n, w, d) ==
    /\ Named(n) = {} /\ Finds(n, w)
    /\ d \in Desc \ Live
    /\ root' = d
    /\ handles' = [e \in DOMAIN handles \cup {d} |-> IF e = d THEN w ELSE handles[e]]
    /\ inited' = inited \cup {<<n, w>>}
    /\ UNCHANGED answer

Allocate(n, d) == [e \in Live \cup {d} |-> IF e = d THEN NewModDesc(n) ELSE desc[e]]

(* The body has run before: the call of <name>__init returns at once. *)
LoadAgain(n, v, w, d) ==
    /\ <<n, w>> \in inited
    /\ Attach(n, w, d)
    /\ Return(Link(Allocate(n, d), d), v, d)
    /\ UNCHANGED loading

(* The body runs, and what the program does until LoadReturns is the body. *)
LoadStarts(n, v, w, d) ==
    /\ <<n, w>> \notin inited
    /\ Attach(n, w, d)
    /\ desc' = Link(Allocate(n, d), d)
    /\ loading' = Append(loading, [var |-> v, result |-> d])
    /\ UNCHANGED var

LoadReturns ==
    /\ loading # << >>
    /\ LET top == loading[Len(loading)]
       IN  Return(desc, top.var, top.result)
    /\ loading' = SubSeq(loading, 1, Len(loading) - 1)
    /\ UNCHANGED <<root, handles, inited, answer>>

(* No such module, or no memory for a descriptor. *)
LoadFails(n, v) ==
    /\ Named(n) = {}
    /\ n \in Manifest \cup Dylib => Live = Desc
    /\ Return(desc, v, NIL)
    /\ UNCHANGED <<root, handles, loading, inited, answer>>

(* An unlinking that does not forget the entry of the side table. *)
UnlinkRemembers(m) ==
    LET next == desc[m].next
        prev == { e \in Listed : desc[e].next = m }
    IN  /\ desc' = oc_release(oc_retain(
                     [e \in Live |-> IF e \in prev THEN [desc[e] EXCEPT !.next = next]
                                     ELSE IF e = m THEN [desc[e] EXCEPT !.refcnt = @ - 1]
                                     ELSE desc[e]], next), m)
        /\ root' = IF root = m THEN next ELSE root
        /\ UNCHANGED handles

(* The last Free of a module takes its descriptor off the list. *)
Unlink(m) ==
    LET next == desc[m].next
        prev == { e \in Listed : desc[e].next = m }
    IN  /\ desc' = oc_release(oc_retain(
                     [e \in Live |-> IF e \in prev THEN [desc[e] EXCEPT !.next = next]
                                     ELSE IF e = m THEN [desc[e] EXCEPT !.refcnt = @ - 1]
                                     ELSE desc[e]], next), m)
        /\ root' = IF root = m THEN next ELSE root
        /\ handles' = [e \in DOMAIN handles \ {m} |-> handles[e]]

(* A Free that lets the count reach zero with the module still listed. *)
FreeKeepsZero(n) ==
    /\ Named(n) # {}
    /\ LET m == First(n)
       IN  IF desc[m].refcnt - 1 < 0
           THEN Unlink(m)
           ELSE /\ desc' = [desc EXCEPT ![m].refcnt = @ - 1]
                /\ UNCHANGED <<root, handles>>
    /\ UNCHANGED <<var, loading, inited, answer>>

Free(n) ==
    /\ Named(n) # {}
    /\ LET m == First(n)
       IN  IF desc[m].refcnt - 1 <= 0
           THEN Unlink(m)
           ELSE /\ desc' = [desc EXCEPT ![m].refcnt = @ - 1]
                /\ UNCHANGED <<root, handles>>
    /\ UNCHANGED <<var, loading, inited, answer>>

(* The command comes from the table's entry for the descriptor. *)
ThisCommand(v) ==
    /\ answer' = IF var[v] \in DOMAIN handles THEN desc[var[v]].name ELSE NIL
    /\ UNCHANGED <<desc, root, handles, var, loading, inited>>

(* A program copies a variable, reads the list, or drops a module. *)
Point(v, d) ==
    /\ d \in {NIL, root} \cup { var[w] : w \in Var }
               \cup { desc[var[w]].next : w \in { w \in Var : var[w] # NIL } }
    /\ Return(desc, v, d)
    /\ UNCHANGED <<root, handles, loading, inited, answer>>

Load(n, v) ==
    \/ LoadListed(n, v)
    \/ \E w \in Way, d \in Desc : LoadAgain(n, v, w, d) \/ LoadStarts(n, v, w, d)
    \/ LoadFails(n, v)

Next ==
    \/ \E n \in Name, v \in Var : Load(n, v)
    \/ LoadReturns
    \/ \E n \in Name : Free(n) \/ Import(n)
    \/ \E v \in Var : ThisCommand(v) \/ \E d \in Desc \cup {NIL} : Point(v, d)

Spec == Init /\ [][Next]_vars

--------------------------------------------------------------------------
(* Properties *)

TypeOK ==
    /\ Live \subseteq Desc
    /\ desc \in [Live -> ModDesc]
    /\ \A d \in Live : desc[d].next \in Live \cup {NIL}
    /\ root \in Live \cup {NIL}
    /\ DOMAIN handles \subseteq Live /\ handles \in [DOMAIN handles -> Way]
    /\ var \in [Var -> Live \cup {NIL}]
    /\ loading \in Seq([var : Var, result : Live])
    /\ inited \subseteq Name \X Way
    /\ answer \in Name \cup {NIL}

(* The side table has exactly the descriptors on the list, and no two of    *)
(* these have a name in common, whatever the bodies that run inside Load do *)
(* to the list: a table entry left behind would answer for whatever module  *)
(* later gets the same address.                                             *)
TableIsList ==
    /\ DOMAIN handles = Listed
    /\ \A d, e \in Listed : desc[d].name = desc[e].name => d = e

(* Who holds a reference to d: the list head, the program's variables, and  *)
(* the next field of other descriptors, listed or not.                      *)
Owners(d) ==
    (IF root = d THEN 1 ELSE 0)
      + Cardinality({ v \in Var : var[v] = d })
      + Cardinality({ e \in Live : desc[e].next = d })

(* Every step of Load and Free that moves the list head, a link, a variable  *)
(* or the side table leaves each count exactly one above the references     *)
(* there are: the one that NewModDesc hands over and nobody gives back.      *)
CountsHold == \A d \in Live : desc[d].rc = Owners(d) + 1

(* The list does not come back on itself, and what is on it is in use. *)
ListOK ==
    /\ \A d \in Live : desc[d].next # NIL => d \notin Chain(desc, desc[d].next)
    /\ \A d \in Listed : desc[d].refcnt > 0

(* Inductive: the list's shape says that one link leads to each module on   *)
(* it, and the counts that no release inside the loader frees anything.      *)
LoaderInv == TypeOK /\ TableIsList /\ CountsHold /\ ListOK

(* What Modules.Mod says of NewModDesc: it leaves the count at zero, for the *)
(* runtime to take the first reference.                                     *)
RuntimeTakesFirst == \A d \in Live : desc[d].rc = Owners(d)

(* What a program sees: the use count of each name, and through a variable   *)
(* a handle that is fresh as long as its descriptor is on the list.          *)
Uses == [n \in Name |-> IF Named(n) = {} THEN 0 ELSE desc[First(n)].refcnt]
HandleOn(d) == IF d = NIL THEN NIL ELSE [name |-> desc[d].name, fresh |-> d \in Listed]
Handles == [v \in Var |-> HandleOn(var[v])]

(* The loader keeps the promise of ModuleUse. *)
Use == INSTANCE ModuleUse WITH
         Loadable <- Manifest \cup Dylib,
         uses <- Uses, held <- Handles
KeepsUse == Use!Spec
=============================================================================
