------------------------------ MODULE SymFile ------------------------------
(* Symbol files (ORB.c): compiling a module writes the types of what it      *)
(* exports to a file, and compiling an importer builds them again, in a new  *)
(* process, from the files of the modules it imports.  A type is a graph,    *)
(* often cyclic and often reached through several files.  The numbers and    *)
(* strings of a type (sizes, lengths, slots) travel unchanged and are one    *)
(* value, attr, that names the declaration they come from.                   *)
EXTENDS Integers, Sequences, FiniteSets, SequencesExt

CONSTANTS
    Module,
    Sources,    \* the programs: for every module its imports and declarations
    NONE

VARIABLES
    source,     \* the program being compiled
    disk,       \* module -> its symbol file, or NONE
    unit,       \* the module in the compiler, or NONE
    phase,      \* what the compiler does with it, or did with the last one
    todo,       \* its imports still to be read
    mods,       \* the imported modules in the scope, explicit and re-exported
    own,        \* the objects it declares
    heap        \* the type objects of this run of the compiler

compiler == <<unit, phase, todo, mods, own, heap>>
vars     == <<source, disk, compiler>>

(* Types made when the compiler starts.  INTEGER stands for those written    *)
(* as a fixed reference; LONGINT shares its form and is written in full.     *)
INTEGER == 1
NOTYP   == 2
LONGINT == 3

Basic(name) == [form |-> name, attr |-> << "", name >>, parts |-> << >>,
                mno |-> 0, obj |-> name]
Universe == << Basic("INTEGER"), Basic("NOTYP"), Basic("LONGINT") >>
FixedRef == (INTEGER :> 1) @@ (NOTYP :> 2)
FirstRef == 3

Some(s, P(_))  == \E i \in DOMAIN s : P(s[i])
First(s, P(_)) == CHOOSE i \in DOMAIN s :
                      P(s[i]) /\ \A j \in 1 .. i - 1 : ~P(s[j])

--------------------------------------------------------------------------
(* Writing.  w: what is written, the reference given to each type, the next  *)
(* reference, for each type being written the reference next when it was     *)
(* begun, and whether the writer came back to one with nothing changed.      *)

Put(w, token) == [w EXCEPT !.out = Append(@, token)]

(* A mutant: only imported types have references. *)
RefForImported(w, t) == IF heap[t].mno > 0 /\ heap[t].obj # "" THEN w.next ELSE 0

(* A type with a name gets a reference; an anonymous one is written in full  *)
(* wherever it occurs. *)
RefFor(w, t) == IF heap[t].obj # "" THEN w.next ELSE 0

(* A mutant: every field is written with its name. *)
FieldNameShown(p) == p.name

(* What a record shows of a field: its name, or that there is one. *)
FieldName(p) == IF p.cls = "Fld" /\ ~p.expo THEN "" ELSE p.name

(* The module and the name under which a reader finds an imported type. *)
Home(t) == IF heap[t].mno > 0 /\ heap[t].obj # ""
           THEN [mod |-> mods[heap[t].mno].org, name |-> heap[t].obj]
           ELSE [mod |-> "", name |-> ""]

RECURSIVE OutType(_, _)
OutType(w, t) ==
    IF w.ref[t] > 0 THEN Put(w, [ref |-> -w.ref[t]])
    ELSE IF w.endless \/ (t \in DOMAIN w.open /\ w.open[t] = w.next)
    THEN [w EXCEPT !.endless = TRUE]
    ELSE LET ref == RefFor(w, t)
             start == [Put(w, [ref |-> ref, form |-> heap[t].form,
                               attr |-> heap[t].attr, n |-> Len(heap[t].parts)])
                       EXCEPT !.ref[t] = ref, !.open = (t :> w.next) @@ @,
                              !.next = @ + (IF ref > 0 THEN 1 ELSE 0)]
             OutPart(v, p) ==
                 OutType(Put(v, [cls |-> p.cls, expo |-> p.expo,
                                 name |-> FieldName(p)]), p.type)
         IN [Put(FoldLeft(OutPart, start, heap[t].parts), Home(t))
             EXCEPT !.open = w.open]

(* The pointer types written before the record they point to. *)
PointersTo(w, i) ==
    IF own[i].cls = "Typ" /\ heap[own[i].type].form = "Record"
    THEN LET P(o) == /\ heap[o.type].form = "Pointer"
                     /\ heap[o.type].parts[1].type = own[i].type
                     /\ w.ref[o.type] > 0
             before == SelectSeq(SubSeq(own, 1, i - 1), P)
         IN [k \in DOMAIN before |-> w.ref[before[k].type]]
    ELSE << >>

OutObject(w, i) ==
    LET v == OutType(Put(w, [cls |-> own[i].cls, name |-> own[i].name]), own[i].type)
    IN IF own[i].expo THEN Put(v, PointersTo(v, i)) ELSE w

Written ==
    FoldLeft(OutObject,
             [out |-> << >>, next |-> FirstRef, open |-> << >>, endless |-> FALSE,
              ref |-> FixedRef @@ [t \in DOMAIN heap |-> 0]],
             [i \in DOMAIN own |-> i])

--------------------------------------------------------------------------
(* Reading.  r: the file and the place in it, the types read by reference,   *)
(* the type objects, the imported modules, the last type read.               *)

Token(r) == r.file[r.pos]
Skip(r)  == [r EXCEPT !.pos = @ + 1]

(* The entry of a module, made if there is none.  An explicit import finds   *)
(* its entry taken when it comes twice or after a module that re-exports it; *)
(* an entry under another module's alias is refused too.                     *)
ThisModule(r, name, org, decl) ==
    LET byOrg(m)  == m.org = org
        byName(m) == m.name = name
    IN IF Some(r.mods, byOrg)
       THEN [r EXCEPT !.at = First(r.mods, byOrg), !.error = @ \/ decl]
       ELSE IF Some(r.mods, byName)
       THEN [r EXCEPT !.at = First(r.mods, byName), !.error = TRUE]
       ELSE [r EXCEPT !.at = Len(r.mods) + 1,
                      !.mods = Append(@, [name |-> name, org |-> org,
                                          rdo |-> decl, dsc |-> << >>])]

(* A mutant: a type that was read is always a new one. *)
InHomeNew(r, ref, t, home) ==
    LET s == ThisModule(r, home.mod, home.mod, FALSE)
    IN [s EXCEPT !.res = t,
                 !.mods[s.at].dsc = << [name |-> home.name, cls |-> "Typ",
                                        type |-> t] >> \o @,
                 !.heap[t].mno = s.at,
                 !.heap[t].obj = home.name]

(* A type that has a home is, in the end, the one object of that name there: *)
(* the copy just read counts only if there is none yet.                      *)
InHome(r, ref, t, home) ==
    LET s == ThisModule(r, home.mod, home.mod, FALSE)
        same(o) == o.name = home.name
        dsc   == s.mods[s.at].dsc
        found == dsc[First(dsc, same)].type
    IN IF Some(dsc, same)
       THEN [s EXCEPT !.res = found, !.tab = (ref :> found) @@ @]
       ELSE [s EXCEPT !.res = t,
                      !.mods[s.at].dsc = << [name |-> home.name, cls |-> "Typ",
                                             type |-> t] >> \o @,
                      !.heap[t].mno = s.at,
                      !.heap[t].obj = home.name]

RECURSIVE InType(_, _)

(* The next component of type t: its class, its name and its type. *)
InPart(s, t, lev) ==
    LET part == Token(s)
        v    == InType(Skip(s), lev)
    IN [v EXCEPT !.heap[t].parts =
            Append(@, [cls |-> part.cls, name |-> part.name,
                       expo |-> IF part.cls = "Fld" THEN part.name # ""
                                                    ELSE part.expo,
                       type |-> v.res])]

(* A basic type written in full is the compiler's own object for it. *)
Unified(t, form) == IF form = "LONGINT" THEN LONGINT ELSE t

InType(r, lev) ==
    LET x == Token(r)
        t == Len(r.heap) + 1
        start == [Skip(r) EXCEPT
                    !.heap = Append(@, [form |-> x.form, attr |-> x.attr,
                                        parts |-> << >>, mno |-> lev, obj |-> ""]),
                    !.tab = (x.ref :> t) @@ @]
        whole == FoldLeft(LAMBDA s, i : InPart(s, t, lev), start, [i \in 1 .. x.n |-> i])
        basic == Unified(t, x.form)
        end   == [Skip(whole) EXCEPT !.res = basic, !.tab = (x.ref :> basic) @@ @]
    IN IF x.ref < 0 THEN [Skip(r) EXCEPT !.res = r.tab[-x.ref]]
       ELSE IF Token(whole).mod = "" THEN end
       ELSE InHome(end, x.ref, basic, Token(whole))

(* The exported objects.  The object of a type becomes the one the type is   *)
(* named by, and pointers declared before a record are pointed to it.        *)
RECURSIVE InObjects(_, _)
InObjects(r, lev) ==
    IF r.pos > Len(r.file) THEN r
    ELSE LET x   == Token(r)
             s   == InType(Skip(r), lev)
             fix == { s.tab[Token(s)[k]] : k \in DOMAIN Token(s) }
             Fixed(t, old) ==
                 IF x.cls # "Typ" THEN old
                 ELSE IF t \in fix THEN [old EXCEPT !.parts[1].type = s.res]
                 ELSE IF t = s.res THEN [old EXCEPT !.obj = x.name]
                 ELSE old
         IN InObjects([Skip(s) EXCEPT
                          !.heap = [t \in DOMAIN @ |-> Fixed(t, @[t])],
                          !.mods[lev].dsc = << [name |-> x.name, cls |-> x.cls,
                                                type |-> s.res] >> \o @],
                      lev)

--------------------------------------------------------------------------
(* Compiling one module. *)

Start(m) ==
    /\ unit = NONE /\ disk[m] = NONE /\ phase # "stuck"
    /\ unit' = m /\ phase' = "import"
    /\ todo' = source[m].imports
    /\ UNCHANGED <<source, disk, mods, own, heap>>

(* The process ends: with errors, nothing has been written. *)
Quit(p) == /\ unit' = NONE /\ phase' = p
           /\ todo' = << >> /\ mods' = << >> /\ own' = << >> /\ heap' = Universe
           /\ UNCHANGED source

Fail == Quit("failed") /\ UNCHANGED disk

Import ==
    /\ phase = "import" /\ todo # << >>
    /\ LET i  == Head(todo)
           r0 == [file |-> disk[i.org], pos |-> 1, at |-> 0, res |-> NOTYP,
                  tab |-> [ref \in {FixedRef[t] : t \in DOMAIN FixedRef} |->
                              CHOOSE t \in DOMAIN FixedRef : FixedRef[t] = ref],
                  heap |-> heap, mods |-> mods, error |-> FALSE]
           r1 == ThisModule(r0, i.name, i.org, TRUE)
           r  == InObjects(r1, r1.at)
       IN IF disk[i.org] = NONE \/ r1.error \/ r.error THEN Fail
          ELSE /\ mods' = r.mods /\ heap' = r.heap
               /\ todo' = Tail(todo)
               /\ UNCHANGED <<source, disk, unit, phase, own>>

(* A qualified name: an object of an explicitly imported module, or nothing. *)
thisimport(q, n) ==
    LET mod(m) == m.name = q /\ m.rdo
        obj(o) == o.name = n
    IN IF Some(mods, mod) /\ Some(mods[First(mods, mod)].dsc, obj)
       THEN LET dsc == mods[First(mods, mod)].dsc IN dsc[First(dsc, obj)].type
       ELSE 0

(* The module's declarations.  One without a form of its own gives a type    *)
(* another name, or is a variable of a type that has one.                    *)
Decls    == source[unit].decls
Fresh    == { i \in DOMAIN Decls : Decls[i].form # "same" }
NewType(i) == Len(heap) + Cardinality(Fresh \cap 1 .. i)
Named(n) == First(Decls, LAMBDA d : d.cls = "Typ" /\ d.name = n)

qualident(to) ==
    LET type[q \in STRING \X STRING] ==
            IF q[1] # "" THEN thisimport(q[1], q[2])
            ELSE IF \E t \in DOMAIN Universe : Universe[t].form = q[2]
            THEN CHOOSE t \in DOMAIN Universe : Universe[t].form = q[2]
            ELSE IF Named(q[2]) \in Fresh THEN NewType(Named(q[2]))
            ELSE type[Decls[Named(q[2])].to]
    IN type[to]

Own  == [i \in DOMAIN Decls |->
           [name |-> Decls[i].name, cls |-> Decls[i].cls, expo |-> Decls[i].expo,
            type |-> IF i \in Fresh THEN NewType(i) ELSE qualident(Decls[i].to)]]
Made == [k \in 1 .. Cardinality(Fresh) |->
           LET i == CHOOSE j \in Fresh : NewType(j) = Len(heap) + k IN
           [form |-> Decls[i].form, attr |-> << unit, Decls[i].name >>,
            mno |-> 0, obj |-> Decls[i].name,
            parts |-> [p \in DOMAIN Decls[i].parts |->
                         [cls |-> Decls[i].parts[p].cls, name |-> Decls[i].parts[p].name,
                          expo |-> Decls[i].parts[p].expo,
                          type |-> qualident(Decls[i].parts[p].to)]]]]

(* A mutant: every declaration names its type, an imported one too. *)
AllNamed ==
    LET types == { i \in DOMAIN Own : Own[i].cls = "Typ" }
        all   == heap \o Made
    IN [t \in DOMAIN all |->
          IF \E i \in types : Own[i].type = t
          THEN [all[t] EXCEPT !.obj = Own[CHOOSE i \in types : Own[i].type = t].name]
          ELSE all[t]]

(* A type that has a name keeps it when it is given a second one. *)
Declared == heap \o Made

Declare ==
    /\ phase = "import" /\ todo = << >>
    /\ IF \/ \E i \in DOMAIN Own : Own[i].type = 0
          \/ \E k \in DOMAIN Made : \E p \in DOMAIN Made[k].parts : Made[k].parts[p].type = 0
       THEN Fail
       ELSE /\ own' = Own /\ heap' = Declared
            /\ phase' = "export"
            /\ UNCHANGED <<source, disk, unit, todo, mods>>

Export ==
    /\ phase = "export"
    /\ IF Written.endless
       THEN phase' = "stuck" /\ UNCHANGED <<source, disk, unit, todo, mods, own, heap>>
       ELSE Quit("done") /\ disk' = [disk EXCEPT ![unit] = Written.out]

Init == /\ source \in Sources
        /\ disk = [m \in Module |-> NONE]
        /\ unit = NONE /\ phase = "done" /\ todo = << >>
        /\ mods = << >> /\ own = << >> /\ heap = Universe

Next == Import \/ Declare \/ Export \/ \E m \in Module : Start(m)

Spec == Init /\ [][Next]_vars
--------------------------------------------------------------------------
(* The type objects that can be reached from the imported modules. *)
Known ==
    LET after(S) == S \cup UNION { { heap[t].parts[p].type : p \in DOMAIN heap[t].parts } : t \in S }
        reach[n \in Nat] ==
            IF n = 0 THEN UNION { { mods[m].dsc[i].type : i \in DOMAIN mods[m].dsc }
                                  : m \in DOMAIN mods }
            ELSE after(reach[n - 1])
    IN reach[Len(heap)]

(* The declaration of a type, and the one a name in a declaration stands for,*)
(* through the declarations that only give a type another name. *)
DeclOf(a) == source[a[1]].decls[First(source[a[1]].decls, LAMBDA d : d.name = a[2])]
RECURSIVE Origin(_, _)
Origin(m, to) ==
    IF to[1] = "" /\ \E t \in DOMAIN Universe : Universe[t].form = to[2] THEN to
    ELSE LET a == IF to[1] = "" THEN << m, to[2] >>
                  ELSE << source[m].imports[First(source[m].imports,
                              LAMBDA i : i.name = to[1])].org, to[2] >>
         IN IF DeclOf(a).form = "same" THEN Origin(a[1], DeclOf(a).to) ELSE a

(* The types to which an exported declaration gives another name.  Reading   *)
(* it renames the object of the type (Import sets typobj), and a later       *)
(* re-export writes a name under which the home module declares nothing.     *)
Renamed == UNION { { Origin(m, d.to) : d \in { e \in Range(source[m].decls) :
                                e.cls = "Typ" /\ e.form = "same" /\ e.expo } }
                   : m \in Module }

(* Two ways to one declaration end at one type object, as the pointer        *)
(* comparisons of CompTypes need: whichever files a type came through, in    *)
(* whatever order they were imported, and however its graph is cyclic.  Only *)
(* a type that an exported declaration renames may be there twice.           *)
OneType ==
    \A t, u \in Known :
        /\ heap[t].obj # "" /\ heap[u].obj # ""
        /\ heap[t].attr = heap[u].attr /\ heap[t].attr \notin Renamed
        => t = u

(* An imported type is its declaration: the same form, every component in    *)
(* its place, hidden ones without their name, and of the type declared for   *)
(* it, so that both sides lay out the record alike (OutType, InType).        *)
SameLayout ==
    \A t \in Known : heap[t].attr[1] # "" =>
        LET d     == DeclOf(heap[t].attr)
            parts == heap[t].parts
        IN /\ heap[t].form = d.form
           /\ Len(parts) = Len(d.parts)
           /\ \A i \in DOMAIN parts :
                /\ parts[i].cls = d.parts[i].cls
                /\ parts[i].expo = d.parts[i].expo
                /\ parts[i].name = (IF d.parts[i].expo THEN d.parts[i].name ELSE "")
                /\ heap[parts[i].type].attr = Origin(heap[t].attr[1], d.parts[i].to)

(* An imported type goes by the name its own module declares, never by an    *)
(* importer's name for the module or for the type, unless an exported        *)
(* declaration renames it: its descriptor is the symbol Module__Name__td.    *)
HomeName ==
    \A t \in Known :
        heap[t].mno > 0 /\ heap[t].obj # "" /\ heap[t].attr \notin Renamed =>
        << mods[heap[t].mno].org, heap[t].obj >> = heap[t].attr

(* Of one declaration there is one type object, renamed or not: what the     *)
(* comment of record_td (ORG.c) takes for granted, and an exported second    *)
(* name for a type refutes. *)
OneTypeEver ==
    \A t, u \in Known :
        heap[t].obj # "" /\ heap[u].obj # "" /\ heap[t].attr = heap[u].attr => t = u

(* Writing the symbol file comes to an end (OutType calls itself). *)
Returns == phase # "stuck"
=============================================================================
