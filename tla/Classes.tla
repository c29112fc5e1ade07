------------------------------ MODULE Classes -------------------------------
(* Type-bound procedures, initialisers and interfaces: a program is compiled *)
(* unit by unit and declaration by declaration in a single pass (ORP.c and   *)
(* the lookups of ORB.c), and the tables that calls go through at run time   *)
(* are emitted on the way (ORG.c): an interface table when a pointer is      *)
(* first converted, a type descriptor at the end of the unit.  A declaration *)
(* that the compiler marks ends the program: it is not a step.               *)
EXTENDS Integers, Sequences, FiniteSets

CONSTANTS
    Name,       \* names of methods
    InitName,   \* names of initialisers
    Private,    \* those that may be declared without an export mark
    Member,     \* those that interfaces ask for
    Sig,        \* signatures: the receiver's mode, and the parameters and result
    TD_LEVELS,  \* ancestors a descriptor has room for
    InOrder,    \* members are declared before they are used, base types first
    MaxUnit, MaxType, MaxDecl, MaxUse   \* bounds

ASSUME ClassesAssumption ==
    /\ Private \cup Member \subseteq Name \cup InitName
    /\ \A s \in Sig : s.rcv \in {"pointer", "VAR"}
    /\ InOrder \in BOOLEAN
    /\ TD_LEVELS \in Nat \ {0}

VARIABLES
    unit,       \* the unit being compiled; those before it are imported
    part,       \* the part of its text
    recs,       \* the record types declared so far
    intfs,      \* the interfaces
    meths,      \* the type-bound procedures of all of them
    td,         \* record -> its descriptor, once its unit is finished
    itab,       \* (unit, record, interface) -> the interface table emitted
    news,       \* records allocated by NEW
    made        \* (record, initialiser) of the constructor calls

vars == <<unit, part, recs, intfs, meths, td, itab, news, made>>

--------------------------------------------------------------------------
(* Lookups.  Types and procedures are numbered as they are declared, and 0   *)
(* is none: an extension has a greater number than its bases.                *)

(* The record and its bases. *)
Chain(r) == IF r = 0 THEN {} ELSE {r} \cup recs[r].bases

Methods(rs) == { id \in DOMAIN meths : meths[id].rec \in rs }

(* The lists of the records are searched from the extension to its bases,    *)
(* each in the order of its declarations. *)
Before(i, j) == \/ meths[i].rec > meths[j].rec
                \/ meths[i].rec = meths[j].rec /\ i < j

Found(hits) == IF hits = {} THEN 0 ELSE CHOOSE id \in hits : TRUE

Nearest(ids) == Found({ i \in ids : \A j \in ids \ {i} : Before(i, j) })

(* What the unit may see: its own, and what other units export. *)
Visible(id) == meths[id].expo \/ recs[meths[id].rec].mod = unit

ORB_FindMeth(r, n) ==
    Nearest({ id \in Methods(Chain(r)) : ~meths[id].initf /\ meths[id].name = n })

(* What a method named n of r overrides: it may be an initialiser, for only  *)
(* calls and conformance pass those by. *)
Inherited(r, n) ==
    Nearest({ id \in Methods(recs[r].bases) : meths[id].name = n /\ Visible(id) })

DeclaresInit(r) == \E id \in Methods({r}) : meths[id].initf
Declaring(r)    == { k \in Chain(r) : DeclaresInit(k) }

(* The initialisers of the nearest record that declares any: they claim the  *)
(* construction of r, the private ones too. *)
Governing(r) ==
    { id \in Methods(Declaring(r)) :
        meths[id].initf /\ \A k \in Declaring(r) : k <= meths[id].rec }

thisinit(r, n) == Found({ id \in Governing(r) : meths[id].name = n /\ Visible(id) })

(* A mutant: only the base type itself is asked. *)
HasVisibleInitsOfBase(r) ==
    \E id \in Methods({r}) : meths[id].initf /\ Visible(id)

ORB_HasVisibleInits(r) == \E id \in Governing(r) : Visible(id)

(* A mutant: only the type itself is asked. *)
HasInitsItself(r) == DeclaresInit(r)

ORB_HasInits(r) == Declaring(r) # {}

ORB_TotalMeths(r) ==
    LET n == { recs[k].nofmeth : k \in Chain(r) }
    IN CHOOSE max \in n : \A k \in n : k <= max

(* Of the interfaces in its list, or of those they include. *)
ORB_Conforms(r, i) ==
    \E k \in Chain(r) : \E j \in recs[k].impl : i \in intfs[j].incl

(* An override has the signature and the receiver mode of what it overrides; *)
(* of an interface only the rest counts: its receivers are all alike. *)
MethodSigMatch(s, t)  == s.rcv = t.rcv /\ s.par = t.par
IfaceSigMatch(s, t)   == s.par = t.par
EqualSignatures(s, t) == s.par = t.par

--------------------------------------------------------------------------
(* Declarations of types. *)

RecordType(base, impl) ==
    /\ part = "types" /\ Len(recs) + Len(intfs) < MaxType
    /\ recs' = Append(recs,
                  [mod |-> unit, base |-> base, bases |-> Chain(base), impl |-> impl,
                   level |-> IF base = 0 THEN 0 ELSE recs[base].level + 1,
                   nofmeth |-> 0, mfixed |-> FALSE])
    /\ UNCHANGED <<unit, part, intfs, meths, td, itab, news, made>>

(* The items of an interface are read one by one; an interface includes      *)
(* itself, the interfaces it names and what those include. *)
InterfaceType ==
    /\ part = "types" /\ Len(recs) + Len(intfs) < MaxType
    /\ part' = "interface"
    /\ intfs' = Append(intfs, [meth |-> {}, nofmeth |-> 0, incl |-> {Len(intfs) + 1}])
    /\ UNCHANGED <<unit, recs, meths, td, itab, news, made>>

This == Len(intfs)

(* A mutant: an included member keeps its index. *)
IncludeAsIs(slot, fresh, m) == m

(* A member that is new gets the next index. *)
Include(slot, fresh, m) ==
    [m EXCEPT !.val = slot + Cardinality({ q \in fresh : q.val < m.val })]

(* The name of an interface includes its members, of which those there       *)
(* already must agree. *)
IncludeInterface(j) ==
    LET this  == intfs[This]
        fresh == { m \in intfs[j].meth : \A q \in this.meth : q.name # m.name }
    IN /\ part = "interface" /\ j # This
       /\ \A m \in intfs[j].meth, q \in this.meth :
             q.name = m.name => EqualSignatures(q.sig, m.sig)
       /\ intfs' = [intfs EXCEPT ![This] =
              [meth    |-> this.meth
                             \cup { Include(this.nofmeth, fresh, m) : m \in fresh },
               nofmeth |-> this.nofmeth + Cardinality(fresh),
               incl    |-> this.incl \cup intfs[j].incl]]
       /\ UNCHANGED <<unit, part, recs, meths, td, itab, news, made>>

(* A procedure is a member. *)
Require(n, sig) ==
    LET this == intfs[This] IN
    /\ part = "interface"
    /\ \A q \in this.meth : q.name # n
    /\ intfs' = [intfs EXCEPT ![This] =
           [this EXCEPT !.meth    = @ \cup {[name |-> n, sig |-> sig, val |-> this.nofmeth]},
                        !.nofmeth = @ + 1]]
    /\ UNCHANGED <<unit, part, recs, meths, td, itab, news, made>>

EndInterface == /\ part = "interface"
                /\ part' = "types"
                /\ UNCHANGED <<unit, recs, intfs, meths, td, itab, news, made>>

Procedures == /\ part = "types"
              /\ part' = "procedures"
              /\ UNCHANGED <<unit, recs, intfs, meths, td, itab, news, made>>

--------------------------------------------------------------------------
(* Declarations of type-bound procedures. *)

(* A receiver's type is one of the unit. *)
Receivers ==
    { r \in DOMAIN recs :
        /\ part = "procedures" /\ recs[r].mod = unit
        /\ Len(recs) + Len(intfs) + Len(meths) < MaxDecl }

(* Its members have one name each. *)
Heading(r, n, expo) ==
    /\ r \in Receivers
    /\ \A id \in Methods({r}) : meths[id].name # n
    /\ expo \/ n \in Private

(* A mutant: nothing keeps the base types' slots from growing. *)
TakesAnySlot(r) == TRUE

(* Once an extension has taken a slot the numbering of its bases is fixed. *)
TakesSlot(r) == ~recs[r].mfixed

(* An override has the slot of what it overrides: that of an initialiser is  *)
(* none, -1. *)
Override(r, n, expo, sig) ==
    LET bm == Inherited(r, n) IN
    /\ Heading(r, n, expo)
    /\ bm # 0 /\ MethodSigMatch(sig, meths[bm].sig)
    /\ meths' = Append(meths, [rec |-> r, name |-> n, expo |-> expo, initf |-> FALSE,
                               slot |-> meths[bm].slot, sig |-> sig, over |-> bm])
    /\ UNCHANGED <<unit, part, recs, intfs, td, itab, news, made>>

(* A new method takes the next slot. *)
NewMethod(r, n, expo, sig) ==
    LET slot == ORB_TotalMeths(r) IN
    /\ Heading(r, n, expo)
    /\ Inherited(r, n) = 0 /\ TakesSlot(r)
    /\ meths' = Append(meths, [rec |-> r, name |-> n, expo |-> expo, initf |-> FALSE,
                               slot |-> slot, sig |-> sig, over |-> 0])
    /\ recs' = [k \in DOMAIN recs |->
                  [recs[k] EXCEPT !.nofmeth = IF k = r THEN slot + 1 ELSE @,
                                  !.mfixed  = @ \/ k \in recs[r].bases]]
    /\ UNCHANGED <<unit, part, intfs, td, itab, news, made>>

BindMethod(r, n, expo, override, sig) ==
    IF override THEN Override(r, n, expo, sig) ELSE NewMethod(r, n, expo, sig)

(* An initialiser has no slot and its receiver is a pointer.  Its text has a *)
(* call of one of the base type's, over, if one can be seen: SuperInitCalled *)
(* is set when the call is read, under whatever condition it stands. *)
BindInit(r, n, expo, sig, over) ==
    /\ Heading(r, n, expo)
    /\ sig.rcv = "pointer"
    /\ IF ORB_HasVisibleInits(recs[r].base)
       THEN over \in { thisinit(recs[r].base, k) : k \in InitName } \ {0}
       ELSE over = 0
    /\ InOrder => \A id \in DOMAIN meths :
                    r \in recs[meths[id].rec].bases => ~meths[id].initf /\ meths[id].name # n
    /\ meths' = Append(meths, [rec |-> r, name |-> n, expo |-> expo, initf |-> TRUE,
                               slot |-> -1, sig |-> sig, over |-> over])
    /\ UNCHANGED <<unit, part, recs, intfs, td, itab, news, made>>

(* At the end of the declarations every record has what its own list of      *)
(* interfaces asks for. *)
CheckConformance ==
    \A r \in DOMAIN recs : recs[r].mod = unit =>
        \A i \in recs[r].impl : \A m \in intfs[i].meth :
            LET rm == ORB_FindMeth(r, m.name)
            IN rm # 0 /\ IfaceSigMatch(meths[rm].sig, m.sig)

Begin == /\ part = "procedures"
         /\ CheckConformance
         /\ part' = "body"
         /\ UNCHANGED <<unit, recs, intfs, meths, td, itab, news, made>>

--------------------------------------------------------------------------
(* What statements make the compiler emit.  *)

Statement ==
    /\ part \in {"body"} \cup IF InOrder THEN {} ELSE {"procedures"}
    /\ Cardinality(DOMAIN itab) + Cardinality(news) + Cardinality(made) < MaxUse

(* The slot for each member, at the member's index; zero for a method that  *)
(* is not there. *)
itable_global(r, i) ==
    [v \in 0 .. intfs[i].nofmeth - 1 |->
        LET rm == { ORB_FindMeth(r, m.name) : m \in { q \in intfs[i].meth : q.val = v } }
                     \ {0}
        IN IF rm = {} THEN 0 ELSE meths[CHOOSE id \in rm : TRUE].slot]

(* A pointer to r becomes a value of interface i: the table of the unit is   *)
(* emitted when it is first needed. *)
ORG_PtrToIface(r, i) ==
    /\ Statement /\ ORB_Conforms(r, i)
    /\ << unit, r, i >> \notin DOMAIN itab
    /\ itab' = [x \in DOMAIN itab \cup { << unit, r, i >> } |->
                   IF x \in DOMAIN itab THEN itab[x] ELSE itable_global(r, i)]
    /\ UNCHANGED <<unit, part, recs, intfs, meths, td, news, made>>

New(r) == /\ Statement /\ ~ORB_HasInits(r)
          /\ news' = news \cup {r}
          /\ UNCHANGED <<unit, part, recs, intfs, meths, td, itab, made>>

ConstructorCall(r, n) ==
    /\ Statement /\ thisinit(r, n) # 0
    /\ made' = made \cup { << r, thisinit(r, n) >> }
    /\ UNCHANGED <<unit, part, recs, intfs, meths, td, itab, news>>

(* The nearest of these records. *)
NearestRecord(rs) == CHOOSE k \in rs : \A j \in rs : j <= k

(* A mutant: the descriptor itself stands one level too deep. *)
type_above_level(r, level) ==
    NearestRecord({ k \in Chain(r) : recs[k].level < level \/ level = 0 })

(* The walk to the base types stops at the record of this level. *)
type_at_level(r, level) == NearestRecord({ k \in Chain(r) : recs[k].level <= level })

(* Slots from the nearest record to the root, the first writer stays. *)
Vtable(r) ==
    [k \in 0 .. ORB_TotalMeths(r) - 1 |->
        Nearest({ id \in Methods(Chain(r)) : meths[id].slot = k })]

finalize_tds(r) ==
    [anc |-> [l \in 0 .. TD_LEVELS - 1 |->
                IF l > recs[r].level THEN 0 ELSE type_at_level(r, l)],
     vt  |-> Vtable(r)]

Close ==
    /\ part = "body"
    /\ LET own == { r \in DOMAIN recs : recs[r].mod = unit } IN
       td' = [r \in DOMAIN td \cup own |-> IF r \in own THEN finalize_tds(r) ELSE td[r]]
    /\ unit' = unit + 1
    /\ part' = IF unit = MaxUnit THEN "done" ELSE "types"
    /\ UNCHANGED <<recs, intfs, meths, itab, news, made>>

--------------------------------------------------------------------------
(* What the emitted code does with an object whose tag is the descriptor of  *)
(* record d. *)

(* p.m(), m being the method that was found for the type of p.  What stands  *)
(* before the table of methods is none of them. *)
ORG_MethodItem(d, m) ==
    IF meths[m].slot \in DOMAIN td[d].vt THEN td[d].vt[meths[m].slot] ELSE 0

(* i.m(), m being a member of the interface and table the one in the value. *)
ORG_IfaceMethodItem(d, table, m) ==
    IF table[m.val] \in DOMAIN td[d].vt THEN td[d].vt[table[m.val]] ELSE 0

(* p IS t: one load and one comparison. *)
ORG_TypeTest(d, t) ==
    LET level == IF recs[t].level >= TD_LEVELS THEN TD_LEVELS - 1 ELSE recs[t].level
    IN td[d].anc[level] = t

Init == /\ unit = 1 /\ part = "types"
        /\ recs = << >> /\ intfs = << >> /\ meths = << >>
        /\ td = << >> /\ itab = << >> /\ news = {} /\ made = {}

Next == \/ \E base \in 0 .. Len(recs), impl \in SUBSET DOMAIN intfs : RecordType(base, impl)
        \/ InterfaceType
        \/ \E j \in DOMAIN intfs : IncludeInterface(j)
        \/ \E n \in Member, sig \in Sig : Require(n, sig)
        \/ EndInterface
        \/ Procedures
        \/ \E r \in Receivers, n \in Name, expo, override \in BOOLEAN, sig \in Sig :
              BindMethod(r, n, expo, override, sig)
        \/ \E r \in Receivers, n \in InitName, expo \in BOOLEAN, sig \in Sig,
              over \in 0 .. Len(meths) : BindInit(r, n, expo, sig, over)
        \/ Begin
        \/ \E r \in DOMAIN recs, i \in DOMAIN intfs : ORG_PtrToIface(r, i)
        \/ \E r \in DOMAIN recs : New(r)
        \/ \E r \in DOMAIN recs, n \in InitName : ConstructorCall(r, n)
        \/ Close

Spec == Init /\ [][Next]_vars
--------------------------------------------------------------------------
(* The method, what it overrides, what that overrides, up to the first: none *)
(* is declared after the one that overrides it. *)
Overridden(id) ==
    IF meths[id].over = 0 THEN {id}
    ELSE { x \in 1 .. id :
             \A S \in SUBSET (1 .. id) :
                (id \in S /\ \A y \in S : meths[y].over # 0 => meths[y].over \in S)
                => x \in S }

(* A method that overrides an initialiser, or a method that does, has none   *)
(* of the table's slots, and no call reaches it. *)
Virtual(id) == \A x \in Overridden(id) : ~meths[x].initf

ReachesNearest(d, m) ==
    LET first == Overridden(m) IN
    ORG_MethodItem(d, m) =
        Nearest({ id \in Methods(Chain(d)) :
                    ~meths[id].initf /\ first \cap Overridden(id) # {} })

(* A call through a pointer reaches the nearest method that overrides the    *)
(* one that was found when the call was compiled, or the same as that one    *)
(* does, in whatever unit and order the methods were declared, private ones  *)
(* of other units and initialisers of the name included, unless the one that *)
(* was found goes back to an initialiser (BindMethod, finalize_tds,          *)
(* ORG_MethodItem). *)
CallsOverride ==
    \A d \in DOMAIN td : \A m \in Methods(Chain(d)) :
        Virtual(m) => ReachesNearest(d, m)

(* Every method that a call may find, those that override an initialiser     *)
(* too.  The program breaks this one. *)
CallsReach ==
    \A d \in DOMAIN td : \A m \in Methods(Chain(d)) :
        ~meths[m].initf => ReachesNearest(d, m)

(* A call through an interface reaches a method of that name and signature,  *)
(* whichever extension the object is of and in whichever unit it was         *)
(* converted, unless the type that was converted has a method of the name    *)
(* that goes back to an initialiser (itable_global, ORG_IfaceMethodItem). *)
InterfaceCalls ==
    \A x \in DOMAIN itab : \A d \in DOMAIN td :
        x[2] \in Chain(d) =>
            \A m \in intfs[x[3]].meth :
                LET f == ORG_IfaceMethodItem(d, itab[x], m)
                IN Virtual(ORB_FindMeth(x[2], m.name)) =>
                       f # 0 /\ meths[f].name = m.name /\ meths[f].sig.par = m.sig.par

(* IS answers whether the object's type extends the other, if that is no     *)
(* deeper than a descriptor can tell, whatever the depth of the object's     *)
(* (record_td, ORG_TypeTest). *)
TypeTests ==
    \A d, t \in DOMAIN td :
        recs[t].level < TD_LEVELS => (ORG_TypeTest(d, t) <=> t \in Chain(d))

(* "So no uninitialised object escapes": nothing that has an initialiser was *)
(* allocated without one (ORB_HasInits). *)
NoBareObject == \A r \in news \cap DOMAIN td : \A k \in Chain(r) : ~DeclaresInit(k)

(* What a constructor runs claims the construction of the type, and its text *)
(* has a call of an initialiser of the base types, that one's text has one,  *)
(* and so on until there are none that the unit of the last could see; that  *)
(* the calls are made is not asked (thisinit, SuperCall). *)
ChainedInits ==
    \A x \in made : x[1] \in DOMAIN td =>
        /\ x[2] \in Governing(x[1])
        /\ \A id \in Overridden(x[2]) :
              meths[id].over = 0 =>
                  \A b \in Governing(recs[meths[id].rec].base) :
                      ~meths[b].expo /\ recs[meths[b].rec].mod # recs[meths[id].rec].mod
=============================================================================
