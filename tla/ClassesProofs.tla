--------------------------- MODULE ClassesProofs ----------------------------
(* Calls, type tests and constructions in the emitted code, for programs of  *)
(* any number of units, types and type-bound procedures.                     *)
EXTENDS Classes, SequenceTheorems, FiniteSetTheorems, WellFoundedInduction, TLAPS

Record == [mod : Nat, base : Nat, bases : SUBSET Nat, impl : SUBSET Nat,
           level : Nat, nofmeth : Nat, mfixed : BOOLEAN]

Interface == [meth : SUBSET [name : Member, sig : Sig, val : Nat],
              nofmeth : Nat, incl : SUBSET Nat]

Method == [rec : Nat, name : Name \cup InitName, expo : BOOLEAN, initf : BOOLEAN,
           slot : Int, sig : Sig, over : Nat]

TypeOK ==
    /\ unit \in Nat \ {0}
    /\ part \in {"types", "interface", "procedures", "body", "done"}
    /\ recs \in Seq(Record) /\ intfs \in Seq(Interface) /\ meths \in Seq(Method)
    /\ \A i \in DOMAIN intfs : IsFiniteSet(intfs[i].meth)
    /\ part = "interface" => intfs # << >>
    /\ DOMAIN itab \subseteq Nat \X (DOMAIN recs) \X (DOMAIN intfs)
    /\ news \subseteq DOMAIN recs /\ made \subseteq (DOMAIN recs) \X (DOMAIN meths)

(* An extension is declared after its bases, and these are a chain. *)
Tree ==
    \A r \in DOMAIN recs :
        /\ recs[r].base < r /\ recs[r].bases = Chain(recs[r].base)
        /\ recs[r].bases \subseteq 1 .. r - 1
        /\ recs[r].mod <= unit
        /\ \A k \in recs[r].bases : /\ recs[k].bases \subseteq recs[r].bases
                                    /\ recs[k].mod <= recs[r].mod
                                    /\ recs[k].level < recs[r].level
        /\ \A j, k \in recs[r].bases : j < k => j \in recs[k].bases
        /\ \E k \in Chain(r) : recs[k].level = 0

(* What is overridden was declared before, for a base type, under the same   *)
(* name and with the same slot and signature; initialisers call such.  What  *)
(* has no slot goes back to an initialiser.                                  *)
Declared ==
    \A i \in DOMAIN meths :
        /\ meths[i].rec \in DOMAIN recs
        /\ meths[i].expo \/ meths[i].name \in Private
        /\ \A j \in DOMAIN meths :
              meths[j].rec = meths[i].rec /\ meths[j].name = meths[i].name => i = j
        /\ meths[i].over # 0 =>
              /\ meths[i].over < i /\ (meths[i].initf => meths[meths[i].over].initf)
              /\ meths[meths[i].over].rec \in recs[meths[i].rec].bases
        /\ meths[i].slot = -1 \/ meths[i].slot >= 0
        /\ meths[i].initf => meths[i].slot = -1
        /\ meths[i].slot >= 0 => \E k \in Chain(meths[i].rec) : meths[i].slot < recs[k].nofmeth
        /\ ~meths[i].initf =>
              /\ meths[i].slot >= 0 \/ meths[i].over # 0
              /\ meths[i].over # 0 =>
                    /\ meths[meths[i].over].slot = meths[i].slot
                    /\ meths[meths[i].over].name = meths[i].name
                    /\ MethodSigMatch(meths[i].sig, meths[meths[i].over].sig)

First(i) == ~meths[i].initf /\ meths[i].over = 0

(* No two slots of a chain were given to different methods: when an          *)
(* extension takes one, its bases can take no more. *)
Slots ==
    /\ \A r \in DOMAIN recs : recs[r].nofmeth <= Len(meths)
    /\ \A i \in DOMAIN meths : First(i) =>
          /\ \A k \in recs[meths[i].rec].bases : recs[k].mfixed
          /\ \A j \in DOMAIN meths :
                /\ First(j) /\ meths[j].rec \in Chain(meths[i].rec)
                /\ meths[i].slot = meths[j].slot
                => i = j

(* What has a slot and a name that every unit can see overrides whatever has *)
(* the name in the base types, when members are declared in order. *)
SameName ==
    \A i, j \in DOMAIN meths :
        /\ meths[i].slot >= 0
        /\ meths[i].name = meths[j].name /\ meths[i].name \notin Private
        /\ meths[j].rec \in Chain(meths[i].rec)
        => meths[i].slot = meths[j].slot /\ MethodSigMatch(meths[i].sig, meths[j].sig)

(* Descriptors are as the finished units' declarations, which do not change. *)
Descriptors ==
    /\ DOMAIN td = { r \in DOMAIN recs : recs[r].mod < unit }
    /\ \A d \in DOMAIN td : td[d] = finalize_tds(d)

SlotsInv == TypeOK /\ Tree /\ Declared /\ Slots /\ Descriptors

-----------------------------------------------------------------------------
(* Numbers. *)

LEMMA Smallest ==
    ASSUME NEW S \in SUBSET Nat, S # {}
    PROVE  \E x \in S : \A y \in S : x <= y
  <1>1. IsWellFoundedOn(OpToRel(<, Nat), Nat)
    BY NatLessThanWellFounded
  <1>2. PICK x \in S : \A y \in S : ~(<< y, x >> \in OpToRel(<, Nat))
    BY <1>1, WFMin
  <1>3. \A y \in S : ~(y < x)
    BY <1>2 DEF OpToRel
  <1> QED
    BY <1>3

LEMMA Greatest ==
    ASSUME NEW S \in SUBSET Nat, S # {}, NEW B \in Nat, \A x \in S : x <= B
    PROVE  \E x \in S : \A y \in S : y <= x
  <1> DEFINE T == { B - x : x \in S }
  <1>1. T \in SUBSET Nat /\ T # {}
    OBVIOUS
  <1> HIDE DEF T
  <1>2. PICK t \in T : \A u \in T : t <= u
    BY <1>1, Smallest
  <1>3. PICK x \in S : t = B - x
    BY <1>2 DEF T
  <1>4. \A y \in S : B - y \in T
    BY DEF T
  <1>5. \A y \in S : y <= x
    BY <1>2, <1>3, <1>4
  <1> QED
    BY <1>5

-----------------------------------------------------------------------------
(* Lookups. *)

LEMMA Types ==
    ASSUME TypeOK
    PROVE  /\ Len(recs) \in Nat /\ DOMAIN recs = 1 .. Len(recs)
           /\ Len(intfs) \in Nat /\ DOMAIN intfs = 1 .. Len(intfs)
           /\ Len(meths) \in Nat /\ DOMAIN meths = 1 .. Len(meths)
           /\ \A r \in DOMAIN recs : recs[r] \in Record
           /\ \A i \in DOMAIN intfs : intfs[i] \in Interface
           /\ \A i \in DOMAIN meths : meths[i] \in Method
  <1>1. recs \in Seq(Record) /\ intfs \in Seq(Interface) /\ meths \in Seq(Method)
    BY DEF TypeOK
  <1> QED
    BY <1>1, LenProperties, ElementOfSeq

(* A record with its bases is a chain. *)
LEMMA Chains ==
    ASSUME TypeOK, Tree, NEW d \in DOMAIN recs
    PROVE  /\ d \in Chain(d) /\ Chain(d) \subseteq 1 .. d /\ Chain(d) \subseteq DOMAIN recs
           /\ Chain(d) = {d} \cup recs[d].bases /\ d \notin recs[d].bases
           /\ recs[d].bases = Chain(recs[d].base)
           /\ \A k \in Chain(d) : /\ Chain(k) \subseteq Chain(d)
                                  /\ recs[k].mod <= recs[d].mod
           /\ \A j, k \in Chain(d) : j < k => j \in recs[k].bases
           /\ \A j, k \in Chain(d) : j \in Chain(k) \/ k \in Chain(j)
  <1>1. d \in Nat \ {0} /\ DOMAIN recs = 1 .. Len(recs) /\ Len(recs) \in Nat
    BY Types
  <1>2. \A k \in DOMAIN recs : Chain(k) = {k} \cup recs[k].bases
    BY Types DEF Chain
  <1>3. recs[d].bases \subseteq 1 .. d - 1 /\ recs[d].bases = Chain(recs[d].base)
    BY DEF Tree
  <1>4. Chain(d) \subseteq 1 .. d /\ Chain(d) \subseteq DOMAIN recs
    BY <1>1, <1>2, <1>3
  <1>5. \A k \in DOMAIN recs : recs[k].mod \in Nat
    BY Types DEF Record
  <1>6. \A k \in recs[d].bases : recs[k].bases \subseteq recs[d].bases /\ recs[k].mod <= recs[d].mod
    BY DEF Tree
  <1>7. \A k \in Chain(d) : Chain(k) \subseteq Chain(d) /\ recs[k].mod <= recs[d].mod
    BY <1>2, <1>4, <1>5, <1>6
  <1>8. \A j, k \in Chain(d) : j < k => j \in recs[k].bases
    <2> SUFFICES ASSUME NEW j \in Chain(d), NEW k \in Chain(d), j < k
                 PROVE  j \in recs[k].bases
      OBVIOUS
    <2>1. j # d
      BY <1>1, <1>4
    <2>2. j \in recs[d].bases
      BY <2>1, <1>2
    <2> QED
      BY <2>2, <1>2 DEF Tree
  <1>9. \A j, k \in Chain(d) : j \in Chain(k) \/ k \in Chain(j)
    <2> SUFFICES ASSUME NEW j \in Chain(d), NEW k \in Chain(d)
                 PROVE  j \in Chain(k) \/ k \in Chain(j)
      OBVIOUS
    <2>1. j < k \/ j = k \/ k < j
      BY <1>1, <1>4
    <2> QED
      BY <2>1, <1>2, <1>4, <1>8
  <1> QED
    BY <1>1, <1>2, <1>3, <1>4, <1>7, <1>8, <1>9

(* Nearest finds one, of the record that is nearest. *)
LEMMA NearestFound ==
    ASSUME TypeOK, Declared, NEW ids \in SUBSET DOMAIN meths
    PROVE  /\ Nearest({}) = 0
           /\ ids # {} => /\ Nearest(ids) \in ids /\ Nearest(ids) # 0
                          /\ \A j \in ids : meths[j].rec <= meths[Nearest(ids)].rec
  <1>1. Nearest({}) = 0
    BY DEF Nearest, Found
  <1>2. ASSUME ids # {}
        PROVE  /\ Nearest(ids) \in ids /\ Nearest(ids) # 0
               /\ \A j \in ids : meths[j].rec <= meths[Nearest(ids)].rec
    <2>1. ids \subseteq Nat \ {0} /\ Len(recs) \in Nat
      BY Types
    <2>2. \A i \in ids : meths[i].rec \in 1 .. Len(recs)
      BY Types DEF Declared
    <2> DEFINE R == { meths[i].rec : i \in ids }
    <2>3. R \in SUBSET Nat /\ R # {} /\ \A x \in R : x <= Len(recs)
      BY <1>2, <2>1, <2>2
    <2> HIDE DEF R
    <2>4. PICK r \in R : \A y \in R : y <= r
      BY <2>1, <2>3, Greatest
    <2> DEFINE T == { i \in ids : meths[i].rec = r }
    <2>5. T \in SUBSET Nat /\ T # {}
      BY <2>1, <2>4 DEF R
    <2> HIDE DEF T
    <2>6. PICK i \in T : \A j \in T : i <= j
      BY <2>5, Smallest
    <2>7. i \in ids /\ \A j \in ids \ {i} : Before(i, j)
      <3>1. i \in ids /\ meths[i].rec = r
        BY DEF T
      <3> SUFFICES ASSUME NEW j \in ids, j # i PROVE Before(i, j)
        BY <3>1
      <3>2. meths[j].rec <= r
        BY <2>4 DEF R
      <3>3. meths[j].rec = r => i <= j
        BY <2>6 DEF T
      <3> QED
        BY <2>1, <2>2, <3>1, <3>2, <3>3 DEF Before
    <2>8. Nearest(ids) \in ids /\ \A j \in ids \ {Nearest(ids)} : Before(Nearest(ids), j)
      <3> DEFINE found == { k \in ids : \A j \in ids \ {k} : Before(k, j) }
      <3>1. found # {}
        BY <2>7
      <3>2. Nearest(ids) = CHOOSE k \in found : TRUE
        BY <3>1 DEF Nearest, Found
      <3>3. Nearest(ids) \in found
        BY <3>1, <3>2
      <3> QED
        BY <3>3
    <2> QED
      BY <2>1, <2>2, <2>8 DEF Before
  <1> QED
    BY <1>1, <1>2

LEMMA OverIsEarlier ==
    ASSUME TypeOK, Declared, NEW i \in DOMAIN meths, meths[i].over # 0
    PROVE  meths[i].over \in DOMAIN meths /\ meths[i].over < i
  <1>1. meths[i].over \in Nat /\ meths[i].over < i
    BY Types DEF Declared, Method
  <1> QED
    BY <1>1, Types

(* What overrides what: least sets, so that what holds of a method and       *)
(* passes to what it overrides holds of all. *)
LEMMA OverriddenClosed ==
    ASSUME TypeOK, Declared, NEW id \in DOMAIN meths
    PROVE  /\ id \in Overridden(id) /\ Overridden(id) \subseteq DOMAIN meths
           /\ \A S \in SUBSET DOMAIN meths :
                 id \in S /\ (\A y \in S : meths[y].over # 0 => meths[y].over \in S)
                 => Overridden(id) \subseteq S
           /\ \A x \in Overridden(id) :
                 meths[x].over # 0 /\ meths[x].over \in DOMAIN meths
                 => meths[x].over \in Overridden(id)
  <1>1. id \in 1 .. id /\ 1 .. id \subseteq DOMAIN meths /\ id \in Nat
    BY Types
  <1>2. \A y \in 1 .. id : meths[y].over # 0 => meths[y].over \in 1 .. id
    <2> TAKE y \in 1 .. id
    <2> HAVE meths[y].over # 0
    <2>1. meths[y].over \in DOMAIN meths /\ meths[y].over < y
      BY <1>1, OverIsEarlier
    <2> QED
      BY <1>1, <2>1, Types
  <1>0. Overridden(id) =
          { x \in 1 .. id :
              \A S \in SUBSET (1 .. id) :
                 (id \in S /\ \A y \in S : meths[y].over # 0 => meths[y].over \in S)
                 => x \in S }
    <2>1. CASE meths[id].over = 0
      <3>1. {id} \in SUBSET (1 .. id)
        BY <1>1
      <3>2. \A y \in {id} : meths[y].over # 0 => meths[y].over \in {id}
        BY <2>1
      <3> QED
        BY <1>1, <2>1, <3>1, <3>2 DEF Overridden
    <2>2. CASE meths[id].over # 0
      BY <2>2 DEF Overridden
    <2> QED
      BY <2>1, <2>2
  <1>3. id \in Overridden(id) /\ Overridden(id) \subseteq 1 .. id
    BY <1>0, <1>1
  <1>4. ASSUME NEW S \in SUBSET DOMAIN meths, id \in S,
               \A y \in S : meths[y].over # 0 => meths[y].over \in S
        PROVE  Overridden(id) \subseteq S
    <2>1. PICK early : early = S \cap (1 .. id)
      OBVIOUS
    <2>2. /\ early \in SUBSET (1 .. id) /\ id \in early
          /\ \A y \in early : meths[y].over # 0 => meths[y].over \in early
      BY <1>1, <1>2, <1>4, <2>1
    <2>3. Overridden(id) \subseteq early
      BY <1>0, <2>2
    <2> QED
      BY <2>1, <2>3
  <1>5. ASSUME NEW x \in Overridden(id), meths[x].over # 0
        PROVE  meths[x].over \in Overridden(id)
    <2>1. meths[x].over \in 1 .. id
      BY <1>2, <1>3, <1>5
    <2> QED
      BY <1>0, <1>5, <2>1
  <1> QED
    BY <1>1, <1>3, <1>4, <1>5

(* They have one slot, or none. *)
LEMMA OneSlot ==
    ASSUME TypeOK, Tree, Declared, NEW id \in DOMAIN meths
    PROVE  \A x \in Overridden(id) : x \in DOMAIN meths /\ meths[x].slot = meths[id].slot
  <1> DEFINE S == { x \in DOMAIN meths : meths[x].slot = meths[id].slot }
  <1>1. ASSUME NEW y \in S, meths[y].over # 0
        PROVE  meths[y].over \in S
    <2>1. meths[y].over \in DOMAIN meths
      BY <1>1, OverIsEarlier
    <2>2. meths[meths[y].over].slot = meths[y].slot
      BY <1>1, <2>1 DEF Declared
    <2> QED
      BY <1>1, <2>1, <2>2
  <1> QED
    BY <1>1, OverriddenClosed

(* The first of them. *)
LEMMA FirstOf ==
    ASSUME TypeOK, Tree, Declared, NEW id \in DOMAIN meths
    PROVE  \E x \in Overridden(id) : meths[x].over = 0
  <1>1. Overridden(id) \in SUBSET Nat /\ Overridden(id) # {}
    BY OverriddenClosed, Types
  <1>2. PICK x \in Overridden(id) : \A y \in Overridden(id) : x <= y
    BY <1>1, Smallest
  <1>3. x \in DOMAIN meths
    BY OverriddenClosed
  <1>4. meths[x].over = 0
    <2> SUFFICES ASSUME meths[x].over # 0 PROVE FALSE
      OBVIOUS
    <2>1. meths[x].over \in DOMAIN meths /\ meths[x].over < x
      BY <1>3, OverIsEarlier
    <2>2. meths[x].over \in Overridden(id)
      BY <2>1, OverriddenClosed
    <2> QED
      BY <1>1, <1>2, <2>1, <2>2
  <1> QED
    BY <1>4

LEMMA RootOf ==
    ASSUME TypeOK, Tree, Declared, NEW id \in DOMAIN meths, meths[id].slot >= 0
    PROVE  /\ \A x \in Overridden(id) :
                 /\ x \in DOMAIN meths /\ ~meths[x].initf /\ meths[x].slot = meths[id].slot
                 /\ meths[x].name = meths[id].name
                 /\ meths[x].rec \in Chain(meths[id].rec)
           /\ \E x \in Overridden(id) : First(x)
  <1> DEFINE r == meths[id].rec
             S == { x \in DOMAIN meths : /\ ~meths[x].initf
                                         /\ meths[x].slot = meths[id].slot
                                         /\ meths[x].name = meths[id].name
                                         /\ meths[x].rec \in Chain(r) }
  <1>1. r \in DOMAIN recs
    BY DEF Declared
  <1>0. \A y \in DOMAIN meths : meths[y].slot = meths[id].slot => ~meths[y].initf
    BY Types DEF Declared, Method
  <1>2. id \in S
    BY <1>0, <1>1, Chains
  <1>3. ASSUME NEW y \in S, meths[y].over # 0
        PROVE  meths[y].over \in S
    <2>1. meths[y].over \in DOMAIN meths
      BY <1>3, OverIsEarlier
    <2>2. meths[y].rec \in DOMAIN recs /\ Chain(meths[y].rec) \subseteq Chain(r)
      BY <1>1, Chains DEF Declared
    <2>3. meths[meths[y].over].rec \in recs[meths[y].rec].bases
      BY <1>3 DEF Declared
    <2>4. meths[meths[y].over].rec \in Chain(r)
      BY <2>2, <2>3, Chains
    <2>5. meths[meths[y].over].slot = meths[y].slot /\ meths[meths[y].over].name = meths[y].name
      BY <1>3 DEF Declared
    <2> QED
      BY <1>0, <1>3, <2>1, <2>4, <2>5
  <1>4. Overridden(id) \subseteq S
    BY <1>2, <1>3, OverriddenClosed
  <1>5. \E x \in Overridden(id) : First(x)
    BY <1>4, FirstOf DEF First
  <1> QED
    BY <1>4, <1>5

(* Those that go back to an initialiser have none. *)
LEMMA VirtualHasSlot ==
    ASSUME TypeOK, Tree, Declared, NEW id \in DOMAIN meths
    PROVE  Virtual(id) <=> meths[id].slot >= 0
  <1>1. ASSUME meths[id].slot >= 0 PROVE Virtual(id)
    BY <1>1, RootOf DEF Virtual
  <1>2. ASSUME ~(meths[id].slot >= 0) PROVE ~Virtual(id)
    <2>1. PICK x \in Overridden(id) : meths[x].over = 0
      BY FirstOf
    <2>2. x \in DOMAIN meths /\ ~(meths[x].slot >= 0)
      BY <1>2, OneSlot
    <2>3. meths[x].initf
      BY <2>1, <2>2 DEF Declared
    <2> QED
      BY <2>3 DEF Virtual
  <1> QED
    BY <1>1, <1>2

(* Total is the greatest number of slots in the chain. *)
LEMMA Total ==
    ASSUME TypeOK, Tree, NEW d \in DOMAIN recs,
           \A r \in DOMAIN recs : recs[r].nofmeth <= Len(meths)
    PROVE  /\ ORB_TotalMeths(d) \in Nat /\ ORB_TotalMeths(d) <= Len(meths)
           /\ \A k \in Chain(d) : recs[k].nofmeth <= ORB_TotalMeths(d)
  <1> DEFINE n == { recs[k].nofmeth : k \in Chain(d) }
  <1>1. d \in Chain(d) /\ Chain(d) \subseteq DOMAIN recs
    BY Chains
  <1>2. \A r \in DOMAIN recs : recs[r].nofmeth \in Nat
    BY Types DEF Record
  <1>3. n \in SUBSET Nat /\ n # {} /\ \A x \in n : x <= Len(meths)
    BY <1>1, <1>2
  <1>4. ORB_TotalMeths(d) = CHOOSE max \in n : \A k \in n : k <= max
    BY DEF ORB_TotalMeths
  <1> HIDE DEF n
  <1>5. \E x \in n : \A y \in n : y <= x
    BY <1>3, Greatest, Types
  <1>6. ORB_TotalMeths(d) \in n /\ \A y \in n : y <= ORB_TotalMeths(d)
    BY <1>4, <1>5
  <1> QED
    BY <1>3, <1>6 DEF n

(* In a chain the methods of a slot are those that override one method. *)
LEMMA SlotsAreOverrides ==
    ASSUME SlotsInv, NEW d \in DOMAIN recs,
           NEW i \in Methods(Chain(d)), NEW j \in Methods(Chain(d)),
           meths[i].slot >= 0
    PROVE  meths[i].slot = meths[j].slot <=> Overridden(i) \cap Overridden(j) # {}
  <1> USE DEF SlotsInv
  <1>1. i \in DOMAIN meths /\ meths[i].rec \in Chain(d)
        /\ j \in DOMAIN meths /\ meths[j].rec \in Chain(d)
    BY DEF Methods
  <1>2. ASSUME Overridden(i) \cap Overridden(j) # {}
        PROVE  meths[i].slot = meths[j].slot
    BY <1>1, <1>2, OneSlot
  <1>3. ASSUME meths[i].slot = meths[j].slot
        PROVE  Overridden(i) \cap Overridden(j) # {}
    <2>1. PICK x \in Overridden(i) : First(x)
      BY <1>1, RootOf
    <2>2. PICK y \in Overridden(j) : First(y)
      BY <1>1, <1>3, RootOf
    <2>3. /\ x \in DOMAIN meths /\ y \in DOMAIN meths
          /\ meths[x].slot = meths[y].slot
          /\ meths[x].rec \in Chain(meths[i].rec) /\ meths[y].rec \in Chain(meths[j].rec)
      BY <1>1, <1>3, <2>1, <2>2, RootOf
    <2>4. meths[x].rec \in Chain(d) /\ meths[y].rec \in Chain(d)
      BY <1>1, <2>3, Chains
    <2>5. meths[x].rec \in Chain(meths[y].rec) \/ meths[y].rec \in Chain(meths[x].rec)
      BY <2>4, Chains
    <2>6. x = y
      BY <2>1, <2>2, <2>3, <2>5 DEF Slots
    <2> QED
      BY <2>1, <2>2, <2>6
  <1> QED
    BY <1>2, <1>3

(* A slot of a method is in the table of every extension. *)
LEMMA SlotInTable ==
    ASSUME SlotsInv, NEW d \in DOMAIN recs, NEW i \in Methods(Chain(d)), meths[i].slot >= 0
    PROVE  meths[i].slot \in 0 .. ORB_TotalMeths(d) - 1
  <1> USE DEF SlotsInv
  <1>1. i \in DOMAIN meths /\ meths[i].rec \in Chain(d)
    BY DEF Methods
  <1>2. PICK k \in Chain(meths[i].rec) : meths[i].slot < recs[k].nofmeth
    BY <1>1 DEF Declared
  <1>3. k \in Chain(d)
    BY <1>1, <1>2, Chains
  <1>4. recs[k].nofmeth <= ORB_TotalMeths(d) /\ ORB_TotalMeths(d) \in Nat
    BY <1>3, Total DEF Slots
  <1>5. recs[k].nofmeth \in Nat /\ meths[i].slot \in Int /\ meths[i].slot >= 0
    BY <1>1, <1>3, Types, Chains DEF Record, Method, Declared
  <1> QED
    BY <1>2, <1>4, <1>5

LEMMA CallsFollow == SlotsInv => CallsOverride
  <1> SUFFICES ASSUME SlotsInv, NEW d \in DOMAIN td, NEW m \in Methods(Chain(d)), Virtual(m)
               PROVE  ORG_MethodItem(d, m) =
                        Nearest({ id \in Methods(Chain(d)) :
                            ~meths[id].initf /\ Overridden(m) \cap Overridden(id) # {} })
    BY DEF CallsOverride, ReachesNearest
  <1>1. d \in DOMAIN recs /\ td[d] = finalize_tds(d)
    BY DEF SlotsInv, Descriptors
  <1>2. m \in DOMAIN meths /\ meths[m].slot >= 0
    BY VirtualHasSlot DEF SlotsInv, Methods
  <1>3. /\ meths[m].slot \in DOMAIN td[d].vt
        /\ td[d].vt[meths[m].slot] = Nearest({ id \in Methods(Chain(d)) :
                                                 meths[id].slot = meths[m].slot })
    BY <1>1, <1>2, SlotInTable DEF finalize_tds, Vtable
  <1>4. \A id \in Methods(Chain(d)) : meths[id].slot = meths[m].slot => ~meths[id].initf
    <2>1. meths[m].slot \in Int
      BY <1>1, <1>2, SlotInTable
    <2>2. \A id \in Methods(Chain(d)) : meths[id].initf => meths[id].slot = -1
      BY DEF Methods, SlotsInv, Declared
    <2> QED
      BY <1>2, <2>1, <2>2
  <1>5. { id \in Methods(Chain(d)) : meths[id].slot = meths[m].slot }
        = { id \in Methods(Chain(d)) :
              ~meths[id].initf /\ Overridden(m) \cap Overridden(id) # {} }
    BY <1>1, <1>2, <1>4, SlotsAreOverrides
  <1> QED
    BY <1>3, <1>5 DEF ORG_MethodItem

(* The record of a level in a chain. *)
LEMMA TypeAtLevel ==
    ASSUME TypeOK, Tree, NEW d \in DOMAIN recs, NEW l \in Nat
    PROVE  /\ type_at_level(d, l) \in Chain(d)
           /\ recs[type_at_level(d, l)].level <= l
           /\ \A k \in Chain(d) : recs[k].level <= l => k <= type_at_level(d, l)
  <1> DEFINE rs == { k \in Chain(d) : recs[k].level <= l }
  <1>1. Chain(d) \subseteq 1 .. d /\ Chain(d) \subseteq DOMAIN recs /\ d \in Nat
    BY Chains, Types
  <1>2. PICK k \in Chain(d) : recs[k].level = 0
    BY DEF Tree
  <1>3. rs \in SUBSET Nat /\ rs # {} /\ \A x \in rs : x <= d
    BY <1>1, <1>2
  <1>4. type_at_level(d, l) = CHOOSE x \in rs : \A j \in rs : j <= x
    BY DEF type_at_level, NearestRecord
  <1> HIDE DEF rs
  <1>5. type_at_level(d, l) \in rs /\ \A j \in rs : j <= type_at_level(d, l)
    BY <1>1, <1>3, <1>4, Greatest
  <1> QED
    BY <1>5 DEF rs

LEMMA TestsFollow == SlotsInv => TypeTests
  <1> SUFFICES ASSUME SlotsInv, NEW d \in DOMAIN td, NEW t \in DOMAIN td,
                      recs[t].level < TD_LEVELS
               PROVE  ORG_TypeTest(d, t) <=> t \in Chain(d)
    BY DEF TypeTests
  <1> USE DEF SlotsInv
  <1> DEFINE l == recs[t].level
  <1>1. /\ d \in DOMAIN recs /\ t \in DOMAIN recs /\ td[d] = finalize_tds(d)
        /\ TD_LEVELS \in Nat
    BY ClassesAssumption DEF Descriptors
  <1>2. \A r \in DOMAIN recs : recs[r].level \in Nat
    BY Types DEF Record
  <1>3. ORG_TypeTest(d, t) <=> (IF l > recs[d].level THEN 0 ELSE type_at_level(d, l)) = t
    BY <1>1, <1>2 DEF ORG_TypeTest, finalize_tds
  <1>4. t # 0 /\ t \in Nat /\ Chain(d) \subseteq Nat
    BY <1>1, Types, Chains
  <1>5. ASSUME t \in Chain(d)
        PROVE  (IF l > recs[d].level THEN 0 ELSE type_at_level(d, l)) = t
    <2>1. l <= recs[d].level
      BY <1>1, <1>2, <1>5, Chains DEF Tree
    <2>2. /\ type_at_level(d, l) \in Chain(d) /\ recs[type_at_level(d, l)].level <= l
          /\ t <= type_at_level(d, l)
      BY <1>1, <1>2, <1>5, TypeAtLevel
    <2>3. t < type_at_level(d, l) => recs[t].level < recs[type_at_level(d, l)].level
      <3> SUFFICES ASSUME t < type_at_level(d, l)
                   PROVE  recs[t].level < recs[type_at_level(d, l)].level
        OBVIOUS
      <3>1. t \in recs[type_at_level(d, l)].bases
        BY <1>1, <1>5, <2>2, Chains
      <3> QED
        BY <3>1, <2>2, <1>1, Chains DEF Tree
    <2>4. type_at_level(d, l) \in DOMAIN recs
      BY <1>1, <2>2, Chains
    <2> QED
      BY <1>1, <1>2, <1>4, <2>1, <2>2, <2>3, <2>4
  <1>6. ASSUME (IF l > recs[d].level THEN 0 ELSE type_at_level(d, l)) = t
        PROVE  t \in Chain(d)
    <2>1. type_at_level(d, l) = t
      BY <1>4, <1>6
    <2> QED
      BY <2>1, <1>1, <1>2, TypeAtLevel
  <1> QED
    BY <1>3, <1>5, <1>6

-----------------------------------------------------------------------------
(* What a step changes. *)

(* What is declared is kept, but for what a new method does to slots. *)
Keeps ==
    /\ DOMAIN recs \subseteq DOMAIN recs' /\ DOMAIN meths \subseteq DOMAIN meths'
    /\ \A r \in DOMAIN recs :
          /\ recs'[r].mod = recs[r].mod /\ recs'[r].base = recs[r].base
          /\ recs'[r].bases = recs[r].bases /\ recs'[r].impl = recs[r].impl
          /\ recs'[r].level = recs[r].level
    /\ \A i \in DOMAIN meths : meths'[i] = meths[i]

(* A declaration of a type-bound procedure. *)
Bound(m) ==
    /\ part = "procedures" /\ m.rec \in DOMAIN recs /\ recs[m.rec].mod = unit
    /\ \A i \in DOMAIN meths : meths[i].rec = m.rec => meths[i].name # m.name
    /\ m.expo \/ m.name \in Private
    /\ m \in Method
    /\ Len(meths') = Len(meths) + 1 /\ meths'[Len(meths) + 1] = m
    /\ DOMAIN meths' = 1 .. Len(meths) + 1
    /\ UNCHANGED <<unit, part, intfs, td, itab, news, made>>

LEMMA AppendMethod ==
    ASSUME TypeOK, NEW m \in Method, meths' = Append(meths, m)
    PROVE  /\ meths' \in Seq(Method)
           /\ Len(meths') = Len(meths) + 1 /\ meths'[Len(meths) + 1] = m
           /\ DOMAIN meths' = 1 .. Len(meths) + 1
           /\ \A i \in DOMAIN meths : meths'[i] = meths[i]
  <1>1. meths \in Seq(Method) /\ DOMAIN meths = 1 .. Len(meths) /\ Len(meths) \in Nat
    BY Types DEF TypeOK
  <1>2. Append(meths, m) \in Seq(Method) /\ Len(Append(meths, m)) = Len(meths) + 1
        /\ Append(meths, m)[Len(meths) + 1] = m
        /\ \A i \in 1 .. Len(meths) : Append(meths, m)[i] = meths[i]
    BY <1>1, AppendProperties
  <1> QED
    BY <1>1, <1>2, LenProperties

LEMMA InheritedFound ==
    ASSUME TypeOK, Tree, Declared, NEW r \in DOMAIN recs, NEW n,
           NEW bm, bm = Inherited(r, n)
    PROVE  /\ bm # 0 => /\ bm \in DOMAIN meths /\ meths[bm].name = n
                        /\ meths[bm].rec \in recs[r].bases
                        /\ \A j \in DOMAIN meths :
                              /\ meths[j].rec \in recs[r].bases
                              /\ meths[j].name = n /\ Visible(j)
                              => meths[j].rec <= meths[bm].rec
           /\ bm = 0 => \A j \in DOMAIN meths :
                           meths[j].rec \in recs[r].bases /\ meths[j].name = n => ~Visible(j)
  <1> DEFINE ids == { id \in Methods(recs[r].bases) : meths[id].name = n /\ Visible(id) }
  <1>1. ids \in SUBSET DOMAIN meths /\ bm = Nearest(ids)
    BY DEF Inherited, Methods
  <1>2. \A j \in DOMAIN meths : j \in ids <=> meths[j].rec \in recs[r].bases
                                             /\ meths[j].name = n /\ Visible(j)
    BY DEF Methods
  <1> HIDE DEF ids
  <1>3. CASE ids = {}
    BY <1>1, <1>2, <1>3, NearestFound
  <1>4. CASE ids # {}
    BY <1>1, <1>2, <1>4, NearestFound
  <1> QED
    BY <1>3, <1>4

(* A record type. *)
LEMMA RecordFacts ==
    ASSUME TypeOK, NEW base \in 0 .. Len(recs), NEW impl \in SUBSET DOMAIN intfs,
           RecordType(base, impl)
    PROVE  LET n == Len(recs) + 1 IN
           /\ recs' \in Seq(Record) /\ DOMAIN recs' = 1 .. n
           /\ \A r \in DOMAIN recs : recs'[r] = recs[r]
           /\ recs'[n] = [mod |-> unit, base |-> base, bases |-> Chain(base), impl |-> impl,
                          level |-> IF base = 0 THEN 0 ELSE recs[base].level + 1,
                          nofmeth |-> 0, mfixed |-> FALSE]
           /\ part = "types" /\ Keeps
           /\ UNCHANGED <<unit, part, intfs, meths, td, itab, news, made>>
  <1> DEFINE n == Len(recs) + 1
             e == [mod |-> unit, base |-> base, bases |-> Chain(base), impl |-> impl,
                   level |-> IF base = 0 THEN 0 ELSE recs[base].level + 1,
                   nofmeth |-> 0, mfixed |-> FALSE]
  <1>1. /\ recs' = Append(recs, e) /\ part = "types"
        /\ UNCHANGED <<unit, part, intfs, meths, td, itab, news, made>>
    BY DEF RecordType
  <1>2. e \in Record
    <2>1. Chain(base) \in SUBSET Nat
      BY Types DEF Chain, Record
    <2>2. (IF base = 0 THEN 0 ELSE recs[base].level + 1) \in Nat
      BY Types DEF Record
    <2>3. unit \in Nat /\ base \in Nat /\ impl \in SUBSET Nat
      BY Types DEF TypeOK
    <2> QED
      BY <2>1, <2>2, <2>3 DEF Record
  <1> HIDE DEF e
  <1>3. recs \in Seq(Record) /\ Len(recs) \in Nat /\ DOMAIN recs = 1 .. Len(recs)
    BY Types DEF TypeOK
  <1>4. recs' \in Seq(Record) /\ Len(recs') = n /\ recs'[n] = e
        /\ \A r \in 1 .. Len(recs) : recs'[r] = recs[r]
    BY <1>1, <1>2, <1>3, AppendProperties
  <1>5. DOMAIN recs' = 1 .. n
    BY <1>4, LenProperties
  <1>6. Keeps
    BY <1>1, <1>3, <1>4, <1>5 DEF Keeps
  <1> QED
    BY <1>1, <1>3, <1>4, <1>5, <1>6 DEF e

LEMMA OverrideFacts ==
    ASSUME TypeOK, Tree, Declared, NEW r \in DOMAIN recs, NEW n \in Name,
           NEW expo \in BOOLEAN, NEW sig \in Sig, Override(r, n, expo, sig)
    PROVE  \E m \in Method :
              LET bm == Inherited(r, n) IN
              /\ m = [rec |-> r, name |-> n, expo |-> expo, initf |-> FALSE,
                      slot |-> meths[bm].slot, sig |-> sig, over |-> bm]
              /\ bm # 0 /\ MethodSigMatch(sig, meths[bm].sig)
              /\ Bound(m) /\ Keeps /\ UNCHANGED recs /\ meths' \in Seq(Method)
  <1> DEFINE bm == Inherited(r, n)
             m == [rec |-> r, name |-> n, expo |-> expo, initf |-> FALSE,
                   slot |-> meths[bm].slot, sig |-> sig, over |-> bm]
  <1>1. /\ Heading(r, n, expo) /\ meths' = Append(meths, m)
        /\ bm # 0 /\ MethodSigMatch(sig, meths[bm].sig)
        /\ UNCHANGED <<unit, part, recs, intfs, td, itab, news, made>>
    BY DEF Override
  <1> HIDE DEF bm
  <1>2. bm \in DOMAIN meths
    BY <1>1, InheritedFound DEF bm
  <1>3. m \in Method
    BY <1>2, Types DEF Method
  <1>4. /\ part = "procedures" /\ recs[r].mod = unit /\ (expo \/ n \in Private)
        /\ \A i \in DOMAIN meths : meths[i].rec = r => meths[i].name # n
    BY <1>1 DEF Heading, Receivers, Methods
  <1>5. m.rec = r /\ m.name = n /\ m.expo = expo
    OBVIOUS
  <1> HIDE DEF m
  <1>6. /\ meths' \in Seq(Method)
        /\ Len(meths') = Len(meths) + 1 /\ meths'[Len(meths) + 1] = m
        /\ DOMAIN meths' = 1 .. Len(meths) + 1
        /\ \A i \in DOMAIN meths : meths'[i] = meths[i]
    BY <1>1, <1>3, AppendMethod
  <1>7. Bound(m)
    BY <1>1, <1>3, <1>4, <1>5, <1>6 DEF Bound
  <1>8. Keeps
    BY <1>1, <1>6, Types DEF Keeps
  <1>9. m = [rec |-> r, name |-> n, expo |-> expo, initf |-> FALSE,
             slot |-> meths[bm].slot, sig |-> sig, over |-> bm]
    BY DEF m
  <1> QED
    BY <1>1, <1>3, <1>6, <1>7, <1>8, <1>9 DEF bm

LEMMA NewMethodFacts ==
    ASSUME TypeOK, Tree, Declared, Slots, NEW r \in DOMAIN recs, NEW n \in Name,
           NEW expo \in BOOLEAN, NEW sig \in Sig, NewMethod(r, n, expo, sig)
    PROVE  \E m \in Method :
              LET slot == ORB_TotalMeths(r) IN
              /\ m = [rec |-> r, name |-> n, expo |-> expo, initf |-> FALSE,
                      slot |-> slot, sig |-> sig, over |-> 0]
              /\ Inherited(r, n) = 0 /\ ~recs[r].mfixed
              /\ Bound(m) /\ Keeps /\ meths' \in Seq(Method)
              /\ recs' \in Seq(Record) /\ DOMAIN recs' = DOMAIN recs
              /\ \A k \in DOMAIN recs :
                    /\ recs'[k].nofmeth = IF k = r THEN slot + 1 ELSE recs[k].nofmeth
                    /\ recs'[k].mfixed <=> (recs[k].mfixed \/ k \in recs[r].bases)
  <1> DEFINE slot == ORB_TotalMeths(r)
             m == [rec |-> r, name |-> n, expo |-> expo, initf |-> FALSE,
                   slot |-> slot, sig |-> sig, over |-> 0]
  <1>1. /\ Heading(r, n, expo) /\ meths' = Append(meths, m)
        /\ Inherited(r, n) = 0 /\ ~recs[r].mfixed
        /\ recs' = [k \in DOMAIN recs |->
                      [recs[k] EXCEPT !.nofmeth = IF k = r THEN slot + 1 ELSE @,
                                      !.mfixed  = @ \/ k \in recs[r].bases]]
        /\ UNCHANGED <<unit, part, intfs, td, itab, news, made>>
    BY DEF NewMethod, TakesSlot
  <1>2. slot \in Nat
    BY Total DEF Slots
  <1> HIDE DEF slot
  <1>3. m \in Method
    BY <1>2, Types DEF Method
  <1>4. /\ part = "procedures" /\ recs[r].mod = unit /\ (expo \/ n \in Private)
        /\ \A i \in DOMAIN meths : meths[i].rec = r => meths[i].name # n
    BY <1>1 DEF Heading, Receivers, Methods
  <1>5. m.rec = r /\ m.name = n /\ m.expo = expo
    OBVIOUS
  <1>6. m = [rec |-> r, name |-> n, expo |-> expo, initf |-> FALSE,
             slot |-> slot, sig |-> sig, over |-> 0]
    OBVIOUS
  <1> HIDE DEF m
  <1>7. /\ meths' \in Seq(Method)
        /\ Len(meths') = Len(meths) + 1 /\ meths'[Len(meths) + 1] = m
        /\ DOMAIN meths' = 1 .. Len(meths) + 1
        /\ \A i \in DOMAIN meths : meths'[i] = meths[i]
    BY <1>1, <1>3, AppendMethod
  <1>8. Bound(m)
    BY <1>1, <1>3, <1>4, <1>5, <1>7 DEF Bound
  <1>9. /\ DOMAIN recs' = DOMAIN recs
        /\ \A k \in DOMAIN recs :
              recs'[k] = [recs[k] EXCEPT !.nofmeth = IF k = r THEN slot + 1 ELSE @,
                                         !.mfixed  = @ \/ k \in recs[r].bases]
    BY <1>1
  <1>10. \A k \in DOMAIN recs :
            /\ recs'[k] \in Record
            /\ recs'[k].mod = recs[k].mod /\ recs'[k].base = recs[k].base
            /\ recs'[k].bases = recs[k].bases /\ recs'[k].impl = recs[k].impl
            /\ recs'[k].level = recs[k].level
            /\ recs'[k].nofmeth = IF k = r THEN slot + 1 ELSE recs[k].nofmeth
            /\ recs'[k].mfixed <=> (recs[k].mfixed \/ k \in recs[r].bases)
    <2> SUFFICES ASSUME NEW k \in DOMAIN recs
                 PROVE  /\ recs'[k] \in Record
                        /\ recs'[k].mod = recs[k].mod /\ recs'[k].base = recs[k].base
                        /\ recs'[k].bases = recs[k].bases /\ recs'[k].impl = recs[k].impl
                        /\ recs'[k].level = recs[k].level
                        /\ recs'[k].nofmeth = IF k = r THEN slot + 1 ELSE recs[k].nofmeth
                        /\ recs'[k].mfixed <=> (recs[k].mfixed \/ k \in recs[r].bases)
      OBVIOUS
    <2>1. recs[k] \in Record
      BY Types
    <2> DEFINE f == recs[k].mfixed \/ k \in recs[r].bases
               s == IF k = r THEN slot + 1 ELSE recs[k].nofmeth
    <2>2. f \in BOOLEAN /\ s \in Nat
      BY <1>2, <2>1 DEF Record
    <2>3. recs'[k] = [recs[k] EXCEPT !.nofmeth = s, !.mfixed = f]
      BY <1>9
    <2> HIDE DEF f, s
    <2>4. /\ recs'[k] \in Record
          /\ recs'[k].mod = recs[k].mod /\ recs'[k].base = recs[k].base
          /\ recs'[k].bases = recs[k].bases /\ recs'[k].impl = recs[k].impl
          /\ recs'[k].level = recs[k].level
          /\ recs'[k].nofmeth = s /\ recs'[k].mfixed = f
      BY <2>1, <2>2, <2>3 DEF Record
    <2> QED
      BY <2>4 DEF f, s
  <1>11. recs' \in Seq(Record)
    <2>1. DOMAIN recs' = 1 .. Len(recs) /\ Len(recs) \in Nat
      BY <1>9, Types
    <2>2. recs' \in [1 .. Len(recs) -> Record]
      BY <1>1, <1>10, <2>1
    <2> QED
      BY <2>1, <2>2, SeqDef
  <1>12. Keeps
    <2>0. DOMAIN meths = 1 .. Len(meths) /\ Len(meths) \in Nat
      BY Types
    <2>1. DOMAIN meths \subseteq DOMAIN meths' /\ DOMAIN recs \subseteq DOMAIN recs'
      <3>1. DOMAIN meths' = 1 .. Len(meths) + 1
        BY ONLY <1>7
      <3>2. DOMAIN recs' = DOMAIN recs
        BY ONLY <1>9
      <3> QED
        BY ONLY <2>0, <3>1, <3>2
    <2>2. \A k \in DOMAIN recs :
             /\ recs'[k].mod = recs[k].mod /\ recs'[k].base = recs[k].base
             /\ recs'[k].bases = recs[k].bases /\ recs'[k].impl = recs[k].impl
             /\ recs'[k].level = recs[k].level
      BY ONLY <1>10
    <2>3. \A i \in DOMAIN meths : meths'[i] = meths[i]
      BY ONLY <1>7
    <2> QED
      BY ONLY <2>1, <2>2, <2>3 DEF Keeps
  <1> QED
    BY <1>1, <1>3, <1>6, <1>7, <1>8, <1>9, <1>10, <1>11, <1>12 DEF slot

(* An initialiser. *)
LEMMA GoverningFacts ==
    ASSUME TypeOK, Tree, NEW r, r = 0 \/ r \in DOMAIN recs, NEW id \in Governing(r)
    PROVE  /\ id \in DOMAIN meths /\ meths[id].initf /\ meths[id].rec \in Chain(r)
           /\ \A i \in DOMAIN meths : meths[i].initf /\ meths[i].rec \in Chain(r)
                 => meths[i].rec <= meths[id].rec
  BY DEF Governing, Methods, Declaring, DeclaresInit

LEMMA ThisInit ==
    ASSUME NEW r, NEW n, thisinit(r, n) # 0
    PROVE  thisinit(r, n) \in Governing(r)
  BY DEF thisinit, Found

LEMMA InitFacts ==
    ASSUME TypeOK, Tree, Declared, NEW r \in DOMAIN recs, NEW n \in InitName,
           NEW expo \in BOOLEAN, NEW sig \in Sig,
           NEW over \in 0 .. Len(meths), BindInit(r, n, expo, sig, over)
    PROVE  \E m \in Method :
              /\ m = [rec |-> r, name |-> n, expo |-> expo, initf |-> TRUE,
                      slot |-> -1, sig |-> sig, over |-> over]
              /\ over = 0 => \A b \in Governing(recs[r].base) : ~Visible(b)
              /\ over # 0 => over \in Governing(recs[r].base)
              /\ InOrder => /\ \A k \in DOMAIN recs : r \in recs[k].bases => ~DeclaresInit(k)
                            /\ \A id \in DOMAIN meths :
                                  r \in recs[meths[id].rec].bases => meths[id].name # n
              /\ Bound(m) /\ Keeps /\ UNCHANGED recs /\ meths' \in Seq(Method)
  <1> DEFINE m == [rec |-> r, name |-> n, expo |-> expo, initf |-> TRUE,
                   slot |-> -1, sig |-> sig, over |-> over]
  <1>1. /\ Heading(r, n, expo) /\ meths' = Append(meths, m)
        /\ InOrder => \A id \in DOMAIN meths :
              r \in recs[meths[id].rec].bases => ~meths[id].initf /\ meths[id].name # n
        /\ UNCHANGED <<unit, part, recs, intfs, td, itab, news, made>>
    BY DEF BindInit
  <1>2. IF ORB_HasVisibleInits(recs[r].base)
        THEN over \in { thisinit(recs[r].base, k) : k \in InitName } \ {0}
        ELSE over = 0
    BY DEF BindInit
  <1>3. over = 0 => \A b \in Governing(recs[r].base) : ~Visible(b)
    BY <1>2 DEF ORB_HasVisibleInits
  <1>4. over # 0 => over \in Governing(recs[r].base)
    BY <1>2, ThisInit
  <1>5. m \in Method
    BY Types DEF Method
  <1>6. /\ part = "procedures" /\ recs[r].mod = unit /\ (expo \/ n \in Private)
        /\ \A i \in DOMAIN meths : meths[i].rec = r => meths[i].name # n
    BY <1>1 DEF Heading, Receivers, Methods
  <1>7. m.rec = r /\ m.name = n /\ m.expo = expo
    OBVIOUS
  <1>8. m = [rec |-> r, name |-> n, expo |-> expo, initf |-> TRUE,
             slot |-> -1, sig |-> sig, over |-> over]
    OBVIOUS
  <1> HIDE DEF m
  <1>9. /\ meths' \in Seq(Method)
        /\ Len(meths') = Len(meths) + 1 /\ meths'[Len(meths) + 1] = m
        /\ DOMAIN meths' = 1 .. Len(meths) + 1
        /\ \A i \in DOMAIN meths : meths'[i] = meths[i]
    BY <1>1, <1>5, AppendMethod
  <1>10. Bound(m)
    BY <1>1, <1>5, <1>6, <1>7, <1>9 DEF Bound
  <1>11. Keeps
    BY <1>1, <1>9, Types DEF Keeps
  <1>12. InOrder => /\ \A k \in DOMAIN recs : r \in recs[k].bases => ~DeclaresInit(k)
                    /\ \A id \in DOMAIN meths :
                          r \in recs[meths[id].rec].bases => meths[id].name # n
    BY <1>1 DEF DeclaresInit, Methods
  <1> QED
    BY <1>1, <1>3, <1>4, <1>5, <1>8, <1>9, <1>10, <1>11, <1>12

(* Indices of the members that an inclusion adds. *)
LEMMA Included ==
    ASSUME NEW slot \in Nat, NEW fresh \in SUBSET [name : Member, sig : Sig, val : Nat],
           IsFiniteSet(fresh)
    PROVE  /\ Cardinality(fresh) \in Nat
           /\ \A m \in fresh :
                 /\ Include(slot, fresh, m).name = m.name
                 /\ Include(slot, fresh, m).sig = m.sig
                 /\ Include(slot, fresh, m).val \in slot .. slot + Cardinality(fresh) - 1
                 /\ Include(slot, fresh, m) \in [name : Member, sig : Sig, val : Nat]
           /\ \A m, q \in fresh : m.val < q.val =>
                 Include(slot, fresh, m).val < Include(slot, fresh, q).val
           /\ IsFiniteSet({ Include(slot, fresh, m) : m \in fresh })
  <1> DEFINE Below(m) == { q \in fresh : q.val < m.val }
  <1>1. Cardinality(fresh) \in Nat
    BY FS_CardinalityType
  <1>2. ASSUME NEW m \in fresh
        PROVE  /\ IsFiniteSet(Below(m)) /\ Cardinality(Below(m)) \in Nat
               /\ Cardinality(Below(m)) < Cardinality(fresh)
    <2>1. Below(m) \in SUBSET fresh /\ m \notin Below(m)
      OBVIOUS
    <2> HIDE DEF Below
    <2>2. /\ IsFiniteSet(Below(m)) /\ Cardinality(Below(m)) <= Cardinality(fresh)
          /\ Cardinality(fresh) = Cardinality(Below(m)) => fresh = Below(m)
      BY <2>1, FS_Subset
    <2>3. Cardinality(Below(m)) \in Nat
      BY <2>2, FS_CardinalityType
    <2> QED
      BY <1>1, <2>1, <2>2, <2>3
  <1>3. ASSUME NEW m \in fresh, NEW q \in fresh, m.val < q.val
        PROVE  Cardinality(Below(m)) < Cardinality(Below(q))
    <2>1. Below(m) \in SUBSET Below(q) /\ m \in Below(q) /\ m \notin Below(m)
      BY <1>3
    <2>2. /\ IsFiniteSet(Below(q)) /\ Cardinality(Below(q)) \in Nat
          /\ Cardinality(Below(m)) \in Nat
      BY <1>2
    <2> HIDE DEF Below
    <2>3. /\ Cardinality(Below(m)) <= Cardinality(Below(q))
          /\ Cardinality(Below(q)) = Cardinality(Below(m)) => Below(q) = Below(m)
      BY <2>1, <2>2, FS_Subset
    <2> QED
      BY <2>1, <2>2, <2>3
  <1>4. \A m \in fresh : Include(slot, fresh, m) = [m EXCEPT !.val = slot + Cardinality(Below(m))]
    BY DEF Include
  <1> HIDE DEF Below
  <1>5. \A m \in fresh :
           /\ Include(slot, fresh, m).name = m.name
           /\ Include(slot, fresh, m).sig = m.sig
           /\ Include(slot, fresh, m).val = slot + Cardinality(Below(m))
           /\ Include(slot, fresh, m) \in [name : Member, sig : Sig, val : Nat]
    BY <1>2, <1>4
  <1>6. IsFiniteSet({ Include(slot, fresh, m) : m \in fresh })
    <2> DEFINE T == { Include(slot, fresh, m) : m \in fresh }
               f == [m \in fresh |-> Include(slot, fresh, m)]
    <2>1. f \in Surjection(fresh, T)
      BY DEF Surjection
    <2> QED
      BY <2>1, FS_Surjection
  <1> QED
    BY <1>1, <1>2, <1>3, <1>5, <1>6

(* The interface that is being read. *)
LEMMA IncludeFacts ==
    ASSUME TypeOK, NEW j \in DOMAIN intfs, IncludeInterface(j)
    PROVE  LET this  == intfs[This]
               fresh == { m \in intfs[j].meth : \A q \in this.meth : q.name # m.name }
           IN /\ part = "interface" /\ This \in DOMAIN intfs /\ j # This /\ IsFiniteSet(fresh)
              /\ \A m \in intfs[j].meth, q \in this.meth :
                    q.name = m.name => q.sig.par = m.sig.par
              /\ intfs' \in Seq(Interface) /\ DOMAIN intfs' = DOMAIN intfs
              /\ Len(intfs') = Len(intfs)
              /\ \A i \in DOMAIN intfs : i # This => intfs'[i] = intfs[i]
              /\ intfs'[This].meth = this.meth
                                     \cup { Include(this.nofmeth, fresh, m) : m \in fresh }
              /\ intfs'[This].nofmeth = this.nofmeth + Cardinality(fresh)
              /\ intfs'[This].incl = this.incl \cup intfs[j].incl
              /\ IsFiniteSet(intfs'[This].meth)
              /\ UNCHANGED <<unit, part, recs, meths, td, itab, news, made>>
  <1> DEFINE this  == intfs[This]
             fresh == { m \in intfs[j].meth : \A q \in this.meth : q.name # m.name }
             e     == [meth    |-> this.meth
                                   \cup { Include(this.nofmeth, fresh, m) : m \in fresh },
                       nofmeth |-> this.nofmeth + Cardinality(fresh),
                       incl    |-> this.incl \cup intfs[j].incl]
  <1>1. /\ part = "interface" /\ j # This
        /\ \A m \in intfs[j].meth, q \in this.meth : q.name = m.name => q.sig.par = m.sig.par
        /\ intfs' = [intfs EXCEPT ![This] = e]
        /\ UNCHANGED <<unit, part, recs, meths, td, itab, news, made>>
    BY DEF IncludeInterface, EqualSignatures
  <1>2. /\ This \in 1 .. Len(intfs) /\ DOMAIN intfs = 1 .. Len(intfs)
        /\ intfs \in Seq(Interface)
    BY <1>1, Types, EmptySeq DEF TypeOK, This
  <1>3. this \in Interface /\ intfs[j] \in Interface
    BY <1>2, Types
  <1>4. fresh \in SUBSET [name : Member, sig : Sig, val : Nat] /\ fresh \subseteq intfs[j].meth
    BY <1>3 DEF Interface
  <1>5. IsFiniteSet(intfs[j].meth) /\ IsFiniteSet(this.meth)
    BY <1>2 DEF TypeOK
  <1> HIDE DEF fresh
  <1>6. IsFiniteSet(fresh)
    BY <1>4, <1>5, FS_Subset
  <1>7. this.nofmeth \in Nat
    BY <1>3 DEF Interface
  <1> DEFINE new == { Include(this.nofmeth, fresh, m) : m \in fresh }
  <1>8. /\ new \subseteq [name : Member, sig : Sig, val : Nat]
        /\ Cardinality(fresh) \in Nat /\ IsFiniteSet(new)
    BY <1>4, <1>6, <1>7, Included
  <1> HIDE DEF new
  <1>9. e = [meth |-> this.meth \cup new, nofmeth |-> this.nofmeth + Cardinality(fresh),
             incl |-> this.incl \cup intfs[j].incl]
    BY DEF new
  <1> HIDE DEF e
  <1>10. e \in Interface
    BY <1>3, <1>8, <1>9 DEF Interface
  <1>11. /\ intfs' \in Seq(Interface) /\ Len(intfs') = Len(intfs)
         /\ \A i \in 1 .. Len(intfs) : intfs'[i] = IF i = This THEN e ELSE intfs[i]
    BY <1>1, <1>2, <1>10, ExceptSeq
  <1>12. DOMAIN intfs' = DOMAIN intfs
    BY <1>2, <1>11, LenProperties
  <1>13. IsFiniteSet(this.meth \cup new)
    BY <1>5, <1>8, FS_Union
  <1> QED
    BY <1>1, <1>2, <1>6, <1>9, <1>11, <1>12, <1>13 DEF fresh, new

LEMMA RequireFacts ==
    ASSUME TypeOK, NEW n \in Member, NEW sig \in Sig, Require(n, sig)
    PROVE  LET this == intfs[This] IN
           /\ part = "interface" /\ This \in DOMAIN intfs
           /\ \A q \in this.meth : q.name # n
           /\ intfs' \in Seq(Interface) /\ DOMAIN intfs' = DOMAIN intfs
           /\ Len(intfs') = Len(intfs)
           /\ \A i \in DOMAIN intfs : i # This => intfs'[i] = intfs[i]
           /\ intfs'[This].meth =
                 this.meth \cup {[name |-> n, sig |-> sig, val |-> this.nofmeth]}
           /\ intfs'[This].nofmeth = this.nofmeth + 1
           /\ intfs'[This].incl = this.incl
           /\ IsFiniteSet(intfs'[This].meth)
           /\ UNCHANGED <<unit, part, recs, meths, td, itab, news, made>>
  <1> DEFINE this == intfs[This]
             e    == [this EXCEPT
                        !.meth    = @ \cup {[name |-> n, sig |-> sig, val |-> this.nofmeth]},
                        !.nofmeth = @ + 1]
  <1>1. /\ part = "interface" /\ \A q \in this.meth : q.name # n
        /\ intfs' = [intfs EXCEPT ![This] = e]
        /\ UNCHANGED <<unit, part, recs, meths, td, itab, news, made>>
    BY DEF Require
  <1>2. /\ This \in 1 .. Len(intfs) /\ DOMAIN intfs = 1 .. Len(intfs)
        /\ intfs \in Seq(Interface)
    BY <1>1, Types, EmptySeq DEF TypeOK, This
  <1>3. this \in Interface /\ IsFiniteSet(this.meth)
    BY <1>2, Types DEF TypeOK
  <1> HIDE DEF this
  <1> DEFINE q == [name |-> n, sig |-> sig, val |-> this.nofmeth]
  <1>4. /\ e \in Interface /\ e.meth = this.meth \cup {q}
        /\ e.nofmeth = this.nofmeth + 1 /\ e.incl = this.incl
    <2>1. q \in [name : Member, sig : Sig, val : Nat]
      BY <1>3 DEF Interface
    <2> HIDE DEF q
    <2> DEFINE M == this.meth \cup {q}
               k == this.nofmeth + 1
    <2>2. e = [this EXCEPT !.meth = M, !.nofmeth = k]
      BY <1>3 DEF q
    <2>3. M \in SUBSET [name : Member, sig : Sig, val : Nat] /\ k \in Nat
      BY <1>3, <2>1 DEF Interface
    <2> HIDE DEF e, M, k
    <2>4. e \in Interface /\ e.meth = M /\ e.nofmeth = k /\ e.incl = this.incl
      BY <1>3, <2>2, <2>3 DEF Interface
    <2> QED
      BY <2>4 DEF M, k
  <1> HIDE DEF e, q
  <1>5. /\ intfs' \in Seq(Interface) /\ Len(intfs') = Len(intfs)
        /\ \A i \in 1 .. Len(intfs) : intfs'[i] = IF i = This THEN e ELSE intfs[i]
    BY <1>1, <1>2, <1>4, ExceptSeq
  <1>6. DOMAIN intfs' = DOMAIN intfs
    BY <1>2, <1>5, LenProperties
  <1>7. IsFiniteSet(e.meth)
    <2>1. IsFiniteSet({q})
      BY FS_Singleton
    <2>2. IsFiniteSet(this.meth \cup {q})
      BY <1>3, <2>1, FS_Union
    <2>3. e.meth = this.meth \cup {q}
      BY <1>4
    <2> QED
      BY ONLY <2>2, <2>3
  <1> QED
    BY <1>1, <1>2, <1>4, <1>5, <1>6, <1>7 DEF this, q

LEMMA InterfaceFacts ==
    ASSUME TypeOK, InterfaceType
    PROVE  LET n == Len(intfs) + 1 IN
           /\ part = "types" /\ part' = "interface"
           /\ intfs' \in Seq(Interface) /\ DOMAIN intfs' = 1 .. n /\ Len(intfs') = n
           /\ \A i \in DOMAIN intfs : intfs'[i] = intfs[i]
           /\ intfs'[n] = [meth |-> {}, nofmeth |-> 0, incl |-> {n}]
           /\ \A i \in DOMAIN intfs' : IsFiniteSet(intfs'[i].meth)
           /\ intfs' # << >>
           /\ UNCHANGED <<unit, recs, meths, td, itab, news, made>>
  <1> DEFINE n == Len(intfs) + 1
             e == [meth |-> {}, nofmeth |-> 0, incl |-> {n}]
  <1>1. /\ part = "types" /\ part' = "interface" /\ intfs' = Append(intfs, e)
        /\ UNCHANGED <<unit, recs, meths, td, itab, news, made>>
    BY DEF InterfaceType
  <1>2. intfs \in Seq(Interface) /\ DOMAIN intfs = 1 .. Len(intfs) /\ Len(intfs) \in Nat
    BY Types DEF TypeOK
  <1>3. e \in Interface
    BY <1>2 DEF Interface
  <1>4. e.meth = {}
    OBVIOUS
  <1> HIDE DEF e
  <1>5. /\ intfs' \in Seq(Interface) /\ Len(intfs') = n /\ intfs'[n] = e
        /\ \A i \in 1 .. Len(intfs) : intfs'[i] = intfs[i]
    BY <1>1, <1>2, <1>3, AppendProperties
  <1>6. DOMAIN intfs' = 1 .. n
    BY <1>5, LenProperties
  <1>7. \A i \in 1 .. n : IsFiniteSet(intfs'[i].meth)
    <2> SUFFICES ASSUME NEW i \in 1 .. n PROVE IsFiniteSet(intfs'[i].meth)
      OBVIOUS
    <2>1. CASE i = n
      BY <2>1, <1>4, <1>5, FS_EmptySet
    <2>2. CASE i # n
      <3>1. i \in DOMAIN intfs /\ intfs'[i] = intfs[i]
        BY <2>2, <1>2, <1>5
      <3> QED
        BY <3>1 DEF TypeOK
    <2> QED
      BY <2>1, <2>2
  <1>8. intfs' # << >>
    BY <1>2, <1>5, EmptySeq
  <1> QED
    BY <1>1, <1>2, <1>5, <1>6, <1>7, <1>8 DEF e

-----------------------------------------------------------------------------
(* Slots, step by step.  *)

(* Steps that declare no record and no procedure, and finish no unit. *)
Uses == \/ InterfaceType
        \/ \E j \in DOMAIN intfs : IncludeInterface(j)
        \/ \E n \in Member, sig \in Sig : Require(n, sig)
        \/ EndInterface \/ Procedures \/ Begin
        \/ \E r \in DOMAIN recs, i \in DOMAIN intfs : ORG_PtrToIface(r, i)
        \/ \E r \in DOMAIN recs : New(r)
        \/ \E r \in DOMAIN recs, n \in InitName : ConstructorCall(r, n)
        \/ UNCHANGED vars

LEMMA UsesKeep == ASSUME TypeOK, Tree, Uses PROVE TypeOK' /\ UNCHANGED <<unit, recs, meths, td>>
  <1>1. CASE InterfaceType
    <2> QED
      BY <1>1, InterfaceFacts, Types DEF TypeOK
  <1>2. CASE \E j \in DOMAIN intfs : IncludeInterface(j)
    <2>1. PICK j \in DOMAIN intfs : IncludeInterface(j)
      BY <1>2
    <2>2. /\ intfs' \in Seq(Interface) /\ DOMAIN intfs' = DOMAIN intfs
          /\ Len(intfs') = Len(intfs)
          /\ \A i \in DOMAIN intfs : i # This => intfs'[i] = intfs[i]
          /\ IsFiniteSet(intfs'[This].meth) /\ part = "interface"
          /\ UNCHANGED <<unit, part, recs, meths, td, itab, news, made>>
      BY <2>1, IncludeFacts
    <2>3. \A i \in DOMAIN intfs' : IsFiniteSet(intfs'[i].meth)
      BY <2>2 DEF TypeOK
    <2>4. intfs' # << >>
      BY <2>2, Types, EmptySeq DEF TypeOK
    <2> QED
      BY <2>2, <2>3, <2>4 DEF TypeOK
  <1>3. CASE \E n \in Member, sig \in Sig : Require(n, sig)
    <2>1. PICK n \in Member, sig \in Sig : Require(n, sig)
      BY <1>3
    <2>2. /\ intfs' \in Seq(Interface) /\ DOMAIN intfs' = DOMAIN intfs
          /\ Len(intfs') = Len(intfs)
          /\ \A i \in DOMAIN intfs : i # This => intfs'[i] = intfs[i]
          /\ IsFiniteSet(intfs'[This].meth) /\ part = "interface"
          /\ UNCHANGED <<unit, part, recs, meths, td, itab, news, made>>
      BY <2>1, RequireFacts
    <2>3. \A i \in DOMAIN intfs' : IsFiniteSet(intfs'[i].meth)
      BY <2>2 DEF TypeOK
    <2>4. intfs' # << >>
      BY <2>2, Types, EmptySeq DEF TypeOK
    <2> QED
      BY <2>2, <2>3, <2>4 DEF TypeOK
  <1>4. CASE EndInterface \/ Procedures \/ Begin
    BY <1>4 DEF EndInterface, Procedures, Begin, TypeOK
  <1>5. CASE \E r \in DOMAIN recs, i \in DOMAIN intfs : ORG_PtrToIface(r, i)
    <2>1. PICK r \in DOMAIN recs, i \in DOMAIN intfs : ORG_PtrToIface(r, i)
      BY <1>5
    <2>2. /\ DOMAIN itab' = DOMAIN itab \cup {<< unit, r, i >>}
          /\ UNCHANGED <<unit, part, recs, intfs, meths, td, news, made>>
      BY <2>1 DEF ORG_PtrToIface
    <2> QED
      BY <2>2 DEF TypeOK
  <1>6. CASE \E r \in DOMAIN recs : New(r)
    BY <1>6 DEF New, TypeOK
  <1>7. CASE \E r \in DOMAIN recs, n \in InitName : ConstructorCall(r, n)
    <2>1. PICK r \in DOMAIN recs, n \in InitName : ConstructorCall(r, n)
      BY <1>7
    <2>2. /\ made' = made \cup {<< r, thisinit(r, n) >>} /\ thisinit(r, n) # 0
          /\ UNCHANGED <<unit, part, recs, intfs, meths, td, itab, news>>
      BY <2>1 DEF ConstructorCall
    <2>3. thisinit(r, n) \in DOMAIN meths
      BY <2>2, ThisInit, GoverningFacts
    <2> QED
      BY <2>2, <2>3 DEF TypeOK
  <1>8. CASE UNCHANGED vars
    BY <1>8 DEF vars, TypeOK
  <1> QED
    BY <1>1, <1>2, <1>3, <1>4, <1>5, <1>6, <1>7, <1>8 DEF Uses

(* Chains stay as they are. *)
LEMMA ChainsKept ==
    ASSUME Keeps, NEW r, r = 0 \/ r \in DOMAIN recs
    PROVE  Chain(r)' = Chain(r)
  BY DEF Keeps, Chain

(* So do the methods of a chain, if the step declares none for it. *)
LEMMA MethodsKept ==
    ASSUME Keeps, NEW rs,
           \A i \in DOMAIN meths' : i \notin DOMAIN meths => meths'[i].rec \notin rs
    PROVE  Methods(rs)' = Methods(rs)
  BY DEF Methods, Keeps

LEMMA DescriptorKept ==
    ASSUME TypeOK, Tree, Keeps, NEW d \in DOMAIN recs,
           \A k \in Chain(d) : recs'[k].nofmeth = recs[k].nofmeth,
           \A i \in DOMAIN meths' : i \notin DOMAIN meths => meths'[i].rec \notin Chain(d)
    PROVE  finalize_tds(d)' = finalize_tds(d)
  <1>1. Chain(d)' = Chain(d) /\ Chain(d) \subseteq DOMAIN recs
    BY ChainsKept, Chains
  <1>2. Methods(Chain(d))' = Methods(Chain(d))
    BY <1>1 DEF Methods, Keeps
  <1>3. \A k \in Chain(d) : recs'[k].level = recs[k].level /\ recs'[d].level = recs[d].level
    BY <1>1 DEF Keeps
  <1>4. ORB_TotalMeths(d)' = ORB_TotalMeths(d)
    <2>1. { recs'[k].nofmeth : k \in Chain(d)' } = { recs[k].nofmeth : k \in Chain(d) }
      BY <1>1
    <2> QED
      BY <2>1 DEF ORB_TotalMeths
  <1>5. \A l \in Nat : type_at_level(d, l)' = type_at_level(d, l)
    <2> SUFFICES ASSUME NEW l \in Nat PROVE type_at_level(d, l)' = type_at_level(d, l)
      OBVIOUS
    <2>1. { k \in Chain(d)' : recs'[k].level <= l } = { k \in Chain(d) : recs[k].level <= l }
      BY <1>1, <1>3
    <2> QED
      BY <2>1 DEF type_at_level, NearestRecord
  <1>6. Vtable(d)' = Vtable(d)
    <2> DEFINE slots(k) == { id \in Methods(Chain(d)) : meths[id].slot = k }
               found(k) == { i \in slots(k) : \A j \in slots(k) \ {i} : Before(i, j) }
    <2>1. \A k : slots(k)' = slots(k)
      BY <1>2 DEF Methods, Keeps
    <2>2. \A i, j \in Methods(Chain(d)) : Before(i, j)' <=> Before(i, j)
      BY DEF Methods, Keeps, Before
    <2>3. \A k : slots(k) \subseteq Methods(Chain(d))
      OBVIOUS
    <2>4. /\ Vtable(d)  = [k \in 0 .. ORB_TotalMeths(d) - 1 |-> Found(found(k))]
          /\ Vtable(d)' = [k \in 0 .. ORB_TotalMeths(d)' - 1 |-> Found(found(k)')]
      BY DEF Vtable, Nearest
    <2> HIDE DEF slots
    <2>5. \A k : found(k)' = found(k)
      BY <2>1, <2>2, <2>3
    <2> HIDE DEF found
    <2> QED
      BY <1>4, <2>4, <2>5
  <1> QED
    BY <1>3, <1>5, <1>6, ClassesAssumption, Chains DEF finalize_tds

LEMMA UsesSlots == SlotsInv /\ Uses => SlotsInv'
  <1> SUFFICES ASSUME SlotsInv, Uses PROVE SlotsInv'
    OBVIOUS
  <1>1. TypeOK' /\ UNCHANGED <<unit, recs, meths, td>>
    BY UsesKeep DEF SlotsInv
  <1>2. Tree'
    BY <1>1 DEF SlotsInv, Tree, Chain
  <1>3. Declared'
    BY <1>1 DEF SlotsInv, Declared, Chain
  <1>4. Slots'
    BY <1>1 DEF SlotsInv, Slots, First, Chain
  <1>5. Descriptors'
    <2>1. Keeps /\ DOMAIN meths' = DOMAIN meths
      BY <1>1 DEF Keeps
    <2>2. \A d \in DOMAIN td : d \in DOMAIN recs /\ td[d] = finalize_tds(d)
      BY DEF SlotsInv, Descriptors
    <2>3. \A d \in DOMAIN recs : finalize_tds(d)' = finalize_tds(d)
      BY <1>1, <2>1, DescriptorKept DEF SlotsInv
    <2> QED
      BY <1>1, <2>2, <2>3 DEF SlotsInv, Descriptors
  <1> QED
    BY <1>1, <1>2, <1>3, <1>4, <1>5 DEF SlotsInv

LEMMA TreeKept ==
    ASSUME TypeOK, Tree, Keeps, DOMAIN recs' = DOMAIN recs, unit' \in Nat, unit <= unit'
    PROVE  Tree'
  <1>1. \A r \in DOMAIN recs : Chain(r)' = Chain(r) /\ Chain(r) \subseteq DOMAIN recs
    BY ChainsKept, Chains
  <1>2. \A r \in DOMAIN recs : /\ recs[r].base = 0 \/ recs[r].base \in DOMAIN recs
                               /\ recs[r].mod \in Nat /\ recs[r].bases \subseteq DOMAIN recs
    <2> SUFFICES ASSUME NEW r \in DOMAIN recs
                 PROVE  /\ recs[r].base = 0 \/ recs[r].base \in DOMAIN recs
                        /\ recs[r].mod \in Nat /\ recs[r].bases \subseteq DOMAIN recs
      OBVIOUS
    <2>1. recs[r].base \in Nat /\ recs[r].base < r /\ recs[r].mod \in Nat
      BY Types DEF Tree, Record
    <2> QED
      BY <2>1, Types, Chains
  <1>3. \A r \in DOMAIN recs : Chain(recs[r].base)' = Chain(recs[r].base)
    BY <1>2, ChainsKept DEF Keeps, Chain
  <1> SUFFICES ASSUME NEW r \in DOMAIN recs
               PROVE  /\ recs'[r].base < r /\ recs'[r].bases = Chain(recs[r].base)'
                      /\ recs'[r].bases \subseteq 1 .. r - 1
                      /\ recs'[r].mod <= unit'
                      /\ \A k \in recs'[r].bases : /\ recs'[k].bases \subseteq recs'[r].bases
                                                  /\ recs'[k].mod <= recs'[r].mod
                                                  /\ recs'[k].level < recs'[r].level
                      /\ \A j, k \in recs'[r].bases : j < k => j \in recs'[k].bases
                      /\ \E k \in Chain(r)' : recs'[k].level = 0
    BY DEF Tree
  <1>4. /\ recs'[r].base = recs[r].base /\ recs'[r].bases = recs[r].bases
        /\ recs'[r].mod = recs[r].mod /\ recs'[r].level = recs[r].level
        /\ \A k \in DOMAIN recs : /\ recs'[k].bases = recs[k].bases
                                  /\ recs'[k].mod = recs[k].mod
                                  /\ recs'[k].level = recs[k].level
    BY DEF Keeps
  <1>5. unit \in Nat
    BY DEF TypeOK
  <1>6. /\ recs[r].base < r /\ recs[r].bases = Chain(recs[r].base)
        /\ recs[r].bases \subseteq 1 .. r - 1 /\ recs[r].mod <= unit
        /\ \A k \in recs[r].bases : /\ recs[k].bases \subseteq recs[r].bases
                                    /\ recs[k].mod <= recs[r].mod
                                    /\ recs[k].level < recs[r].level
        /\ \A j, k \in recs[r].bases : j < k => j \in recs[k].bases
        /\ \E k \in Chain(r) : recs[k].level = 0
    BY DEF Tree
  <1>7. recs[r].mod <= unit'
    BY <1>2, <1>5, <1>6
  <1>8. \E k \in Chain(r)' : recs'[k].level = 0
    BY <1>1, <1>4, <1>6
  <1>9. recs[r].bases \subseteq DOMAIN recs
    BY <1>2
  <1> QED
    BY <1>3, <1>4, <1>6, <1>7, <1>8, <1>9

LEMMA RecordTree ==
    ASSUME TypeOK, Tree, NEW base \in 0 .. Len(recs), NEW impl \in SUBSET DOMAIN intfs,
           RecordType(base, impl)
    PROVE  Tree'
  <1>0. PICK n : n = Len(recs) + 1
    OBVIOUS
  <1>1. /\ DOMAIN recs' = 1 .. n /\ unit' = unit /\ Keeps
        /\ \A r \in DOMAIN recs : recs'[r] = recs[r]
        /\ recs'[n].mod = unit /\ recs'[n].base = base /\ recs'[n].bases = Chain(base)
        /\ recs'[n].level = IF base = 0 THEN 0 ELSE recs[base].level + 1
    <2>1. /\ DOMAIN recs' = 1 .. n /\ unit' = unit /\ Keeps
          /\ \A r \in DOMAIN recs : recs'[r] = recs[r]
          /\ recs'[n] = [mod |-> unit, base |-> base, bases |-> Chain(base), impl |-> impl,
                         level |-> IF base = 0 THEN 0 ELSE recs[base].level + 1,
                         nofmeth |-> 0, mfixed |-> FALSE]
      BY <1>0, RecordFacts
    <2> QED
      BY ONLY <2>1
  <1>2. /\ Len(recs) \in Nat /\ DOMAIN recs = 1 .. Len(recs) /\ unit \in Nat
        /\ \A r \in DOMAIN recs : recs[r].level \in Nat /\ recs[r].mod \in Nat
    BY Types DEF TypeOK, Record
  <1>3. base = 0 \/ base \in DOMAIN recs
    BY <1>2
  <1>4. /\ Chain(base) \subseteq 1 .. base /\ Chain(base) \subseteq DOMAIN recs
        /\ \A k \in Chain(base) : recs[k].bases \subseteq Chain(base)
        /\ \A k \in Chain(base) : recs[k].level <= recs[base].level
        /\ \A j, k \in Chain(base) : j < k => j \in recs[k].bases
        /\ base # 0 => \E k \in Chain(base) : recs[k].level = 0
    <2>1. CASE base = 0
      BY <2>1 DEF Chain
    <2>2. CASE base \in DOMAIN recs
      <3>1. /\ Chain(base) \subseteq 1 .. base /\ Chain(base) \subseteq DOMAIN recs
            /\ Chain(base) = {base} \cup recs[base].bases
            /\ \A k \in Chain(base) : Chain(k) \subseteq Chain(base)
            /\ \A j, k \in Chain(base) : j < k => j \in recs[k].bases
        BY <2>2, Chains
      <3>2. \A k \in Chain(base) : recs[k].bases \subseteq Chain(k)
        BY <3>1, Chains
      <3>3. \A k \in Chain(base) : recs[k].level <= recs[base].level
        <4> SUFFICES ASSUME NEW k \in Chain(base) PROVE recs[k].level <= recs[base].level
          OBVIOUS
        <4>1. k # base => recs[k].level < recs[base].level
          BY <2>2, <3>1 DEF Tree
        <4> QED
          BY <1>2, <2>2, <3>1, <4>1
      <3>4. \E k \in Chain(base) : recs[k].level = 0
        BY <2>2 DEF Tree
      <3> QED
        BY <3>1, <3>2, <3>3, <3>4
    <2> QED
      BY <1>3, <2>1, <2>2
  <1>5. Chain(base)' = Chain(base) /\ Chain(n)' = {n} \cup Chain(base)
    <2>1. Chain(base)' = Chain(base)
      BY <1>1, <1>3, ChainsKept
    <2>2. Chain(n)' = {n} \cup recs'[n].bases
      BY <1>0, <1>2 DEF Chain
    <2> QED
      BY <1>1, <2>1, <2>2
  <1> DEFINE Good(r) ==
        /\ recs[r].base < r /\ recs[r].bases = Chain(recs[r].base)
        /\ recs[r].bases \subseteq 1 .. r - 1
        /\ recs[r].mod <= unit
        /\ \A k \in recs[r].bases : /\ recs[k].bases \subseteq recs[r].bases
                                    /\ recs[k].mod <= recs[r].mod
                                    /\ recs[k].level < recs[r].level
        /\ \A j, k \in recs[r].bases : j < k => j \in recs[k].bases
        /\ \E k \in Chain(r) : recs[k].level = 0
  <1>6. Tree <=> \A r \in DOMAIN recs : Good(r)
    BY DEF Tree
  <1>7. Tree' <=> \A r \in DOMAIN recs' : Good(r)'
    BY DEF Tree
  <1>8. ASSUME NEW r \in DOMAIN recs PROVE Good(r)'
    <2>1. Good(r)
      BY <1>6
    <2>2. recs[r].base = 0 \/ recs[r].base \in DOMAIN recs
      <3>1. recs[r].base \in Nat /\ r \in Nat
        BY Types DEF Record
      <3> QED
        BY <1>2, <2>1, <3>1
    <2>3. Chain(recs[r].base)' = Chain(recs[r].base) /\ Chain(r)' = Chain(r)
      <3>1. recs'[r].base = recs[r].base
        BY <1>1
      <3> QED
        BY <1>1, <2>2, <3>1, ChainsKept DEF Chain
    <2>4. recs[r].bases \subseteq DOMAIN recs /\ Chain(r) \subseteq DOMAIN recs
      BY Chains
    <2> QED
      BY <1>1, <2>1, <2>3, <2>4
  <1>9. Good(n)'
    <2>1. recs'[n].base < n /\ recs'[n].bases = Chain(recs[n].base)'
      BY <1>0, <1>1, <1>2, <1>5
    <2>2. recs'[n].bases \subseteq 1 .. n - 1 /\ recs'[n].mod <= unit'
      BY <1>0, <1>1, <1>2, <1>4
    <2>3. \A k \in recs'[n].bases : /\ recs'[k].bases \subseteq recs'[n].bases
                                    /\ recs'[k].mod <= recs'[n].mod
                                    /\ recs'[k].level < recs'[n].level
      <3> SUFFICES ASSUME NEW k \in Chain(base)
                   PROVE  /\ recs[k].bases \subseteq Chain(base) /\ recs[k].mod <= unit
                          /\ recs[k].level < recs[base].level + 1 /\ base # 0
        BY <1>1, <1>4
      <3>1. base # 0 /\ k \in DOMAIN recs
        BY <1>4 DEF Chain
      <3> QED
        BY <1>2, <1>3, <1>4, <3>1 DEF Tree
    <2>4. \A j, k \in recs'[n].bases : j < k => j \in recs'[k].bases
      BY <1>1, <1>4
    <2>5. \E k \in Chain(n)' : recs'[k].level = 0
      BY <1>1, <1>4, <1>5
    <2> QED
      BY <2>1, <2>2, <2>3, <2>4, <2>5
  <1> HIDE DEF Good
  <1> QED
    BY <1>0, <1>1, <1>2, <1>7, <1>8, <1>9

LEMMA RecordSlots ==
    ASSUME SlotsInv, NEW base \in 0 .. Len(recs), NEW impl \in SUBSET DOMAIN intfs,
           RecordType(base, impl)
    PROVE  SlotsInv'
  <1> USE DEF SlotsInv
  <1>0. PICK n : n = Len(recs) + 1
    OBVIOUS
  <1>1. /\ DOMAIN recs' = 1 .. n /\ recs' \in Seq(Record) /\ Keeps
        /\ \A r \in DOMAIN recs : recs'[r] = recs[r]
        /\ recs'[n].mod = unit /\ recs'[n].nofmeth = 0
        /\ UNCHANGED <<unit, part, intfs, meths, td, itab, news, made>>
    <2>1. /\ DOMAIN recs' = 1 .. n /\ recs' \in Seq(Record) /\ Keeps
          /\ \A r \in DOMAIN recs : recs'[r] = recs[r]
          /\ recs'[n] = [mod |-> unit, base |-> base, bases |-> Chain(base), impl |-> impl,
                         level |-> IF base = 0 THEN 0 ELSE recs[base].level + 1,
                         nofmeth |-> 0, mfixed |-> FALSE]
          /\ UNCHANGED <<unit, part, intfs, meths, td, itab, news, made>>
      BY <1>0, RecordFacts
    <2> QED
      BY ONLY <2>1
  <1>2. Len(recs) \in Nat /\ DOMAIN recs = 1 .. Len(recs) /\ Len(meths) \in Nat
    BY Types
  <1>3. TypeOK'
    BY <1>0, <1>1, <1>2 DEF TypeOK
  <1>4. Tree'
    BY RecordTree
  <1>5. \A r \in DOMAIN recs : Chain(r)' = Chain(r) /\ Chain(r) \subseteq DOMAIN recs
    BY <1>1, ChainsKept, Chains
  <1>6. \A i \in DOMAIN meths : meths[i].rec \in DOMAIN recs
    BY DEF Declared
  <1>7. Declared'
    BY <1>0, <1>1, <1>2, <1>5, <1>6 DEF Declared
  <1>8. Slots'
    BY <1>0, <1>1, <1>2, <1>5, <1>6, Chains DEF Slots, First
  <1>9. Descriptors'
    <2>1. \A d \in DOMAIN td : d \in DOMAIN recs /\ td[d] = finalize_tds(d)
      BY DEF Descriptors
    <2>2. \A d \in DOMAIN recs : finalize_tds(d)' = finalize_tds(d)
      BY <1>1, <1>5, DescriptorKept
    <2>3. \A r \in DOMAIN recs' : recs'[r].mod < unit' <=> r \in DOMAIN recs /\ recs[r].mod < unit
      <3>1. unit \in Nat
        BY DEF TypeOK
      <3> QED
        BY <1>0, <1>1, <1>2, <3>1
    <2>4. DOMAIN td' = { r \in DOMAIN recs' : recs'[r].mod < unit' }
      BY <1>0, <1>1, <1>2, <2>3 DEF Descriptors
    <2> QED
      BY <1>1, <2>1, <2>2, <2>4 DEF Descriptors
  <1> QED
    BY <1>3, <1>4, <1>7, <1>8, <1>9

(* What a declaration must be for Declared to go on. *)
Fits(m) ==
    /\ m.over # 0 => /\ m.over \in DOMAIN meths /\ (m.initf => meths[m.over].initf)
                     /\ meths[m.over].rec \in recs[m.rec].bases
    /\ m.slot = -1 \/ m.slot >= 0
    /\ m.initf => m.slot = -1
    /\ m.slot >= 0 => \E k \in Chain(m.rec) : m.slot < recs'[k].nofmeth
    /\ ~m.initf =>
          /\ m.slot >= 0 \/ m.over # 0
          /\ m.over # 0 => /\ meths[m.over].slot = m.slot /\ meths[m.over].name = m.name
                           /\ MethodSigMatch(m.sig, meths[m.over].sig)

(* The slots that a declaration may add are its own. *)
Binds(m) ==
    /\ m \in Method /\ Bound(m) /\ Keeps /\ Fits(m)
    /\ meths' \in Seq(Method) /\ recs' \in Seq(Record) /\ DOMAIN recs' = DOMAIN recs
    /\ \A k \in DOMAIN recs : k # m.rec => recs'[k].nofmeth = recs[k].nofmeth
    /\ \A k \in DOMAIN recs : recs[k].nofmeth <= recs'[k].nofmeth

LEMMA BoundSlots ==
    ASSUME SlotsInv, NEW m, Binds(m)
    PROVE  TypeOK' /\ Tree' /\ Declared' /\ Descriptors'
  <1> USE DEF SlotsInv
  <1>0. PICK n : n = Len(meths) + 1
    OBVIOUS
  <1>1. /\ Len(meths) \in Nat /\ DOMAIN meths = 1 .. Len(meths)
        /\ \A r \in DOMAIN recs : recs[r].nofmeth \in Nat /\ recs[r].mod \in Nat
        /\ \A i \in DOMAIN meths : meths[i].slot \in Int
    BY Types DEF Record, Method
  <1>2. /\ DOMAIN meths' = 1 .. n /\ meths'[n] = m
        /\ \A i \in DOMAIN meths : meths'[i] = meths[i]
        /\ UNCHANGED <<unit, part, intfs, td, itab, news, made>>
    BY <1>0 DEF Binds, Bound, Keeps
  <1>3. /\ m.rec \in DOMAIN recs /\ recs[m.rec].mod = unit
        /\ \A i \in DOMAIN meths : meths[i].rec = m.rec => meths[i].name # m.name
        /\ m.expo \/ m.name \in Private
    BY DEF Binds, Bound
  <1>4. TypeOK'
    <2>1. meths' \in Seq(Method) /\ recs' \in Seq(Record) /\ DOMAIN recs' = DOMAIN recs
      BY DEF Binds
    <2>2. DOMAIN meths \subseteq DOMAIN meths'
      BY DEF Binds, Keeps
    <2> QED
      BY <1>2, <2>1, <2>2 DEF TypeOK
  <1>5. Tree'
    <2>1. unit \in Nat
      BY DEF TypeOK
    <2> QED
      BY <1>2, <2>1, TreeKept DEF Binds
  <1>6. \A r \in DOMAIN recs : Chain(r)' = Chain(r) /\ Chain(r) \subseteq DOMAIN recs
    BY ChainsKept, Chains DEF Binds
  <1>7. Declared'
    <2> DEFINE Good(i) ==
          /\ meths[i].rec \in DOMAIN recs
          /\ meths[i].expo \/ meths[i].name \in Private
          /\ \A j \in DOMAIN meths :
                meths[j].rec = meths[i].rec /\ meths[j].name = meths[i].name => i = j
          /\ meths[i].over # 0 =>
                /\ meths[i].over < i /\ (meths[i].initf => meths[meths[i].over].initf)
                /\ meths[meths[i].over].rec \in recs[meths[i].rec].bases
          /\ meths[i].slot = -1 \/ meths[i].slot >= 0
          /\ meths[i].initf => meths[i].slot = -1
          /\ meths[i].slot >= 0 => \E k \in Chain(meths[i].rec) : meths[i].slot < recs[k].nofmeth
          /\ ~meths[i].initf =>
                /\ meths[i].slot >= 0 \/ meths[i].over # 0
                /\ meths[i].over # 0 =>
                      /\ meths[meths[i].over].slot = meths[i].slot
                      /\ meths[meths[i].over].name = meths[i].name
                      /\ MethodSigMatch(meths[i].sig, meths[meths[i].over].sig)
    <2>1. Declared <=> \A i \in DOMAIN meths : Good(i)
      BY DEF Declared
    <2>2. Declared' <=> \A i \in DOMAIN meths' : Good(i)'
      BY DEF Declared
    <2>3. \A r \in DOMAIN recs : recs'[r].bases = recs[r].bases /\ DOMAIN recs' = DOMAIN recs
                                 /\ recs[r].nofmeth <= recs'[r].nofmeth
      BY DEF Binds, Keeps
    <2>4. ASSUME NEW i \in DOMAIN meths PROVE Good(i)'
      <3>1. Good(i) /\ (meths[i].over # 0 => meths[i].over \in DOMAIN meths)
        BY <2>1, OverIsEarlier
      <3>2. meths'[i] = meths[i] /\ (meths[i].over # 0 => meths'[meths[i].over] = meths[meths[i].over])
        BY <1>2, <3>1
      <3>3. meths[i].rec \in DOMAIN recs' /\ (meths[i].expo \/ meths[i].name \in Private)
        BY <2>3, <3>1
      <3>4. \A j \in DOMAIN meths' :
               meths'[j].rec = meths[i].rec /\ meths'[j].name = meths[i].name => i = j
        BY <1>0, <1>1, <1>2, <1>3, <3>1
      <3>5. recs'[meths[i].rec].bases = recs[meths[i].rec].bases
        BY <2>3, <3>1
      <3>6. meths[i].slot >= 0 => \E k \in Chain(meths[i].rec)' : meths[i].slot < recs'[k].nofmeth
        <4> SUFFICES ASSUME meths[i].slot >= 0
                     PROVE  \E k \in Chain(meths[i].rec)' : meths[i].slot < recs'[k].nofmeth
          OBVIOUS
        <4>1. PICK k \in Chain(meths[i].rec) : meths[i].slot < recs[k].nofmeth
          BY <3>1
        <4>2. k \in DOMAIN recs /\ Chain(meths[i].rec)' = Chain(meths[i].rec)
          <5>1. k \in DOMAIN recs
            BY <1>6, <3>1, <4>1
          <5>2. meths'[i].rec = meths[i].rec
            BY <3>2
          <5>3. Chain(meths[i].rec) = IF meths[i].rec = 0 THEN {}
                                     ELSE {meths[i].rec} \cup recs[meths[i].rec].bases
            BY DEF Chain
          <5>4. Chain(meths[i].rec)' = IF meths'[i].rec = 0 THEN {}
                                      ELSE {meths'[i].rec} \cup recs'[meths'[i].rec].bases
            BY DEF Chain
          <5> QED
            BY <3>5, <5>1, <5>2, <5>3, <5>4
        <4>3. recs[k].nofmeth <= recs'[k].nofmeth /\ recs'[k].nofmeth \in Nat
          <5>1. recs' \in Seq(Record) /\ DOMAIN recs' = 1 .. Len(recs') /\ Len(recs') \in Nat
            BY LenProperties DEF Binds
          <5>2. k \in 1 .. Len(recs')
            BY <2>3, <4>2, <5>1
          <5>3. recs'[k] \in Record
            BY <5>1, <5>2, ElementOfSeq
          <5> QED
            BY <2>3, <4>2, <5>3 DEF Record
        <4>4. meths[i].slot < recs'[k].nofmeth
          BY <1>1, <4>1, <4>2, <4>3
        <4> QED
          BY <4>1, <4>2, <4>4
      <3> QED
        BY <3>1, <3>2, <3>3, <3>4, <3>5, <3>6
    <2>5. Good(n)'
      <3>1. Fits(m) /\ m \in Method
        BY DEF Binds
      <3>2. meths'[n].rec \in DOMAIN recs' /\ (meths'[n].expo \/ meths'[n].name \in Private)
        BY <1>2, <1>3, <2>3
      <3>3. \A j \in DOMAIN meths' :
               meths'[j].rec = meths'[n].rec /\ meths'[j].name = meths'[n].name => n = j
        BY <1>0, <1>1, <1>2, <1>3
      <3>4. recs'[m.rec].bases = recs[m.rec].bases
        BY <1>3, <2>3
      <3>5. m.over # 0 => m.over < n /\ meths'[m.over] = meths[m.over]
        BY <1>0, <1>1, <1>2, <3>1 DEF Fits
      <3>6. Chain(meths[n].rec)' = Chain(m.rec)
        BY <1>2, <1>3, <3>4 DEF Chain
      <3>7. meths'[n].over # 0 =>
               /\ meths'[n].over < n /\ (meths'[n].initf => meths'[meths'[n].over].initf)
               /\ meths'[meths'[n].over].rec \in recs'[meths'[n].rec].bases
        BY <1>2, <3>1, <3>4, <3>5 DEF Fits
      <3>8. /\ m.slot >= 0 => \E k \in Chain(meths[n].rec)' : m.slot < recs'[k].nofmeth
            /\ ~m.initf =>
               /\ m.slot >= 0 \/ m.over # 0
               /\ m.over # 0 => /\ meths'[m.over].slot = m.slot
                                /\ meths'[m.over].name = m.name
                                /\ MethodSigMatch(m.sig, meths'[m.over].sig)
        BY <3>1, <3>5, <3>6 DEF Fits
      <3> QED
        BY <1>2, <3>1, <3>2, <3>3, <3>7, <3>8 DEF Fits, MethodSigMatch
    <2> HIDE DEF Good
    <2> QED
      BY <1>0, <1>1, <1>2, <2>2, <2>4, <2>5
  <1>8. Descriptors'
    <2>1. \A d \in DOMAIN td : d \in DOMAIN recs /\ td[d] = finalize_tds(d) /\ recs[d].mod < unit
      BY DEF Descriptors
    <2>2. ASSUME NEW d \in DOMAIN td
          PROVE  finalize_tds(d)' = finalize_tds(d)
      <3>1. d \in DOMAIN recs /\ recs[d].mod < unit /\ unit \in Nat
        BY <2>1 DEF TypeOK
      <3>2. m.rec \notin Chain(d)
        BY <1>1, <1>3, <3>1, Chains
      <3>3. \A k \in Chain(d) : recs'[k].nofmeth = recs[k].nofmeth
        BY <1>6, <3>1, <3>2 DEF Binds
      <3>4. \A i \in DOMAIN meths' : i \notin DOMAIN meths => meths'[i].rec \notin Chain(d)
        BY <1>0, <1>1, <1>2, <3>2
      <3> QED
        BY <3>1, <3>3, <3>4, DescriptorKept DEF Binds
    <2>3. \A r \in DOMAIN recs : recs'[r].mod = recs[r].mod /\ DOMAIN recs' = DOMAIN recs
      BY DEF Binds, Keeps
    <2>4. { r \in DOMAIN recs' : recs'[r].mod < unit' } = { r \in DOMAIN recs : recs[r].mod < unit }
      BY <1>2, <2>3 DEF Binds
    <2> QED
      BY <1>2, <2>1, <2>2, <2>4 DEF Descriptors
  <1> QED
    BY <1>4, <1>5, <1>7, <1>8

LEMMA LaterSlots ==
    ASSUME SlotsInv, NEW m, Binds(m), UNCHANGED recs, m.initf \/ m.over # 0
    PROVE  SlotsInv'
  <1> USE DEF SlotsInv
  <1>0. PICK n : n = Len(meths) + 1
    OBVIOUS
  <1>1. /\ Len(meths) \in Nat /\ DOMAIN meths = 1 .. Len(meths)
        /\ \A r \in DOMAIN recs : recs[r].nofmeth \in Nat
    BY Types DEF Record
  <1>2. /\ DOMAIN meths' = 1 .. n /\ meths'[n] = m /\ Len(meths') = n
        /\ \A i \in DOMAIN meths : meths'[i] = meths[i]
    BY <1>0 DEF Binds, Bound, Keeps
  <1>3. /\ ~First(n)'
        /\ \A i \in DOMAIN meths : First(i)' <=> First(i)
    BY <1>2 DEF First
  <1>4. \A i \in DOMAIN meths' : First(i)' => i \in DOMAIN meths
    BY <1>0, <1>1, <1>2, <1>3
  <1>5. \A r \in DOMAIN recs : recs[r].nofmeth <= n
    BY <1>0, <1>1 DEF Slots
  <1>6. ASSUME NEW i \in DOMAIN meths, First(i)
        PROVE  /\ \A k \in recs'[meths'[i].rec].bases : recs'[k].mfixed
               /\ \A j \in DOMAIN meths :
                     First(j) /\ meths'[j].rec \in Chain(meths[i].rec)'
                     /\ meths'[i].slot = meths'[j].slot => i = j
    <2>1. Chain(meths[i].rec)' = Chain(meths[i].rec)
      BY <1>2 DEF Chain
    <2> QED
      BY <1>2, <1>6, <2>1 DEF Slots
  <1>7. Slots'
    BY <1>2, <1>3, <1>4, <1>5, <1>6 DEF Slots
  <1> QED
    BY <1>7, BoundSlots

LEMMA OverrideSlots ==
    ASSUME SlotsInv, NEW r \in DOMAIN recs, NEW n \in Name,
           NEW expo \in BOOLEAN, NEW sig \in Sig, Override(r, n, expo, sig)
    PROVE  SlotsInv'
  <1> USE DEF SlotsInv
  <1>0. PICK bm : bm = Inherited(r, n)
    OBVIOUS
  <1>1. PICK m \in Method :
          /\ m = [rec |-> r, name |-> n, expo |-> expo, initf |-> FALSE,
                  slot |-> meths[bm].slot, sig |-> sig, over |-> bm]
          /\ bm # 0 /\ MethodSigMatch(sig, meths[bm].sig)
          /\ Bound(m) /\ Keeps /\ UNCHANGED recs /\ meths' \in Seq(Method)
    BY <1>0, OverrideFacts
  <1>2. /\ m.rec = r /\ m.name = n /\ m.initf = FALSE /\ m.slot = meths[bm].slot
        /\ m.sig = sig /\ m.over = bm
    BY <1>1
  <1>3. bm \in DOMAIN meths /\ meths[bm].name = n /\ meths[bm].rec \in recs[r].bases
    BY <1>0, <1>1, InheritedFound
  <1>5. /\ meths[bm].slot = -1 \/ meths[bm].slot >= 0
        /\ meths[bm].slot >= 0 =>
              \E k \in Chain(meths[bm].rec) : meths[bm].slot < recs[k].nofmeth
    BY <1>3 DEF Declared
  <1>6. Chain(meths[bm].rec) \subseteq Chain(r)
    BY <1>3, Chains
  <1>7. Fits(m)
    BY <1>1, <1>2, <1>3, <1>5, <1>6 DEF Fits
  <1>8. recs \in Seq(Record) /\ \A k \in DOMAIN recs : recs[k].nofmeth \in Nat
    BY Types DEF TypeOK, Record
  <1>9. Binds(m)
    BY <1>1, <1>7, <1>8 DEF Binds
  <1> QED
    BY <1>1, <1>2, <1>9, LaterSlots

LEMMA InitSlots ==
    ASSUME SlotsInv, NEW r \in DOMAIN recs, NEW n \in InitName,
           NEW expo \in BOOLEAN, NEW sig \in Sig,
           NEW over \in 0 .. Len(meths), BindInit(r, n, expo, sig, over)
    PROVE  SlotsInv'
  <1> USE DEF SlotsInv
  <1>1. PICK m \in Method :
          /\ m = [rec |-> r, name |-> n, expo |-> expo, initf |-> TRUE,
                  slot |-> -1, sig |-> sig, over |-> over]
          /\ over # 0 => over \in Governing(recs[r].base)
          /\ Bound(m) /\ Keeps /\ UNCHANGED recs /\ meths' \in Seq(Method)
    BY InitFacts
  <1>2. /\ m.rec = r /\ m.name = n /\ m.initf = TRUE /\ m.slot = -1 /\ m.over = over
    BY <1>1
  <1>3. over # 0 => over \in DOMAIN meths /\ meths[over].initf /\ meths[over].rec \in recs[r].bases
    <2>1. recs[r].base = 0 \/ recs[r].base \in DOMAIN recs
      <3>1. recs[r].base \in Nat /\ recs[r].base < r
        BY Types DEF Record, Tree
      <3> QED
        BY <3>1, Types
    <2> QED
      BY <1>1, <2>1, GoverningFacts, Chains
  <1>4. over # 0 => meths[over].initf = TRUE
    BY <1>3, Types DEF Method
  <1>5. Fits(m)
    BY <1>2, <1>3, <1>4 DEF Fits
  <1>6. recs \in Seq(Record) /\ \A k \in DOMAIN recs : recs[k].nofmeth \in Nat
    BY Types DEF TypeOK, Record
  <1>7. Binds(m)
    BY <1>1, <1>5, <1>6 DEF Binds
  <1> QED
    BY <1>1, <1>2, <1>7, LaterSlots

LEMMA NewMethodSlots ==
    ASSUME SlotsInv, NEW r \in DOMAIN recs, NEW n \in Name,
           NEW expo \in BOOLEAN, NEW sig \in Sig, NewMethod(r, n, expo, sig)
    PROVE  SlotsInv'
  <1> USE DEF SlotsInv
  <1>0. PICK slot : slot = ORB_TotalMeths(r)
    OBVIOUS
  <1>1. PICK m \in Method :
          /\ m = [rec |-> r, name |-> n, expo |-> expo, initf |-> FALSE,
                  slot |-> slot, sig |-> sig, over |-> 0]
          /\ ~recs[r].mfixed
          /\ Bound(m) /\ Keeps /\ meths' \in Seq(Method)
          /\ recs' \in Seq(Record) /\ DOMAIN recs' = DOMAIN recs
          /\ \A k \in DOMAIN recs :
                /\ recs'[k].nofmeth = IF k = r THEN slot + 1 ELSE recs[k].nofmeth
                /\ recs'[k].mfixed <=> (recs[k].mfixed \/ k \in recs[r].bases)
    BY <1>0, NewMethodFacts
  <1>2. /\ m.rec = r /\ m.name = n /\ m.initf = FALSE /\ m.slot = slot
        /\ m.sig = sig /\ m.over = 0
    BY <1>1
  <1>3. /\ slot \in Nat /\ slot <= Len(meths)
        /\ \A k \in Chain(r) : recs[k].nofmeth <= slot
    BY <1>0, Total DEF Slots
  <1>4. \A k \in DOMAIN recs : recs[k].nofmeth \in Nat
    BY Types DEF Record
  <1>5. r \in Chain(r) /\ Chain(r) \subseteq DOMAIN recs
    BY Chains
  <1>6. Fits(m)
    <2>1. slot < recs'[r].nofmeth /\ slot >= 0
      BY <1>1, <1>3
    <2> QED
      BY <1>2, <1>5, <2>1 DEF Fits
  <1>7. \A k \in DOMAIN recs : recs[k].nofmeth <= recs'[k].nofmeth
    BY <1>1, <1>3, <1>4, <1>5
  <1>8. Binds(m)
    BY <1>1, <1>2, <1>6, <1>7 DEF Binds
  <1>9. PICK l : l = Len(meths) + 1
    OBVIOUS
  <1>10. /\ Len(meths) \in Nat /\ DOMAIN meths = 1 .. Len(meths)
         /\ DOMAIN meths' = 1 .. l /\ meths'[l] = m /\ Len(meths') = l
         /\ \A i \in DOMAIN meths : meths'[i] = meths[i]
    BY <1>8, <1>9, Types DEF Binds, Bound, Keeps
  (* The slots there were in the chain are all taken by fewer. *)
  <1>11. ASSUME NEW i \in DOMAIN meths, First(i), meths[i].rec \in Chain(r)
         PROVE  meths[i].slot < slot
    <2>1. PICK k \in Chain(meths[i].rec) : meths[i].slot < recs[k].nofmeth
      BY <1>11 DEF Declared, First
    <2>2. k \in Chain(r)
      BY <1>11, <2>1, Chains
    <2>3. recs[k].nofmeth <= slot /\ recs[k].nofmeth \in Nat /\ meths[i].slot \in Int
      BY <1>3, <1>4, <1>5, <2>2, Types DEF Method
    <2> QED
      BY <1>3, <2>1, <2>3
  (* No extension has taken one. *)
  <1>12. ASSUME NEW i \in DOMAIN meths, First(i), r \in Chain(meths[i].rec)
         PROVE  meths[i].rec = r
    <2>1. meths[i].rec \in DOMAIN recs
      BY DEF Declared
    <2>2. meths[i].rec # r => r \in recs[meths[i].rec].bases
      BY <1>12, <2>1, Chains
    <2> QED
      BY <1>1, <1>12, <2>2 DEF Slots
  <1>13. \A i \in DOMAIN meths : /\ meths[i].slot \in Int /\ meths[i].rec \in DOMAIN recs
                                 /\ Chain(meths[i].rec) \subseteq DOMAIN recs
    BY Types, Chains DEF Declared, Method
  <1>14. Slots'
    <2>1. \A k \in DOMAIN recs' : recs'[k].nofmeth <= Len(meths')
      <3>1. \A k \in DOMAIN recs : recs[k].nofmeth <= Len(meths)
        BY DEF Slots
      <3>2. \A k \in DOMAIN recs : recs[k].nofmeth <= l /\ slot + 1 <= l
        BY <1>3, <1>4, <1>9, <1>10, <3>1
      <3>3. DOMAIN recs' = DOMAIN recs /\ Len(meths') = l
            /\ \A k \in DOMAIN recs :
                  recs'[k].nofmeth = IF k = r THEN slot + 1 ELSE recs[k].nofmeth
        BY <1>1, <1>10
      <3> QED
        BY ONLY <3>2, <3>3
    <2>2. \A i \in DOMAIN meths : First(i)' <=> First(i)
      BY <1>10 DEF First
    <2>3. \A i \in DOMAIN meths : Chain(meths[i].rec)' = Chain(meths[i].rec)
      <3> SUFFICES ASSUME NEW i \in DOMAIN meths
                   PROVE  Chain(meths[i].rec)' = Chain(meths[i].rec)
        OBVIOUS
      <3>1. meths'[i].rec = meths[i].rec
            /\ recs'[meths[i].rec].bases = recs[meths[i].rec].bases
        BY <1>1, <1>10, <1>13 DEF Keeps
      <3>2. /\ Chain(meths[i].rec) = IF meths[i].rec = 0 THEN {}
                                     ELSE {meths[i].rec} \cup recs[meths[i].rec].bases
            /\ Chain(meths[i].rec)' = IF meths'[i].rec = 0 THEN {}
                                      ELSE {meths'[i].rec} \cup recs'[meths'[i].rec].bases
        BY DEF Chain
      <3> QED
        BY <3>1, <3>2
    <2>4. Chain(meths[l].rec)' = Chain(r) /\ recs'[meths'[l].rec].bases = recs[r].bases
      <3>1. meths'[l].rec = r /\ recs'[r].bases = recs[r].bases
        BY <1>1, <1>2, <1>10 DEF Keeps
      <3> QED
        BY <3>1 DEF Chain
    <2>5. ASSUME NEW i \in DOMAIN meths, First(i)
          PROVE  /\ \A k \in recs'[meths'[i].rec].bases : recs'[k].mfixed
                 /\ \A j \in DOMAIN meths' :
                       First(j)' /\ meths'[j].rec \in Chain(meths[i].rec)'
                       /\ meths'[i].slot = meths'[j].slot => i = j
      <3>1. \A k \in recs[meths[i].rec].bases : k \in DOMAIN recs /\ recs[k].mfixed
        BY <1>13, <2>5, Chains DEF Slots
      <3>2. recs'[meths'[i].rec].bases = recs[meths[i].rec].bases
        BY <1>1, <1>10, <1>13 DEF Keeps
      <3>3. \A k \in recs'[meths'[i].rec].bases : recs'[k].mfixed
        BY <1>1, <3>1, <3>2
      <3>4. ASSUME NEW j \in DOMAIN meths', First(j)', meths'[j].rec \in Chain(meths[i].rec)',
                   meths'[i].slot = meths'[j].slot
            PROVE  i = j
        <4>1. CASE j \in DOMAIN meths
          BY <1>10, <2>2, <2>3, <2>5, <3>4, <4>1 DEF Slots
        <4>2. CASE j = l
          <5>1. r \in Chain(meths[i].rec) /\ meths[i].slot = slot
            BY <1>2, <1>10, <2>3, <3>4, <4>2
          <5>2. meths[i].rec = r
            BY <1>12, <2>5, <5>1
          <5> QED
            BY <1>3, <1>5, <1>11, <1>13, <2>5, <5>1, <5>2
        <4> QED
          BY <1>9, <1>10, <4>1, <4>2
      <3> QED
        BY <3>3, <3>4
    <2>6. /\ \A k \in recs'[meths'[l].rec].bases : recs'[k].mfixed
          /\ \A j \in DOMAIN meths' :
                First(j)' /\ meths'[j].rec \in Chain(meths[l].rec)'
                /\ meths'[l].slot = meths'[j].slot => l = j
      <3>1. \A k \in recs'[meths'[l].rec].bases : recs'[k].mfixed
        BY <1>1, <2>4, Chains
      <3>2. ASSUME NEW j \in DOMAIN meths', First(j)', meths'[j].rec \in Chain(meths[l].rec)',
                   meths'[l].slot = meths'[j].slot
            PROVE  l = j
        <4> SUFFICES ASSUME j # l PROVE FALSE
          OBVIOUS
        <4>1. j \in DOMAIN meths
          BY <1>9, <1>10
        <4>2. First(j) /\ meths[j].rec \in Chain(r) /\ meths[j].slot = slot
          BY <1>2, <1>10, <2>2, <2>4, <3>2, <4>1
        <4> QED
          BY <1>3, <1>11, <4>1, <4>2
      <3> QED
        BY <3>1, <3>2
    <2> QED
      BY <1>9, <1>10, <2>1, <2>2, <2>5, <2>6 DEF Slots
  <1> QED
    BY <1>8, <1>14, BoundSlots

LEMMA CloseSlots == SlotsInv /\ Close => SlotsInv'
  <1> SUFFICES ASSUME SlotsInv, Close PROVE SlotsInv'
    OBVIOUS
  <1> USE DEF SlotsInv
  <1> DEFINE own == { r \in DOMAIN recs : recs[r].mod = unit }
  <1>1. /\ td' = [r \in DOMAIN td \cup own |-> IF r \in own THEN finalize_tds(r) ELSE td[r]]
        /\ unit' = unit + 1 /\ part' \in {"types", "done"}
        /\ UNCHANGED <<recs, intfs, meths, itab, news, made>>
    BY DEF Close
  <1>2. unit \in Nat /\ \A r \in DOMAIN recs : recs[r].mod \in Nat
    BY Types DEF TypeOK, Record
  <1>3. TypeOK'
    BY <1>1, <1>2 DEF TypeOK
  <1>4. Keeps /\ DOMAIN recs' = DOMAIN recs
    BY <1>1 DEF Keeps
  <1>5. Tree'
    BY <1>1, <1>2, <1>4, TreeKept
  <1>6. Declared'
    BY <1>1 DEF Declared, Chain
  <1>7. Slots'
    BY <1>1 DEF Slots, First, Chain
  <1>8. Descriptors'
    <2>1. \A d \in DOMAIN recs : finalize_tds(d)' = finalize_tds(d)
      BY <1>1, <1>4, DescriptorKept
    <2>2. DOMAIN td = { r \in DOMAIN recs : recs[r].mod < unit }
          /\ \A d \in DOMAIN td : td[d] = finalize_tds(d)
      BY DEF Descriptors
    <2>3. DOMAIN td \cup own = { r \in DOMAIN recs : recs[r].mod < unit + 1 }
      BY <1>2, <2>2
    <2>4. DOMAIN td' = { r \in DOMAIN recs' : recs'[r].mod < unit' }
      BY <1>1, <2>3
    <2>5. \A d \in DOMAIN td' : td'[d] = finalize_tds(d) /\ d \in DOMAIN recs
      BY <1>1, <2>2
    <2>6. \A d \in DOMAIN td' : td'[d] = finalize_tds(d)'
      BY <2>1, <2>5
    <2> QED
      BY <2>4, <2>6 DEF Descriptors
  <1> QED
    BY <1>3, <1>5, <1>6, <1>7, <1>8

LEMMA InitSlotsInv == Init => SlotsInv
  <1> SUFFICES ASSUME Init PROVE SlotsInv
    OBVIOUS
  <1>1. /\ unit = 1 /\ part = "types" /\ recs = << >> /\ intfs = << >> /\ meths = << >>
        /\ td = << >> /\ itab = << >> /\ news = {} /\ made = {}
    BY DEF Init
  <1>2. << >> \in Seq(Record) /\ << >> \in Seq(Interface) /\ << >> \in Seq(Method)
    BY EmptySeq
  <1>3. DOMAIN << >> = {}
    OBVIOUS
  <1>4. TypeOK
    BY <1>1, <1>2, <1>3 DEF TypeOK
  <1>5. Tree /\ Declared /\ Slots
    BY <1>1, <1>3 DEF Tree, Declared, Slots
  <1>6. Descriptors
    BY <1>1, <1>3 DEF Descriptors
  <1> QED
    BY <1>4, <1>5, <1>6 DEF SlotsInv

LEMMA NextCases ==
    ASSUME Next \/ UNCHANGED vars
    PROVE  \/ \E base \in 0 .. Len(recs), impl \in SUBSET DOMAIN intfs : RecordType(base, impl)
           \/ \E r \in DOMAIN recs, n \in Name, expo \in BOOLEAN, sig \in Sig :
                 Override(r, n, expo, sig)
           \/ \E r \in DOMAIN recs, n \in Name, expo \in BOOLEAN, sig \in Sig :
                 NewMethod(r, n, expo, sig)
           \/ \E r \in DOMAIN recs, n \in InitName, expo \in BOOLEAN, sig \in Sig,
                 over \in 0 .. Len(meths) : BindInit(r, n, expo, sig, over)
           \/ Close
           \/ Uses
  BY DEF Next, Uses, BindMethod, Receivers

LEMMA SlotsStep == SlotsInv /\ [Next]_vars => SlotsInv'
  <1> SUFFICES ASSUME SlotsInv, Next \/ UNCHANGED vars PROVE SlotsInv'
    OBVIOUS
  <1>1. CASE \E base \in 0 .. Len(recs), impl \in SUBSET DOMAIN intfs : RecordType(base, impl)
    BY <1>1, RecordSlots
  <1>2. CASE \E r \in DOMAIN recs, n \in Name, expo \in BOOLEAN, sig \in Sig :
                Override(r, n, expo, sig)
    BY <1>2, OverrideSlots
  <1>3. CASE \E r \in DOMAIN recs, n \in Name, expo \in BOOLEAN, sig \in Sig :
                NewMethod(r, n, expo, sig)
    BY <1>3, NewMethodSlots
  <1>4. CASE \E r \in DOMAIN recs, n \in InitName, expo \in BOOLEAN, sig \in Sig,
                over \in 0 .. Len(meths) : BindInit(r, n, expo, sig, over)
    BY <1>4, InitSlots
  <1>5. CASE Close
    BY <1>5, CloseSlots
  <1>6. CASE Uses
    BY <1>6, UsesSlots
  <1> QED
    BY <1>1, <1>2, <1>3, <1>4, <1>5, <1>6, NextCases

LEMMA SlotsAlways == Spec => []SlotsInv
  BY InitSlotsInv, SlotsStep, PTL DEF Spec

(* A call through a pointer reaches the nearest override of a method that    *)
(* does not go back to an initialiser, for programs of any number of units,  *)
(* types and methods, private and exported, declared in any order that the   *)
(* compiler accepts, initialisers and methods of one name included. *)
THEOREM CallsAlways == Spec => []CallsOverride
  BY SlotsAlways, CallsFollow, PTL

(* IS answers by extension for every target that descriptors have room for.  *)
THEOREM TestsAlways == Spec => []TypeTests
  BY SlotsAlways, TestsFollow, PTL

-----------------------------------------------------------------------------
(* Constructions, when members are declared before they are used. *)

(* Nothing will be declared any more for r and its bases. *)
Settled(r) == recs[r].mod < unit \/ part \in {"body", "done"}

(* What was allocated has no initialiser, what was constructed had the one   *)
(* that claims it, and an initialiser that calls none of the base type's saw *)
(* none.  *)
Constructions ==
    /\ \A r \in news : Settled(r) /\ \A k \in Chain(r) : ~DeclaresInit(k)
    /\ \A x \in made : Settled(x[1]) /\ x[2] \in Governing(x[1])
    /\ \A i \in DOMAIN meths : meths[i].initf /\ meths[i].over = 0 =>
          \A b \in Governing(recs[meths[i].rec].base) :
              ~meths[b].expo /\ recs[meths[b].rec].mod # recs[meths[i].rec].mod

LEMMA BaseType ==
    ASSUME TypeOK, Tree, NEW r \in DOMAIN recs
    PROVE  /\ recs[r].base = 0 \/ recs[r].base \in DOMAIN recs
           /\ Chain(recs[r].base) = recs[r].bases /\ recs[r].bases \subseteq DOMAIN recs
  <1>1. recs[r].base \in Nat /\ recs[r].base < r
    BY Types DEF Record, Tree
  <1> QED
    BY <1>1, Types, Chains

(* Who claims a construction changes only with an initialiser in the chain. *)
LEMMA GoverningKept ==
    ASSUME TypeOK, Tree, Keeps, NEW r, r = 0 \/ r \in DOMAIN recs,
           \A i \in DOMAIN meths' :
              i \notin DOMAIN meths /\ meths'[i].initf => meths'[i].rec \notin Chain(r)
    PROVE  /\ Governing(r)' = Governing(r)
           /\ \A k \in Chain(r) : DeclaresInit(k)' <=> DeclaresInit(k)
  <1>1. Chain(r)' = Chain(r)
    BY ChainsKept
  <1>2. ASSUME NEW k \in Chain(r)
        PROVE  DeclaresInit(k)' <=> DeclaresInit(k)
    <2>1. DeclaresInit(k)' <=> \E i \in DOMAIN meths' : meths'[i].rec = k /\ meths'[i].initf
      BY DEF DeclaresInit, Methods
    <2>2. DeclaresInit(k) <=> \E i \in DOMAIN meths : meths[i].rec = k /\ meths[i].initf
      BY DEF DeclaresInit, Methods
    <2> QED
      BY <2>1, <2>2 DEF Keeps
  <1>3. Declaring(r)' = Declaring(r)
    BY <1>1, <1>2 DEF Declaring
  <1>4. Declaring(r) \subseteq Chain(r)
    BY DEF Declaring
  <1>5. ASSUME NEW i
        PROVE  i \in Governing(r)' <=> i \in Governing(r)
    <2>1. i \in Governing(r)' <=> /\ i \in DOMAIN meths' /\ meths'[i].rec \in Declaring(r)
                                  /\ meths'[i].initf
                                  /\ \A k \in Declaring(r) : k <= meths'[i].rec
      BY <1>3 DEF Governing, Methods
    <2>2. i \in Governing(r) <=> /\ i \in DOMAIN meths /\ meths[i].rec \in Declaring(r)
                                 /\ meths[i].initf
                                 /\ \A k \in Declaring(r) : k <= meths[i].rec
      BY DEF Governing, Methods
    <2> QED
      BY <1>4, <2>1, <2>2 DEF Keeps
  <1> QED
    BY <1>2, <1>5

(* A step that declares no initialiser for what is settled. *)
LEMMA ConstructionsKept ==
    ASSUME SlotsInv, Constructions, Keeps, UNCHANGED <<news, made>>,
           \A r \in DOMAIN recs : Settled(r) => Settled(r)',
           \A i \in DOMAIN meths' : i \notin DOMAIN meths => ~meths'[i].initf
    PROVE  Constructions'
  <1> USE DEF SlotsInv
  <1>1. \A r \in DOMAIN recs : /\ Governing(r)' = Governing(r) /\ Chain(r)' = Chain(r)
                               /\ \A k \in Chain(r) : DeclaresInit(k)' <=> DeclaresInit(k)
    BY GoverningKept, ChainsKept
  <1>2. news \subseteq DOMAIN recs /\ \A x \in made : x[1] \in DOMAIN recs
    BY DEF TypeOK
  <1>3. \A r \in news' : Settled(r)' /\ \A k \in Chain(r)' : ~DeclaresInit(k)'
    BY <1>1, <1>2 DEF Constructions
  <1>4. \A x \in made' : Settled(x[1])' /\ x[2] \in Governing(x[1])'
    BY <1>1, <1>2 DEF Constructions
  <1>5. ASSUME NEW i \in DOMAIN meths', meths'[i].initf, meths'[i].over = 0,
               NEW b \in Governing(recs[meths[i].rec].base)'
        PROVE  ~meths'[b].expo /\ recs'[meths'[b].rec].mod # recs'[meths'[i].rec].mod
    <2>1. i \in DOMAIN meths /\ meths'[i] = meths[i]
      BY <1>5 DEF Keeps
    <2>2. PICK r : r = recs[meths[i].rec].base
      OBVIOUS
    <2>3. meths[i].rec \in DOMAIN recs /\ (r = 0 \/ r \in DOMAIN recs)
      BY <2>1, <2>2, BaseType DEF Declared
    <2>4. recs'[meths'[i].rec].base = r
      BY <2>1, <2>2, <2>3 DEF Keeps
    <2>5. Governing(recs[meths[i].rec].base)' = Governing(r)'
      BY <2>4
    <2>6. b \in Governing(r)
      BY <1>5, <2>3, <2>5, GoverningKept
    <2>7. b \in DOMAIN meths /\ meths[b].rec \in DOMAIN recs
      BY <2>3, <2>6, GoverningFacts DEF Declared
    <2>8. ~meths[b].expo /\ recs[meths[b].rec].mod # recs[meths[i].rec].mod
      BY <1>5, <2>1, <2>2, <2>6 DEF Constructions
    <2> QED
      BY <2>1, <2>3, <2>7, <2>8 DEF Keeps
  <1> QED
    BY <1>3, <1>4, <1>5 DEF Constructions

LEMMA InitConstructions ==
    ASSUME InOrder, SlotsInv, Constructions, NEW r \in DOMAIN recs, NEW n \in InitName,
           NEW expo \in BOOLEAN, NEW sig \in Sig,
           NEW over \in 0 .. Len(meths), BindInit(r, n, expo, sig, over)
    PROVE  Constructions'
  <1> USE DEF SlotsInv
  <1>1. PICK m \in Method :
          /\ m = [rec |-> r, name |-> n, expo |-> expo, initf |-> TRUE,
                  slot |-> -1, sig |-> sig, over |-> over]
          /\ over = 0 => \A b \in Governing(recs[r].base) : ~Visible(b)
          /\ \A k \in DOMAIN recs : r \in recs[k].bases => ~DeclaresInit(k)
          /\ Bound(m) /\ Keeps /\ UNCHANGED recs
    BY InitFacts
  <1>2. m.rec = r /\ m.initf = TRUE /\ m.over = over
    BY <1>1
  <1>3. PICK l : l = Len(meths) + 1
    OBVIOUS
  <1>4. /\ Len(meths) \in Nat /\ DOMAIN meths = 1 .. Len(meths)
        /\ DOMAIN meths' = 1 .. l /\ meths'[l] = m
        /\ \A i \in DOMAIN meths : meths'[i] = meths[i]
        /\ part = "procedures" /\ recs[r].mod = unit
        /\ UNCHANGED <<unit, part, recs, news, made>>
    BY <1>1, <1>2, <1>3, Types DEF Bound, Keeps
  <1>5. \A i \in DOMAIN meths' : i \notin DOMAIN meths => i = l
    BY <1>3, <1>4
  <1>6. unit \in Nat /\ \A k \in DOMAIN recs : recs[k].mod \in Nat
    BY Types DEF TypeOK, Record
  (* r is in no chain that is settled. *)
  <1>7. ASSUME NEW d \in DOMAIN recs, r \notin Chain(d)
        PROVE  /\ Governing(d)' = Governing(d) /\ Chain(d)' = Chain(d)
               /\ \A k \in Chain(d) : DeclaresInit(k)' <=> DeclaresInit(k)
    BY <1>1, <1>2, <1>4, <1>5, <1>7, GoverningKept, ChainsKept
  <1>8. ASSUME NEW d \in DOMAIN recs, Settled(d)
        PROVE  r \notin Chain(d) /\ Settled(d)'
    <2>1. recs[d].mod < unit
      BY <1>4, <1>8 DEF Settled
    <2> QED
      BY <1>4, <1>6, <2>1, Chains DEF Settled
  <1>9. news \subseteq DOMAIN recs /\ \A x \in made : x[1] \in DOMAIN recs
    BY DEF TypeOK
  <1>10. \A d \in news' : Settled(d)' /\ \A k \in Chain(d)' : ~DeclaresInit(k)'
    BY <1>4, <1>7, <1>8, <1>9 DEF Constructions
  <1>11. \A x \in made' : Settled(x[1])' /\ x[2] \in Governing(x[1])'
    BY <1>4, <1>7, <1>8, <1>9 DEF Constructions
  <1>12. ASSUME NEW i \in DOMAIN meths', meths'[i].initf, meths'[i].over = 0,
                NEW b \in Governing(recs[meths[i].rec].base)'
         PROVE  ~meths'[b].expo /\ recs'[meths'[b].rec].mod # recs'[meths'[i].rec].mod
    <2>1. PICK q : q = meths'[i].rec
      OBVIOUS
    <2>2. q \in DOMAIN recs /\ r \notin recs[q].bases
      <3>1. CASE i = l
        BY <1>2, <1>4, <2>1, <3>1, Chains
      <3>2. CASE i \in DOMAIN meths
        <4>1. q \in DOMAIN recs /\ q = meths[i].rec /\ meths[i].initf
          BY <1>4, <1>12, <2>1, <3>2 DEF Declared
        <4>2. DeclaresInit(q)
          BY <3>2, <4>1 DEF DeclaresInit, Methods
        <4> QED
          BY <1>1, <4>1, <4>2
      <3> QED
        BY <1>5, <3>1, <3>2
    <2>3. PICK g : g = recs[q].base
      OBVIOUS
    <2>4. (g = 0 \/ g \in DOMAIN recs) /\ r \notin Chain(g)
      BY <2>2, <2>3, BaseType
    <2>5. Governing(recs[meths[i].rec].base)' = Governing(g)'
      BY <1>4, <2>1, <2>3
    <2>6. b \in Governing(g)
      BY <1>1, <1>2, <1>4, <1>5, <1>12, <2>4, <2>5, GoverningKept
    <2>7. b \in DOMAIN meths /\ meths'[b] = meths[b]
      BY <1>4, <2>4, <2>6, GoverningFacts
    <2>8. CASE i = l
      <3>1. q = r /\ ~Visible(b)
        BY <1>1, <1>2, <1>4, <1>12, <2>1, <2>3, <2>6, <2>8
      <3> QED
        BY <1>4, <2>1, <2>7, <3>1 DEF Visible
    <2>9. CASE i \in DOMAIN meths
      BY <1>4, <1>12, <2>1, <2>3, <2>6, <2>7, <2>9 DEF Constructions
    <2> QED
      BY <1>5, <2>8, <2>9
  <1> QED
    BY <1>10, <1>11, <1>12 DEF Constructions

(* An allocation or a constructor call is in a body: what it is for will     *)
(* get no other initialisers. *)
LEMMA UsesConstructions ==
    ASSUME InOrder, SlotsInv, Constructions, Uses
    PROVE  Constructions'
  <1> USE DEF SlotsInv
  <1>1. UNCHANGED <<unit, recs, meths, td>>
    BY UsesKeep
  <1>2. Keeps /\ \A i \in DOMAIN meths' : i \in DOMAIN meths
    BY <1>1 DEF Keeps
  <1>3. CASE UNCHANGED <<news, made>> /\ (part \in {"body", "done"} => part' = part)
    <2>1. \A r \in DOMAIN recs : Settled(r) => Settled(r)'
      BY <1>1, <1>3 DEF Settled
    <2> QED
      BY <1>2, <1>3, <2>1, ConstructionsKept
  <1>4. ASSUME part = "body", part' = part, NEW r \in DOMAIN recs,
               \A k \in Chain(r) : ~DeclaresInit(k),
               news' = news \cup {r}, made' = made
        PROVE  Constructions'
    <2>1. \A k \in DOMAIN recs : /\ Settled(k)' /\ Chain(k)' = Chain(k)
                                 /\ Governing(k)' = Governing(k)
      BY <1>1, <1>2, <1>4, GoverningKept, ChainsKept DEF Settled
    <2>2. \A k : DeclaresInit(k)' <=> DeclaresInit(k)
      BY <1>1 DEF DeclaresInit, Methods
    <2>3. news \subseteq DOMAIN recs /\ \A x \in made : x[1] \in DOMAIN recs
      BY DEF TypeOK
    <2>4. \A d \in news' : Settled(d)' /\ \A k \in Chain(d)' : ~DeclaresInit(k)'
      BY <1>4, <2>1, <2>2, <2>3 DEF Constructions
    <2>5. \A x \in made' : Settled(x[1])' /\ x[2] \in Governing(x[1])'
      BY <1>4, <2>1, <2>3 DEF Constructions
    <2>6. \A i : Governing(recs[meths[i].rec].base)' = Governing(recs[meths[i].rec].base)
      BY <1>1 DEF Governing, Methods, Declaring, DeclaresInit, Chain
    <2> QED
      BY <1>1, <2>4, <2>5, <2>6 DEF Constructions
  <1>5. ASSUME part = "body", part' = part, NEW r \in DOMAIN recs, NEW n,
               thisinit(r, n) # 0,
               made' = made \cup {<< r, thisinit(r, n) >>}, news' = news
        PROVE  Constructions'
    <2>1. \A k \in DOMAIN recs : /\ Settled(k)' /\ Chain(k)' = Chain(k)
                                 /\ Governing(k)' = Governing(k)
      BY <1>1, <1>2, <1>5, GoverningKept, ChainsKept DEF Settled
    <2>2. \A k : DeclaresInit(k)' <=> DeclaresInit(k)
      BY <1>1 DEF DeclaresInit, Methods
    <2>3. news \subseteq DOMAIN recs /\ \A x \in made : x[1] \in DOMAIN recs
      BY DEF TypeOK
    <2>4. \A d \in news' : Settled(d)' /\ \A k \in Chain(d)' : ~DeclaresInit(k)'
      BY <1>5, <2>1, <2>2, <2>3 DEF Constructions
    <2>5. PICK id : id = thisinit(r, n)
      OBVIOUS
    <2>6. id \in Governing(r) /\ made' = made \cup {<< r, id >>}
      BY <1>5, <2>5, ThisInit
    <2>7. \A x \in made' : Settled(x[1])' /\ x[2] \in Governing(x[1])'
      BY <2>1, <2>3, <2>6 DEF Constructions
    <2>8. \A i : Governing(recs[meths[i].rec].base)' = Governing(recs[meths[i].rec].base)
      BY <1>1 DEF Governing, Methods, Declaring, DeclaresInit, Chain
    <2> QED
      BY <1>1, <2>4, <2>7, <2>8 DEF Constructions
  <1>6. CASE \/ InterfaceType \/ EndInterface \/ Procedures \/ Begin
             \/ \E j \in DOMAIN intfs : IncludeInterface(j)
             \/ \E n \in Member, sig \in Sig : Require(n, sig)
             \/ \E r \in DOMAIN recs, i \in DOMAIN intfs : ORG_PtrToIface(r, i)
             \/ UNCHANGED vars
    <2>1. UNCHANGED <<news, made>> /\ (part \in {"body", "done"} => part' = part)
      BY <1>6 DEF InterfaceType, EndInterface, Procedures, Begin, IncludeInterface,
                  Require, ORG_PtrToIface, vars
    <2> QED
      BY <1>3, <2>1
  <1>7. CASE \E r \in DOMAIN recs : New(r)
    <2>1. PICK r \in DOMAIN recs : New(r)
      BY <1>7
    <2>2. \A k \in Chain(r) : ~DeclaresInit(k)
      BY <2>1 DEF New, ORB_HasInits, Declaring
    <2>3. part = "body" /\ part' = part /\ news' = news \cup {r} /\ made' = made
      BY <2>1 DEF New, Statement
    <2> QED
      BY <1>4, <2>2, <2>3
  <1>8. CASE \E r \in DOMAIN recs, n \in InitName : ConstructorCall(r, n)
    <2>1. PICK r \in DOMAIN recs, n \in InitName : ConstructorCall(r, n)
      BY <1>8
    <2>2. /\ part = "body" /\ part' = part /\ news' = news /\ thisinit(r, n) # 0
          /\ made' = made \cup {<< r, thisinit(r, n) >>}
      BY <2>1 DEF ConstructorCall, Statement
    <2> QED
      BY <1>5, <2>2
  <1> QED
    BY <1>6, <1>7, <1>8 DEF Uses

LEMMA ConstructionsStep ==
    ASSUME InOrder, SlotsInv, Constructions, Next \/ UNCHANGED vars
    PROVE  Constructions'
  <1> USE DEF SlotsInv
  <1>1. CASE \E base \in 0 .. Len(recs), impl \in SUBSET DOMAIN intfs : RecordType(base, impl)
    <2>1. PICK base \in 0 .. Len(recs), impl \in SUBSET DOMAIN intfs : RecordType(base, impl)
      BY <1>1
    <2>2. Keeps /\ UNCHANGED <<unit, part, meths, news, made>>
      BY <2>1, RecordFacts
    <2>3. \A r \in DOMAIN recs : Settled(r) => Settled(r)'
      BY <2>2 DEF Settled, Keeps
    <2> QED
      BY <2>2, <2>3, ConstructionsKept
  <1>2. ASSUME NEW m, Bound(m), Keeps, ~m.initf
        PROVE  Constructions'
    <2>1. UNCHANGED <<unit, part, news, made>>
      BY <1>2 DEF Bound
    <2>2. \A i \in DOMAIN meths' : i \notin DOMAIN meths => ~meths'[i].initf
      BY <1>2, Types DEF Bound
    <2>3. \A r \in DOMAIN recs : Settled(r) => Settled(r)'
      BY <1>2, <2>1 DEF Settled, Keeps
    <2> QED
      BY <1>2, <2>1, <2>2, <2>3, ConstructionsKept
  <1>3. CASE \E r \in DOMAIN recs, n \in Name, expo \in BOOLEAN, sig \in Sig :
                Override(r, n, expo, sig)
    <2>1. PICK r \in DOMAIN recs, n \in Name, expo \in BOOLEAN, sig \in Sig :
             Override(r, n, expo, sig)
      BY <1>3
    <2>2. PICK m \in Method : m.initf = FALSE /\ Bound(m) /\ Keeps
      BY <2>1, OverrideFacts
    <2> QED
      BY <1>2, <2>2
  <1>4. CASE \E r \in DOMAIN recs, n \in Name, expo \in BOOLEAN, sig \in Sig :
                NewMethod(r, n, expo, sig)
    <2>1. PICK r \in DOMAIN recs, n \in Name, expo \in BOOLEAN, sig \in Sig :
             NewMethod(r, n, expo, sig)
      BY <1>4
    <2>2. PICK m \in Method : m.initf = FALSE /\ Bound(m) /\ Keeps
      BY <2>1, NewMethodFacts
    <2> QED
      BY <1>2, <2>2
  <1>5. CASE \E r \in DOMAIN recs, n \in InitName, expo \in BOOLEAN, sig \in Sig,
                over \in 0 .. Len(meths) : BindInit(r, n, expo, sig, over)
    BY <1>5, InitConstructions
  <1>6. CASE Close
    <2>1. unit' = unit + 1 /\ UNCHANGED <<recs, intfs, meths, itab, news, made>>
      BY <1>6 DEF Close
    <2>2. unit \in Nat /\ \A r \in DOMAIN recs : recs[r].mod \in Nat /\ recs[r].mod <= unit
      BY Types DEF TypeOK, Record, Tree
    <2>3. \A r \in DOMAIN recs : Settled(r)'
      BY <2>1, <2>2 DEF Settled
    <2>4. Keeps
      BY <2>1 DEF Keeps
    <2> QED
      BY <2>1, <2>3, <2>4, ConstructionsKept
  <1>7. CASE Uses
    BY <1>7, UsesConstructions
  <1> QED
    BY <1>1, <1>3, <1>4, <1>5, <1>6, <1>7, NextCases

LEMMA ConstructionsAlways == ASSUME InOrder PROVE Spec => [](SlotsInv /\ Constructions)
  <1>1. Init => Constructions
    <2> SUFFICES ASSUME Init PROVE Constructions
      OBVIOUS
    <2>1. meths = << >> /\ news = {} /\ made = {}
      BY DEF Init
    <2>2. DOMAIN << >> = {}
      OBVIOUS
    <2> QED
      BY <2>1, <2>2 DEF Constructions
  <1>2. SlotsInv /\ Constructions /\ [Next]_vars => Constructions'
    BY ConstructionsStep
  <1> QED
    BY <1>1, <1>2, InitSlotsInv, SlotsStep, PTL DEF Spec

(* Nothing that has an initialiser was allocated without one, when members   *)
(* are declared before they are used. *)
THEOREM NoBareAlways == ASSUME InOrder PROVE Spec => []NoBareObject
  <1>1. Constructions => NoBareObject
    BY DEF Constructions, NoBareObject
  <1> QED
    BY <1>1, ConstructionsAlways, PTL

(* A constructor runs an initialiser that claims the type; its text calls    *)
(* one of the base types', that one's text does, and so on until none can be *)
(* seen, when members are declared before they are used.  Whether a call     *)
(* that is in the text is made is left open. *)
THEOREM ChainedAlways == ASSUME InOrder PROVE Spec => []ChainedInits
  <1>1. SlotsInv /\ Constructions => ChainedInits
    <2> SUFFICES ASSUME SlotsInv, Constructions, NEW x \in made
                 PROVE  /\ x[2] \in Governing(x[1])
                        /\ \A id \in Overridden(x[2]) :
                              meths[id].over = 0 =>
                                  \A b \in Governing(recs[meths[id].rec].base) :
                                      /\ ~meths[b].expo
                                      /\ recs[meths[b].rec].mod # recs[meths[id].rec].mod
      BY DEF ChainedInits
    <2> USE DEF SlotsInv
    <2>1. x[2] \in Governing(x[1]) /\ x[1] \in DOMAIN recs
      BY DEF Constructions, TypeOK
    <2>2. x[2] \in DOMAIN meths /\ meths[x[2]].initf
      BY <2>1, GoverningFacts
    <2>3. PICK S : S = { y \in DOMAIN meths : meths[y].initf }
      OBVIOUS
    <2>4. \A y \in S : meths[y].over # 0 => meths[y].over \in S
      BY <2>3, OverIsEarlier DEF Declared
    <2>5. Overridden(x[2]) \subseteq S
      BY <2>2, <2>3, <2>4, OverriddenClosed
    <2>6. \A id \in Overridden(x[2]) : id \in DOMAIN meths /\ meths[id].initf
      BY <2>3, <2>5
    <2> QED
      BY <2>1, <2>6 DEF Constructions
  <1> QED
    BY <1>1, ConstructionsAlways, PTL

-----------------------------------------------------------------------------
(* Methods of one name. *)

(* The method named n that is found from r is of the nearest record that has *)
(* one. *)
LEMMA MethodFound ==
    ASSUME TypeOK, Declared, NEW r, NEW n,
           NEW i \in Methods(Chain(r)), ~meths[i].initf, meths[i].name = n
    PROVE  LET f == ORB_FindMeth(r, n) IN
           /\ f \in DOMAIN meths /\ f # 0 /\ ~meths[f].initf /\ meths[f].name = n
           /\ meths[f].rec \in Chain(r) /\ meths[i].rec <= meths[f].rec
  <1> DEFINE ids == { id \in Methods(Chain(r)) : ~meths[id].initf /\ meths[id].name = n }
  <1>1. ids \in SUBSET DOMAIN meths /\ i \in ids
    BY DEF Methods
  <1>2. ORB_FindMeth(r, n) = Nearest(ids)
    BY DEF ORB_FindMeth
  <1>3. PICK f : f = Nearest(ids)
    OBVIOUS
  <1>4. f \in ids /\ f # 0 /\ meths[i].rec <= meths[f].rec
    BY <1>1, <1>3, NearestFound
  <1> QED
    BY <1>2, <1>3, <1>4 DEF Methods

(* Of two methods in a chain one is of a base of the other's record, or of   *)
(* the same. *)
LEMMA OneOverTheOther ==
    ASSUME SlotsInv, SameName, NEW d \in DOMAIN recs,
           NEW i \in DOMAIN meths, NEW j \in DOMAIN meths,
           meths[i].rec \in Chain(d), meths[j].rec \in Chain(d),
           meths[i].slot >= 0, meths[j].slot >= 0,
           meths[i].name = meths[j].name, meths[i].name \notin Private
    PROVE  meths[i].slot = meths[j].slot /\ MethodSigMatch(meths[i].sig, meths[j].sig)
  <1>1. meths[j].rec \in Chain(meths[i].rec) \/ meths[i].rec \in Chain(meths[j].rec)
    BY Chains DEF SlotsInv
  <1> QED
    BY <1>1 DEF SameName, MethodSigMatch

(* What a record has of a name agrees with the method that is found for it,  *)
(* if that has a slot. *)
LEMMA FoundAgrees ==
    ASSUME SlotsInv, SameName, NEW r \in DOMAIN recs, NEW n, n \notin Private,
           NEW i \in Methods(Chain(r)), ~meths[i].initf, meths[i].name = n,
           NEW f, f = ORB_FindMeth(r, n), meths[f].slot >= 0
    PROVE  meths[i].slot = meths[f].slot /\ MethodSigMatch(meths[f].sig, meths[i].sig)
  <1>1. /\ f \in DOMAIN meths /\ meths[f].name = n
        /\ meths[f].rec \in Chain(r) /\ meths[i].rec <= meths[f].rec
    BY MethodFound DEF SlotsInv
  <1>2. i \in DOMAIN meths /\ meths[i].rec \in Chain(r)
    BY DEF Methods
  <1>3. meths[i].rec \in Chain(meths[f].rec)
    <2>1. meths[i].rec \in Nat /\ meths[f].rec \in Nat
      BY <1>1, <1>2, Types DEF SlotsInv, Method
    <2>2. CASE meths[i].rec = meths[f].rec
      BY <1>1, <2>2, Chains DEF SlotsInv, Declared
    <2>3. CASE meths[i].rec < meths[f].rec
      <3>1. meths[i].rec \in recs[meths[f].rec].bases
        BY <1>1, <1>2, <2>3, Chains DEF SlotsInv
      <3> QED
        BY <1>1, <3>1, Chains DEF SlotsInv, Declared
    <2> QED
      BY <1>1, <2>1, <2>2, <2>3
  <1> QED
    BY <1>1, <1>2, <1>3 DEF SameName

(* What declarations leave alone. *)
LEMMA SameNameKept ==
    ASSUME SlotsInv, SameName, Keeps, UNCHANGED meths
    PROVE  SameName'
  <1> SUFFICES ASSUME NEW i \in DOMAIN meths, NEW j \in DOMAIN meths,
                      meths[i].slot >= 0,
                      meths[i].name = meths[j].name, meths[i].name \notin Private,
                      meths[j].rec \in Chain(meths[i].rec)'
               PROVE  meths[i].slot = meths[j].slot
                      /\ MethodSigMatch(meths[i].sig, meths[j].sig)
    BY DEF SameName, MethodSigMatch
  <1>1. PICK r : r = meths[i].rec
    OBVIOUS
  <1>2. r \in DOMAIN recs /\ Chain(r)' = Chain(r)
    BY <1>1, ChainsKept DEF SlotsInv, Declared
  <1>3. Chain(meths[i].rec)' = Chain(r)'
    BY <1>1
  <1> QED
    BY <1>1, <1>2, <1>3 DEF SameName

(* A declaration that agrees with those of its name in the bases and in the  *)
(* extensions. *)
LEMMA SameNameBound ==
    ASSUME SlotsInv, SameName, Keeps, NEW m \in Method, Bound(m),
           m.name \in Private \/
           \A j \in DOMAIN meths :
              /\ meths[j].name = m.name
              /\ \/ m.slot >= 0 /\ meths[j].rec \in Chain(m.rec)
                 \/ meths[j].slot >= 0 /\ m.rec \in Chain(meths[j].rec)
              => m.slot = meths[j].slot /\ MethodSigMatch(m.sig, meths[j].sig)
    PROVE  SameName'
  <1> USE DEF SlotsInv
  <1>1. PICK l : l = Len(meths) + 1
    OBVIOUS
  <1>2. /\ Len(meths) \in Nat /\ DOMAIN meths = 1 .. Len(meths)
        /\ DOMAIN meths' = 1 .. l /\ meths'[l] = m
        /\ \A i \in DOMAIN meths : meths'[i] = meths[i]
        /\ m.rec \in DOMAIN recs
    BY <1>1, Types DEF Bound, Keeps
  <1>3. \A i \in DOMAIN meths' : i \notin DOMAIN meths => i = l
    BY <1>1, <1>2
  <1> SUFFICES ASSUME NEW i \in DOMAIN meths', NEW j \in DOMAIN meths',
                      meths'[i].slot >= 0,
                      meths'[i].name = meths'[j].name, meths'[i].name \notin Private,
                      meths'[j].rec \in Chain(meths[i].rec)'
               PROVE  meths'[i].slot = meths'[j].slot
                      /\ MethodSigMatch(meths'[i].sig, meths'[j].sig)
    BY DEF SameName, MethodSigMatch
  <1>4. PICK r : r = meths'[i].rec
    OBVIOUS
  <1>5. r \in DOMAIN recs /\ Chain(r)' = Chain(r) /\ meths'[j].rec \in Chain(r)
    <2>1. r \in DOMAIN recs
      BY <1>2, <1>3, <1>4 DEF Declared
    <2>2. Chain(meths[i].rec)' = Chain(r)'
      BY <1>4
    <2> QED
      BY <2>1, <2>2, ChainsKept
  <1>6. CASE i = l /\ j = l
    BY <1>6 DEF MethodSigMatch
  <1>7. CASE i \in DOMAIN meths /\ j \in DOMAIN meths
    BY <1>2, <1>4, <1>5, <1>7 DEF SameName
  <1>8. CASE i = l /\ j \in DOMAIN meths
    BY <1>2, <1>4, <1>5, <1>8
  <1>9. CASE i \in DOMAIN meths /\ j = l
    <2>1. m.slot = meths[i].slot /\ MethodSigMatch(m.sig, meths[i].sig)
      BY <1>2, <1>4, <1>5, <1>9
    <2> QED
      BY <1>2, <1>9, <2>1 DEF MethodSigMatch
  <1> QED
    BY <1>3, <1>6, <1>7, <1>8, <1>9

LEMMA SameNameOverride ==
    ASSUME SlotsInv, SameName, NEW r \in DOMAIN recs, NEW n \in Name,
           NEW expo \in BOOLEAN, NEW sig \in Sig, Override(r, n, expo, sig)
    PROVE  SameName'
  <1> USE DEF SlotsInv
  <1>1. PICK bm : bm = Inherited(r, n)
    OBVIOUS
  <1>2. PICK m \in Method :
          /\ m = [rec |-> r, name |-> n, expo |-> expo, initf |-> FALSE,
                  slot |-> meths[bm].slot, sig |-> sig, over |-> bm]
          /\ bm # 0 /\ MethodSigMatch(sig, meths[bm].sig)
          /\ Bound(m) /\ Keeps
    BY <1>1, OverrideFacts
  <1>3. /\ m.rec = r /\ m.name = n /\ m.initf = FALSE /\ m.sig = sig
        /\ m.slot = meths[bm].slot
    BY <1>2
  <1>4. /\ bm \in DOMAIN meths /\ meths[bm].name = n /\ meths[bm].rec \in recs[r].bases
        /\ \A j \in DOMAIN meths : meths[j].rec \in recs[r].bases /\ meths[j].name = n
              /\ Visible(j) => meths[j].rec <= meths[bm].rec
    BY <1>1, <1>2, InheritedFound
  <1>5. \A i \in DOMAIN meths : meths[i].rec = r => meths[i].name # n
    BY <1>2, <1>3 DEF Bound
  <1>6. ASSUME n \notin Private, NEW j \in DOMAIN meths, meths[j].name = n,
               m.slot >= 0, meths[j].rec \in Chain(r)
        PROVE  m.slot = meths[j].slot /\ MethodSigMatch(m.sig, meths[j].sig)
    <2>1. Visible(j)
      BY <1>6 DEF Declared, Visible
    <2>2. meths[j].rec \in recs[r].bases
      BY <1>5, <1>6, Chains
    <2>3. meths[j].rec <= meths[bm].rec
      BY <1>4, <1>6, <2>1, <2>2
    <2>4. meths[bm].rec \in Chain(r) /\ meths[bm].rec \in DOMAIN recs /\ meths[j].rec \in DOMAIN recs
      BY <1>4, Chains DEF Declared
    <2>5. meths[j].rec \in Chain(meths[bm].rec)
      <3>1. meths[j].rec \in Nat /\ meths[bm].rec \in Nat
        BY <1>4, <1>6, Types DEF Method
      <3>2. CASE meths[j].rec = meths[bm].rec
        BY <2>4, <3>2, Chains
      <3>3. CASE meths[j].rec < meths[bm].rec
        <4>1. meths[j].rec \in recs[meths[bm].rec].bases
          BY <1>6, <2>4, <3>3, Chains
        <4> QED
          BY <2>4, <4>1, Chains
      <3> QED
        BY <2>3, <3>1, <3>2, <3>3
    <2>6. meths[bm].slot = meths[j].slot /\ MethodSigMatch(meths[bm].sig, meths[j].sig)
      BY <1>3, <1>4, <1>6, <2>5 DEF SameName
    <2> QED
      BY <1>2, <1>3, <2>6 DEF MethodSigMatch
  <1>7. ASSUME n \notin Private, NEW j \in DOMAIN meths, meths[j].name = n,
               meths[j].slot >= 0, r \in Chain(meths[j].rec)
        PROVE  m.slot = meths[j].slot /\ MethodSigMatch(m.sig, meths[j].sig)
    <2>1. meths[j].rec \in DOMAIN recs
      BY DEF Declared
    <2>2. meths[bm].rec \in Chain(meths[j].rec)
      BY <1>4, <1>7, <2>1, Chains
    <2>3. meths[j].slot = meths[bm].slot /\ MethodSigMatch(meths[j].sig, meths[bm].sig)
      BY <1>4, <1>7, <2>2 DEF SameName
    <2> QED
      BY <1>2, <1>3, <2>3 DEF MethodSigMatch
  <1> QED
    BY <1>2, <1>3, <1>6, <1>7, SameNameBound

(* Nothing of the name can be seen in the bases, and what an extension has   *)
(* of the name would have closed the slots of r. *)
LEMMA SameNameNew ==
    ASSUME SlotsInv, SameName, NEW r \in DOMAIN recs, NEW n \in Name,
           NEW expo \in BOOLEAN, NEW sig \in Sig, NewMethod(r, n, expo, sig)
    PROVE  SameName'
  <1> USE DEF SlotsInv
  <1>1. PICK m \in Method :
          /\ m.rec = r /\ m.name = n /\ m.initf = FALSE
          /\ Inherited(r, n) = 0 /\ ~recs[r].mfixed
          /\ Bound(m) /\ Keeps
    <2>1. PICK slot : slot = ORB_TotalMeths(r)
      OBVIOUS
    <2>2. PICK m \in Method :
            /\ m = [rec |-> r, name |-> n, expo |-> expo, initf |-> FALSE,
                    slot |-> slot, sig |-> sig, over |-> 0]
            /\ Inherited(r, n) = 0 /\ ~recs[r].mfixed
            /\ Bound(m) /\ Keeps
      BY <2>1, NewMethodFacts
    <2> QED
      BY <2>2
  <1>2. \A i \in DOMAIN meths : meths[i].rec = r => meths[i].name # n
    BY <1>1 DEF Bound
  <1>3. ASSUME n \notin Private, NEW j \in DOMAIN meths, meths[j].name = n
        PROVE  meths[j].rec \notin Chain(r)
    <2>1. Visible(j)
      BY <1>3 DEF Declared, Visible
    <2>2. PICK z : z = Inherited(r, n)
      OBVIOUS
    <2>3. meths[j].rec \notin recs[r].bases
      BY <1>1, <1>3, <2>1, <2>2, InheritedFound
    <2> QED
      BY <1>2, <1>3, <2>3, Chains
  <1>4. ASSUME n \notin Private, NEW j \in DOMAIN meths, meths[j].slot >= 0,
               meths[j].name = n, r \in Chain(meths[j].rec)
        PROVE  FALSE
    <2>1. PICK x \in Overridden(j) : First(x)
      BY <1>4, RootOf
    <2>2. /\ x \in DOMAIN meths /\ meths[x].name = n /\ meths[x].rec \in Chain(meths[j].rec)
          /\ meths[j].rec \in DOMAIN recs /\ meths[x].rec \in DOMAIN recs
      BY <1>4, <2>1, RootOf DEF Declared
    <2>3. meths[x].rec \in Chain(r) \/ r \in Chain(meths[x].rec)
      BY <1>4, <2>2, Chains
    <2>4. r \in Chain(meths[x].rec) /\ r # meths[x].rec
      BY <1>2, <1>3, <1>4, <2>2, <2>3
    <2>5. r \in recs[meths[x].rec].bases
      BY <2>2, <2>4, Chains
    <2> QED
      BY <1>1, <2>1, <2>2, <2>5 DEF Slots
  <1> QED
    BY <1>1, <1>3, <1>4, SameNameBound

(* Nothing of the name is in an extension yet. *)
LEMMA SameNameInit ==
    ASSUME InOrder, SlotsInv, SameName, NEW r \in DOMAIN recs, NEW n \in InitName,
           NEW expo \in BOOLEAN, NEW sig \in Sig,
           NEW over \in 0 .. Len(meths), BindInit(r, n, expo, sig, over)
    PROVE  SameName'
  <1> USE DEF SlotsInv
  <1>1. PICK m \in Method :
          /\ m = [rec |-> r, name |-> n, expo |-> expo, initf |-> TRUE,
                  slot |-> -1, sig |-> sig, over |-> over]
          /\ \A id \in DOMAIN meths : r \in recs[meths[id].rec].bases => meths[id].name # n
          /\ Bound(m) /\ Keeps
    BY InitFacts
  <1>2. m.rec = r /\ m.name = n /\ m.slot = -1
    BY <1>1
  <1>3. ASSUME NEW j \in DOMAIN meths, meths[j].name = n
        PROVE  r \notin Chain(meths[j].rec)
    <2>1. meths[j].rec \in DOMAIN recs /\ meths[j].rec # r
      BY <1>1, <1>2, <1>3 DEF Declared, Bound
    <2> QED
      BY <1>1, <1>3, <2>1, Chains
  <1> QED
    BY <1>1, <1>2, <1>3, SameNameBound

LEMMA SameNameStep == ASSUME InOrder PROVE SlotsInv /\ SameName /\ [Next]_vars => SameName'
  <1> SUFFICES ASSUME SlotsInv, SameName, Next \/ UNCHANGED vars PROVE SameName'
    OBVIOUS
  <1> USE DEF SlotsInv
  <1>1. CASE \E base \in 0 .. Len(recs), impl \in SUBSET DOMAIN intfs : RecordType(base, impl)
    <2>1. Keeps /\ UNCHANGED meths
      BY <1>1, RecordFacts
    <2> QED
      BY <2>1, SameNameKept
  <1>2. CASE \E r \in DOMAIN recs, n \in Name, expo \in BOOLEAN, sig \in Sig :
                Override(r, n, expo, sig)
    BY <1>2, SameNameOverride
  <1>3. CASE \E r \in DOMAIN recs, n \in Name, expo \in BOOLEAN, sig \in Sig :
                NewMethod(r, n, expo, sig)
    BY <1>3, SameNameNew
  <1>4. CASE \E r \in DOMAIN recs, n \in InitName, expo \in BOOLEAN, sig \in Sig,
                over \in 0 .. Len(meths) : BindInit(r, n, expo, sig, over)
    BY <1>4, SameNameInit
  <1>5. CASE Close \/ Uses
    <2>1. UNCHANGED <<recs, meths>>
      BY <1>5, UsesKeep DEF Close
    <2>2. Keeps
      BY <2>1 DEF Keeps
    <2> QED
      BY <2>1, <2>2, SameNameKept
  <1> QED
    BY <1>1, <1>2, <1>3, <1>4, <1>5, NextCases

-----------------------------------------------------------------------------
(* Interfaces, when members are declared before they are used. *)

(* The members of an interface have an index each, and include those of the  *)
(* interfaces it includes, which were declared before. *)
Indexed ==
    \A i \in DOMAIN intfs :
        /\ intfs[i].incl \subseteq 1 .. i
        /\ \A m \in intfs[i].meth : m.val < intfs[i].nofmeth
        /\ \A m, q \in intfs[i].meth : m.val = q.val => m = q
        /\ \A j \in intfs[i].incl : \A m \in intfs[j].meth :
              \E q \in intfs[i].meth : q.name = m.name /\ q.sig.par = m.sig.par

(* The interface that is being read is not in use yet. *)
Fresh ==
    /\ \A r \in DOMAIN recs : recs[r].impl \subseteq DOMAIN intfs
    /\ part = "interface" =>
          /\ \A r \in DOMAIN recs : This \notin recs[r].impl
          /\ \A x \in DOMAIN itab : x[3] # This

(* A method of r, its own or inherited, that is what the member asks for. *)
Provides(id, r, m) ==
    /\ id \in DOMAIN meths /\ meths[id].rec \in Chain(r) /\ ~meths[id].initf
    /\ meths[id].name = m.name /\ meths[id].sig.par = m.sig.par

(* The same, but of a method without a slot the signature is not asked. *)
Answers(id, r, m) ==
    /\ id \in DOMAIN meths /\ meths[id].rec \in Chain(r) /\ ~meths[id].initf
    /\ meths[id].name = m.name /\ (meths[id].slot >= 0 => meths[id].sig.par = m.sig.par)

(* A settled record has what its own list asks for. *)
Conformant ==
    \A r \in DOMAIN recs : Settled(r) =>
        \A i \in recs[r].impl : \A m \in intfs[i].meth : \E id \in DOMAIN meths : Provides(id, r, m)

(* The tables there are have a slot of such a method at every member's index. *)
Converted ==
    \A x \in DOMAIN itab : \A m \in intfs[x[3]].meth :
        /\ m.val \in DOMAIN itab[x]
        /\ \E id \in DOMAIN meths : Answers(id, x[2], m) /\ itab[x][m.val] = meths[id].slot

InterfaceInv == SlotsInv /\ SameName /\ Indexed /\ Fresh /\ Conformant /\ Converted

LEMMA IndexedInclude ==
    ASSUME TypeOK, Indexed, NEW j \in DOMAIN intfs, IncludeInterface(j)
    PROVE  Indexed'
  <1> DEFINE fr == { m \in intfs[j].meth : \A q \in intfs[This].meth : q.name # m.name }
  <1>1. PICK t : t = This
    OBVIOUS
  <1>2. PICK this : this = intfs[t]
    OBVIOUS
  <1>3. PICK fresh : fresh = fr
    OBVIOUS
  <1>4. /\ t \in DOMAIN intfs /\ j # t /\ IsFiniteSet(fresh)
        /\ \A m \in intfs[j].meth, q \in this.meth : q.name = m.name => q.sig.par = m.sig.par
        /\ DOMAIN intfs' = DOMAIN intfs
        /\ \A i \in DOMAIN intfs : i # t => intfs'[i] = intfs[i]
        /\ intfs'[t].meth = this.meth \cup { Include(this.nofmeth, fresh, m) : m \in fresh }
        /\ intfs'[t].nofmeth = this.nofmeth + Cardinality(fresh)
        /\ intfs'[t].incl = this.incl \cup intfs[j].incl
    BY <1>1, <1>2, <1>3, IncludeFacts
  <1>5. t = Len(intfs) /\ Len(intfs) \in Nat /\ DOMAIN intfs = 1 .. Len(intfs)
    BY <1>1, Types DEF This
  <1>6. j < t /\ \A i \in DOMAIN intfs : i # t => i < t
    BY <1>4, <1>5
  <1>7. /\ this \in Interface /\ intfs[j] \in Interface
        /\ fresh = { m \in intfs[j].meth : \A q \in this.meth : q.name # m.name }
    BY <1>1, <1>2, <1>3, <1>4, Types
  <1>8. /\ this.nofmeth \in Nat /\ fresh \in SUBSET [name : Member, sig : Sig, val : Nat]
        /\ \A m \in this.meth \cup fresh : m.val \in Nat
    BY <1>7 DEF Interface
  <1>9. PICK slot : slot = this.nofmeth
    OBVIOUS
  <1>10. PICK c : c = Cardinality(fresh)
    OBVIOUS
  <1>11. /\ c \in Nat /\ slot \in Nat
         /\ \A m \in fresh :
               /\ Include(slot, fresh, m).name = m.name
               /\ Include(slot, fresh, m).sig = m.sig
               /\ Include(slot, fresh, m).val \in slot .. slot + c - 1
         /\ \A m, q \in fresh : m.val < q.val =>
               Include(slot, fresh, m).val < Include(slot, fresh, q).val
    BY <1>4, <1>8, <1>9, <1>10, Included
  <1>12. PICK new : new = { Include(slot, fresh, m) : m \in fresh }
    OBVIOUS
  <1>13. /\ intfs'[t].meth = this.meth \cup new /\ intfs'[t].nofmeth = slot + c
         /\ intfs'[t].incl = this.incl \cup intfs[j].incl
    BY <1>4, <1>9, <1>10, <1>12
  <1>14. /\ \A m \in this.meth : m.val < slot
         /\ \A m, q \in this.meth : m.val = q.val => m = q
         /\ \A m, q \in fresh : m.val = q.val => m = q
    BY <1>2, <1>4, <1>7, <1>9 DEF Indexed
  <1>15. \A i \in DOMAIN intfs : i # t => intfs[i].incl \subseteq 1 .. i
    BY DEF Indexed
  <1>16. ASSUME NEW i \in DOMAIN intfs, i # t
         PROVE  /\ intfs'[i].incl \subseteq 1 .. i
                /\ \A m \in intfs'[i].meth : m.val < intfs'[i].nofmeth
                /\ \A m, q \in intfs'[i].meth : m.val = q.val => m = q
                /\ \A k \in intfs'[i].incl : \A m \in intfs'[k].meth :
                      \E q \in intfs'[i].meth : q.name = m.name /\ q.sig.par = m.sig.par
    <2>1. \A k \in 1 .. i : k \in DOMAIN intfs /\ k # t
      BY <1>5, <1>6, <1>16
    <2> QED
      BY <1>4, <1>16, <2>1 DEF Indexed
  <1>17. intfs'[t].incl \subseteq 1 .. t
    <2>1. this.incl \subseteq 1 .. t /\ intfs[j].incl \subseteq 1 .. j
      BY <1>2, <1>4 DEF Indexed
    <2> QED
      BY <1>5, <1>6, <1>13, <2>1
  <1>18. \A m \in intfs'[t].meth : m.val < slot + c
    <2>1. \A m \in this.meth : m.val < slot + c
      BY <1>8, <1>11, <1>14
    <2>2. \A m \in new : m.val < slot + c
      BY <1>11, <1>12
    <2> QED
      BY <1>13, <2>1, <2>2
  <1>19. ASSUME NEW m \in this.meth \cup new, NEW q \in this.meth \cup new, m.val = q.val
         PROVE  m = q
    <2>1. \A e \in this.meth : e.val \in Nat /\ e.val < slot
      BY <1>8, <1>14
    <2>2. \A e \in new : e.val \in Nat /\ e.val >= slot
      BY <1>11, <1>12
    <2>3. CASE m \in this.meth /\ q \in this.meth
      BY <1>14, <1>19, <2>3
    <2>4. CASE m \in new /\ q \in new
      <3>1. PICK e \in fresh : m = Include(slot, fresh, e)
        BY <1>12, <2>4
      <3>2. PICK f \in fresh : q = Include(slot, fresh, f)
        BY <1>12, <2>4
      <3>3. m.val \in Nat /\ q.val \in Nat /\ e.val \in Nat /\ f.val \in Nat
        BY <1>8, <2>2, <2>4
      <3>4. e.val = f.val
        BY <1>11, <1>19, <3>1, <3>2, <3>3
      <3> QED
        BY <1>14, <3>1, <3>2, <3>4
    <2> QED
      BY <1>11, <1>19, <2>1, <2>2, <2>3, <2>4
  <1>20. ASSUME NEW m \in intfs[j].meth
         PROVE  \E q \in this.meth \cup new : q.name = m.name /\ q.sig.par = m.sig.par
    <2>1. CASE m \in fresh
      BY <1>11, <1>12, <2>1
    <2>2. CASE m \notin fresh
      BY <1>4, <1>7, <2>2
    <2> QED
      BY <2>1, <2>2
  <1>21. ASSUME NEW k \in this.incl \cup intfs[j].incl, NEW m \in intfs'[k].meth
         PROVE  \E q \in this.meth \cup new : q.name = m.name /\ q.sig.par = m.sig.par
    <2>1. CASE k = t
      BY <1>13, <1>21, <2>1
    <2>2. k \in DOMAIN intfs
      BY <1>5, <1>13, <1>17
    <2>3. CASE k # t /\ k \in this.incl
      BY <1>2, <1>4, <1>21, <2>2, <2>3 DEF Indexed
    <2>4. CASE k # t /\ k \in intfs[j].incl
      <3>1. PICK e \in intfs[j].meth : e.name = m.name /\ e.sig.par = m.sig.par
        BY <1>4, <1>21, <2>2, <2>4 DEF Indexed
      <3>2. PICK q \in this.meth \cup new : q.name = e.name /\ q.sig.par = e.sig.par
        BY <1>20
      <3> QED
        BY <3>1, <3>2
    <2> QED
      BY <1>21, <2>1, <2>3, <2>4
  <1> QED
    BY <1>4, <1>13, <1>16, <1>17, <1>18, <1>19, <1>21 DEF Indexed

LEMMA IndexedRequire ==
    ASSUME TypeOK, Indexed, NEW n \in Member, NEW sig \in Sig, Require(n, sig)
    PROVE  Indexed'
  <1>1. PICK t : t = This
    OBVIOUS
  <1>2. PICK this : this = intfs[t]
    OBVIOUS
  <1>3. PICK m : m = [name |-> n, sig |-> sig, val |-> this.nofmeth]
    OBVIOUS
  <1>4. /\ t \in DOMAIN intfs /\ DOMAIN intfs' = DOMAIN intfs
        /\ \A i \in DOMAIN intfs : i # t => intfs'[i] = intfs[i]
        /\ intfs'[t].meth = this.meth \cup {m}
        /\ intfs'[t].nofmeth = this.nofmeth + 1 /\ intfs'[t].incl = this.incl
    BY <1>1, <1>2, <1>3, RequireFacts
  <1>5. t = Len(intfs) /\ Len(intfs) \in Nat /\ DOMAIN intfs = 1 .. Len(intfs)
    BY <1>1, Types DEF This
  <1>6. this \in Interface
    BY <1>2, <1>4, Types
  <1>7. this.nofmeth \in Nat /\ m.val = this.nofmeth /\ \A q \in this.meth : q.val \in Nat
    BY <1>3, <1>6 DEF Interface
  <1>8. ASSUME NEW i \in DOMAIN intfs, i # t
        PROVE  /\ intfs'[i].incl \subseteq 1 .. i
               /\ \A q \in intfs'[i].meth : q.val < intfs'[i].nofmeth
               /\ \A p, q \in intfs'[i].meth : p.val = q.val => p = q
               /\ \A k \in intfs'[i].incl : \A p \in intfs'[k].meth :
                     \E q \in intfs'[i].meth : q.name = p.name /\ q.sig.par = p.sig.par
    <2>1. \A k \in 1 .. i : k \in DOMAIN intfs /\ k # t
      BY <1>5, <1>8
    <2> QED
      BY <1>4, <1>8, <2>1 DEF Indexed
  <1>9. /\ this.incl \subseteq 1 .. t
        /\ \A q \in this.meth : q.val < this.nofmeth
        /\ \A p, q \in this.meth : p.val = q.val => p = q
    BY <1>2, <1>4 DEF Indexed
  <1>10. \A q \in this.meth \cup {m} : q.val < this.nofmeth + 1
    BY <1>7, <1>9
  <1>11. \A p, q \in this.meth \cup {m} : p.val = q.val => p = q
    BY <1>7, <1>9
  <1>12. ASSUME NEW k \in this.incl, NEW p \in intfs'[k].meth
         PROVE  \E q \in this.meth \cup {m} : q.name = p.name /\ q.sig.par = p.sig.par
    <2>1. CASE k = t
      BY <1>4, <1>12, <2>1
    <2>2. CASE k # t
      BY <1>2, <1>4, <1>5, <1>9, <1>12, <2>2 DEF Indexed
    <2> QED
      BY <2>1, <2>2
  <1> QED
    BY <1>4, <1>8, <1>9, <1>10, <1>11, <1>12 DEF Indexed

LEMMA IndexedNew ==
    ASSUME TypeOK, Indexed, InterfaceType
    PROVE  Indexed'
  <1>1. PICK n : n = Len(intfs) + 1
    OBVIOUS
  <1>2. /\ DOMAIN intfs' = 1 .. n
        /\ \A i \in DOMAIN intfs : intfs'[i] = intfs[i]
        /\ intfs'[n] = [meth |-> {}, nofmeth |-> 0, incl |-> {n}]
    BY <1>1, InterfaceFacts
  <1>3. Len(intfs) \in Nat /\ DOMAIN intfs = 1 .. Len(intfs)
    BY Types
  <1>4. intfs'[n].meth = {} /\ intfs'[n].incl = {n} /\ n \in 1 .. n
    BY <1>1, <1>2, <1>3
  <1>5. \A i \in DOMAIN intfs' : i = n \/ (i \in DOMAIN intfs /\ 1 .. i \subseteq DOMAIN intfs)
    BY <1>1, <1>2, <1>3
  <1>6. ASSUME NEW i \in DOMAIN intfs, 1 .. i \subseteq DOMAIN intfs
        PROVE  /\ intfs'[i].incl \subseteq 1 .. i
               /\ \A q \in intfs'[i].meth : q.val < intfs'[i].nofmeth
               /\ \A p, q \in intfs'[i].meth : p.val = q.val => p = q
               /\ \A k \in intfs'[i].incl : \A p \in intfs'[k].meth :
                     \E q \in intfs'[i].meth : q.name = p.name /\ q.sig.par = p.sig.par
    BY <1>2, <1>6 DEF Indexed
  <1> QED
    BY <1>4, <1>5, <1>6 DEF Indexed

LEMMA ProvidesKept ==
    ASSUME SlotsInv, Keeps, NEW r \in DOMAIN recs, NEW m, NEW id, Provides(id, r, m)
    PROVE  Provides(id, r, m)'
  <1>1. Chain(r)' = Chain(r)
    BY ChainsKept
  <1> QED
    BY <1>1 DEF Provides, Keeps

LEMMA AnswersKept ==
    ASSUME SlotsInv, Keeps, NEW r \in DOMAIN recs, NEW m, NEW id, Answers(id, r, m)
    PROVE  Answers(id, r, m)'
  <1>1. Chain(r)' = Chain(r)
    BY ChainsKept
  <1> QED
    BY <1>1 DEF Answers, Keeps

(* A step that reads no interface, converts nothing and settles nothing. *)
LEMMA InterfaceKept ==
    ASSUME SlotsInv, Indexed, Fresh, Conformant, Converted, Keeps,
           UNCHANGED <<intfs, itab>>,
           part' = "interface" => part = "interface" /\ DOMAIN recs' = DOMAIN recs,
           \A r \in DOMAIN recs : Settled(r)' => Settled(r),
           \A r \in DOMAIN recs' : r \notin DOMAIN recs =>
              recs'[r].impl \subseteq DOMAIN intfs /\ ~Settled(r)'
    PROVE  Indexed' /\ Fresh' /\ Conformant' /\ Converted'
  <1>1. Indexed'
    BY DEF Indexed
  <1>2. Fresh'
    <2>1. \A r \in DOMAIN recs' : recs'[r].impl \subseteq DOMAIN intfs'
      BY DEF Fresh, Keeps
    <2>2. ASSUME part' = "interface"
          PROVE  /\ \A r \in DOMAIN recs' : This' \notin recs'[r].impl
                 /\ \A x \in DOMAIN itab' : x[3] # This'
      <3>1. This' = This /\ part = "interface" /\ DOMAIN recs' = DOMAIN recs
        BY <2>2 DEF This
      <3> QED
        BY <3>1 DEF Fresh, Keeps
    <2> QED
      BY <2>1, <2>2 DEF Fresh
  <1>3. Conformant'
    <2> SUFFICES ASSUME NEW r \in DOMAIN recs', Settled(r)',
                        NEW i \in recs'[r].impl, NEW m \in intfs[i].meth
                 PROVE  \E id \in DOMAIN meths' : Provides(id, r, m)'
      BY DEF Conformant
    <2>1. r \in DOMAIN recs /\ Settled(r) /\ i \in recs[r].impl
      BY DEF Keeps
    <2>2. PICK e : e = m
      OBVIOUS
    <2>3. PICK id \in DOMAIN meths : Provides(id, r, e)
      BY <2>1, <2>2 DEF Conformant
    <2>4. Provides(id, r, e)' /\ id \in DOMAIN meths'
      BY <2>1, <2>3, ProvidesKept DEF Keeps
    <2> QED
      BY <2>2, <2>4 DEF Provides
  <1>4. Converted'
    <2> SUFFICES ASSUME NEW x \in DOMAIN itab, NEW m \in intfs[x[3]].meth
                 PROVE  /\ m.val \in DOMAIN itab[x]
                        /\ \E id \in DOMAIN meths' : /\ Answers(id, x[2], m)'
                                                     /\ itab[x][m.val] = meths'[id].slot
      BY DEF Converted
    <2>1. PICK e : e = m
      OBVIOUS
    <2>2. PICK r : r = x[2]
      OBVIOUS
    <2>3. r \in DOMAIN recs
      BY <2>2 DEF SlotsInv, TypeOK
    <2>4. PICK id \in DOMAIN meths : Answers(id, r, e) /\ itab[x][e.val] = meths[id].slot
      BY <2>1, <2>2 DEF Converted
    <2>5. Answers(id, r, e)' /\ id \in DOMAIN meths' /\ meths'[id] = meths[id]
      BY <2>3, <2>4, AnswersKept DEF Keeps
    <2>6. m.val \in DOMAIN itab[x]
      BY DEF Converted
    <2> QED
      BY <2>1, <2>2, <2>4, <2>5, <2>6 DEF Answers
  <1> QED
    BY <1>1, <1>2, <1>3, <1>4

(* An item of an interface that is not in use yet. *)
LEMMA InterfaceRead ==
    ASSUME SlotsInv, Fresh, Conformant, Converted, NEW t,
           UNCHANGED <<unit, recs, meths, itab>>,
           part \notin {"body", "done"}, part' = "interface",
           This' = t, DOMAIN intfs \subseteq DOMAIN intfs',
           \A i \in DOMAIN intfs : i # t => intfs'[i] = intfs[i],
           \A r \in DOMAIN recs : t \notin recs[r].impl,
           \A x \in DOMAIN itab : x[3] # t
    PROVE  Fresh' /\ Conformant' /\ Converted'
  <1>1. Fresh'
    BY DEF Fresh
  <1>2. \A r : Settled(r)' => Settled(r)
    BY DEF Settled
  <1>3. \A id, r, m : /\ Provides(id, r, m)' <=> Provides(id, r, m)
                      /\ Answers(id, r, m)' <=> Answers(id, r, m)
    BY DEF Provides, Answers, Chain
  <1>4. Conformant'
    <2> SUFFICES ASSUME NEW r \in DOMAIN recs, Settled(r)',
                        NEW i \in recs[r].impl, NEW m \in intfs'[i].meth
                 PROVE  \E id \in DOMAIN meths : Provides(id, r, m)
      BY <1>3 DEF Conformant
    <2>1. i \in DOMAIN intfs /\ i # t
      BY DEF Fresh
    <2> QED
      BY <1>2, <2>1 DEF Conformant
  <1>5. Converted'
    <2> SUFFICES ASSUME NEW x \in DOMAIN itab, NEW m \in intfs'[x[3]].meth
                 PROVE  /\ m.val \in DOMAIN itab[x]
                        /\ \E id \in DOMAIN meths : /\ Answers(id, x[2], m)
                                                    /\ itab[x][m.val] = meths[id].slot
      BY <1>3 DEF Converted
    <2>1. x[3] \in DOMAIN intfs /\ x[3] # t
      BY DEF SlotsInv, TypeOK
    <2>2. m \in intfs[x[3]].meth
      BY <2>1
    <2> QED
      BY <2>2 DEF Converted
  <1> QED
    BY <1>1, <1>4, <1>5

(* The check at the end of the declarations. *)
LEMMA InterfaceBegin ==
    ASSUME InOrder, InterfaceInv, Begin
    PROVE  InterfaceInv'
  <1> USE DEF InterfaceInv
  <1>1. /\ part = "procedures" /\ part' = "body" /\ CheckConformance
        /\ UNCHANGED <<unit, recs, intfs, meths, td, itab, news, made>>
    BY DEF Begin
  <1>2. SlotsInv' /\ SameName'
    BY SlotsStep, SameNameStep DEF Next
  <1>3. Indexed' /\ Fresh'
    BY <1>1 DEF Indexed, Fresh
  <1>4. \A id, r, m : /\ Provides(id, r, m)' <=> Provides(id, r, m)
                      /\ Answers(id, r, m)' <=> Answers(id, r, m)
    BY <1>1 DEF Provides, Answers, Chain
  <1>5. Converted'
    BY <1>1, <1>4 DEF Converted
  <1>6. Conformant'
    <2> SUFFICES ASSUME NEW r \in DOMAIN recs, NEW i \in recs[r].impl,
                        NEW m \in intfs[i].meth
                 PROVE  \E id \in DOMAIN meths : Provides(id, r, m)
      BY <1>1, <1>4 DEF Conformant
    <2>1. CASE recs[r].mod < unit
      BY <2>1 DEF Conformant, Settled
    <2>2. CASE recs[r].mod = unit
      <3>1. PICK e : e = m
        OBVIOUS
      <3>2. PICK f : f = ORB_FindMeth(r, e.name)
        OBVIOUS
      <3>3. f # 0 /\ meths[f].sig.par = e.sig.par
        BY <1>1, <2>2, <3>1, <3>2 DEF CheckConformance, IfaceSigMatch
      <3>4. PICK ids : ids = { id \in Methods(Chain(r)) :
                                  ~meths[id].initf /\ meths[id].name = e.name }
        OBVIOUS
      <3>5. f = Nearest(ids) /\ ids \in SUBSET DOMAIN meths
        BY <3>2, <3>4 DEF ORB_FindMeth, Methods
      <3>6. f \in ids
        BY <3>3, <3>5, NearestFound DEF SlotsInv
      <3> QED
        BY <3>1, <3>3, <3>4, <3>6 DEF Provides, Methods
    <2>3. recs[r].mod \in Nat /\ unit \in Nat /\ recs[r].mod <= unit
      BY Types DEF SlotsInv, TypeOK, Record, Tree
    <2> QED
      BY <2>1, <2>2, <2>3
  <1> QED
    BY <1>2, <1>3, <1>5, <1>6

(* A conversion in a body: the record conforms, and what the table takes for *)
(* a member is what an extension would inherit or override. *)
LEMMA InterfaceConverted ==
    ASSUME InOrder, Private \cap Member = {}, InterfaceInv,
           NEW r \in DOMAIN recs, NEW i \in DOMAIN intfs, ORG_PtrToIface(r, i)
    PROVE  InterfaceInv'
  <1> USE DEF InterfaceInv
  <1>1. PICK y : y = << unit, r, i >>
    OBVIOUS
  <1>2. PICK table : table = itable_global(r, i)
    OBVIOUS
  <1>3. /\ part = "body" /\ ORB_Conforms(r, i) /\ y \notin DOMAIN itab
        /\ itab' = [x \in DOMAIN itab \cup {y} |-> IF x \in DOMAIN itab THEN itab[x] ELSE table]
        /\ UNCHANGED <<unit, part, recs, intfs, meths, td, news, made>>
    BY <1>1, <1>2 DEF ORG_PtrToIface, Statement
  <1>4. /\ DOMAIN itab' = DOMAIN itab \cup {y} /\ itab'[y] = table
        /\ \A x \in DOMAIN itab : itab'[x] = itab[x]
    BY <1>3
  <1>5. SlotsInv' /\ SameName'
    BY SlotsStep, SameNameStep DEF Next
  <1>6. Indexed' /\ Fresh'
    BY <1>3 DEF Indexed, Fresh
  <1>7. \A id, k, m : /\ Provides(id, k, m)' <=> Provides(id, k, m)
                      /\ Answers(id, k, m)' <=> Answers(id, k, m)
    BY <1>3 DEF Provides, Answers, Chain
  <1>8. \A k : Settled(k)' <=> Settled(k)
    BY <1>3 DEF Settled
  <1>9. Conformant'
    BY <1>3, <1>7, <1>8 DEF Conformant
  <1>10. ASSUME NEW m \in intfs[i].meth
         PROVE  /\ m.val \in DOMAIN table
                /\ \E id \in DOMAIN meths : Answers(id, r, m) /\ table[m.val] = meths[id].slot
    <2>1. /\ m.name \in Member /\ m.val \in Nat /\ intfs[i].nofmeth \in Nat
          /\ m.val < intfs[i].nofmeth
          /\ { q \in intfs[i].meth : q.val = m.val } = {m}
      BY Types DEF SlotsInv, Interface, Indexed
    <2>2. PICK k \in Chain(r) : \E j \in recs[k].impl : i \in intfs[j].incl
      BY <1>3 DEF ORB_Conforms
    <2>3. PICK j \in recs[k].impl : i \in intfs[j].incl
      BY <2>2
    <2>4. k \in DOMAIN recs /\ j \in DOMAIN intfs /\ Settled(k) /\ Chain(k) \subseteq Chain(r)
      BY <1>3, <2>2, Chains DEF SlotsInv, Fresh, Settled
    <2>5. PICK q \in intfs[j].meth : q.name = m.name /\ q.sig.par = m.sig.par
      BY <2>3, <2>4 DEF Indexed
    <2>6. PICK id \in DOMAIN meths : Provides(id, k, q)
      BY <2>3, <2>4, <2>5 DEF Conformant
    <2>7. /\ id \in Methods(Chain(r)) /\ ~meths[id].initf /\ meths[id].name = m.name
          /\ meths[id].sig.par = m.sig.par
      BY <2>4, <2>5, <2>6 DEF Provides, Methods
    <2>8. PICK f : f = ORB_FindMeth(r, m.name)
      OBVIOUS
    <2>9. /\ f \in DOMAIN meths /\ f # 0 /\ ~meths[f].initf /\ meths[f].name = m.name
          /\ meths[f].rec \in Chain(r)
      BY <2>7, <2>8, MethodFound DEF SlotsInv
    <2>10. meths[f].slot >= 0 => MethodSigMatch(meths[f].sig, meths[id].sig)
      BY <2>1, <2>7, <2>8, FoundAgrees
    <2>11. Answers(f, r, m)
      BY <2>7, <2>9, <2>10 DEF Answers, MethodSigMatch
    <2>12. m.val \in 0 .. intfs[i].nofmeth - 1
      BY <2>1
    <2>13. /\ DOMAIN table = 0 .. intfs[i].nofmeth - 1
           /\ table[m.val] =
                 LET rm == { ORB_FindMeth(r, e.name) :
                                e \in { p \in intfs[i].meth : p.val = m.val } } \ {0}
                 IN IF rm = {} THEN 0 ELSE meths[CHOOSE z \in rm : TRUE].slot
      <3>1. itable_global(r, i) =
               [v \in 0 .. intfs[i].nofmeth - 1 |->
                   LET rm == { ORB_FindMeth(r, e.name) :
                                  e \in { p \in intfs[i].meth : p.val = v } } \ {0}
                   IN IF rm = {} THEN 0 ELSE meths[CHOOSE z \in rm : TRUE].slot]
        BY DEF itable_global
      <3> QED
        BY ONLY <1>2, <2>12, <3>1
    <2>14. PICK rm : rm = { ORB_FindMeth(r, e.name) :
                               e \in { p \in intfs[i].meth : p.val = m.val } } \ {0}
      OBVIOUS
    <2>15. rm = { ORB_FindMeth(r, e.name) : e \in {m} } \ {0}
      BY <2>1, <2>14
    <2>16. rm = {f}
      BY <2>8, <2>9, <2>15
    <2>17. table[m.val] = IF rm = {} THEN 0 ELSE meths[CHOOSE z \in rm : TRUE].slot
      BY <2>13, <2>14
    <2>18. (CHOOSE z \in rm : TRUE) = f
      BY ONLY <2>16
    <2>19. table[m.val] = meths[f].slot
      BY <2>16, <2>17, <2>18
    <2> QED
      BY <2>9, <2>11, <2>12, <2>13, <2>19
  <1>11. Converted'
    <2> HIDE DEF InterfaceInv
    <2>0. UNCHANGED <<intfs, meths>>
      BY <1>3
    <2> SUFFICES ASSUME NEW x \in DOMAIN itab', NEW m \in intfs[x[3]].meth
                 PROVE  /\ m.val \in DOMAIN itab'[x]
                        /\ \E id \in DOMAIN meths : /\ Answers(id, x[2], m)
                                                    /\ itab'[x][m.val] = meths[id].slot
      BY <1>7, <2>0 DEF Converted
    <2>1. CASE x \in DOMAIN itab
      BY <1>4, <2>1 DEF Converted, InterfaceInv
    <2>2. CASE x = y
      <3>1. x[2] = r /\ x[3] = i
        BY <1>1, <2>2
      <3> QED
        BY <1>4, <1>10, <2>2, <3>1
    <2> QED
      BY <1>4, <2>1, <2>2
  <1> QED
    BY <1>5, <1>6, <1>9, <1>11

(* What a use leaves alone. *)
LEMMA SameNameUses == ASSUME SlotsInv, SameName, Uses PROVE SameName'
  <1>1. UNCHANGED <<recs, meths>>
    BY UsesKeep DEF SlotsInv
  <1>2. Keeps
    BY <1>1 DEF Keeps
  <1> QED
    BY <1>1, <1>2, SameNameKept

LEMMA InterfaceUses ==
    ASSUME InOrder, Private \cap Member = {}, InterfaceInv, Uses
    PROVE  InterfaceInv'
  <1>1. SlotsInv' /\ SameName'
    BY UsesSlots, SameNameUses DEF InterfaceInv
  <1>2. UNCHANGED <<unit, recs, meths>>
    BY UsesKeep DEF InterfaceInv, SlotsInv
  <1>3. Keeps
    BY <1>2 DEF Keeps
  <1>4. Len(intfs) \in Nat /\ DOMAIN intfs = 1 .. Len(intfs)
    BY Types DEF InterfaceInv, SlotsInv
  <1>5. CASE InterfaceType
    <2>1. PICK t : t = Len(intfs) + 1
      OBVIOUS
    <2>2. /\ part = "types" /\ part' = "interface" /\ DOMAIN intfs' = 1 .. t /\ Len(intfs') = t
          /\ \A i \in DOMAIN intfs : intfs'[i] = intfs[i]
          /\ UNCHANGED itab
      BY <1>5, <2>1, InterfaceFacts DEF InterfaceInv, SlotsInv
    <2>3. t \notin DOMAIN intfs /\ DOMAIN intfs \subseteq DOMAIN intfs' /\ This' = t
      BY <1>4, <2>1, <2>2 DEF This
    <2>4. \A r \in DOMAIN recs : t \notin recs[r].impl
      BY <2>3 DEF InterfaceInv, Fresh
    <2>5. \A x \in DOMAIN itab : x[3] # t
      BY <2>3 DEF InterfaceInv, SlotsInv, TypeOK
    <2>6. Fresh' /\ Conformant' /\ Converted'
      BY <1>2, <2>2, <2>3, <2>4, <2>5, InterfaceRead DEF InterfaceInv
    <2> QED
      BY <1>1, <1>5, <2>6, IndexedNew DEF InterfaceInv, SlotsInv
  <1>6. ASSUME part = "interface", part' = "interface", DOMAIN intfs' = DOMAIN intfs,
               Len(intfs') = Len(intfs),
               \A i \in DOMAIN intfs : i # This => intfs'[i] = intfs[i],
               UNCHANGED itab
        PROVE  Fresh' /\ Conformant' /\ Converted'
    <2>1. PICK t : t = This
      OBVIOUS
    <2>2. This' = t
      BY <1>6, <2>1 DEF This
    <2>3. /\ \A r \in DOMAIN recs : t \notin recs[r].impl
          /\ \A x \in DOMAIN itab : x[3] # t
      BY <1>6, <2>1 DEF InterfaceInv, Fresh
    <2> QED
      BY <1>2, <1>6, <2>1, <2>2, <2>3, InterfaceRead DEF InterfaceInv
  <1>7. CASE \E j \in DOMAIN intfs : IncludeInterface(j)
    <2>1. PICK j \in DOMAIN intfs : IncludeInterface(j)
      BY <1>7
    <2>2. /\ part = "interface" /\ part' = part /\ DOMAIN intfs' = DOMAIN intfs
          /\ Len(intfs') = Len(intfs) /\ UNCHANGED itab
          /\ \A i \in DOMAIN intfs : i # This => intfs'[i] = intfs[i]
      BY <2>1, IncludeFacts DEF InterfaceInv, SlotsInv
    <2>3. Fresh' /\ Conformant' /\ Converted'
      BY <1>6, <2>2
    <2> QED
      BY <1>1, <2>1, <2>3, IndexedInclude DEF InterfaceInv, SlotsInv
  <1>8. CASE \E n \in Member, sig \in Sig : Require(n, sig)
    <2>1. PICK n \in Member, sig \in Sig : Require(n, sig)
      BY <1>8
    <2>2. /\ part = "interface" /\ part' = part /\ DOMAIN intfs' = DOMAIN intfs
          /\ Len(intfs') = Len(intfs) /\ UNCHANGED itab
          /\ \A i \in DOMAIN intfs : i # This => intfs'[i] = intfs[i]
      BY <2>1, RequireFacts DEF InterfaceInv, SlotsInv
    <2>3. Fresh' /\ Conformant' /\ Converted'
      BY <1>6, <2>2
    <2> QED
      BY <1>1, <2>1, <2>3, IndexedRequire DEF InterfaceInv, SlotsInv
  <1>9. CASE \/ EndInterface \/ Procedures
             \/ \E r \in DOMAIN recs : New(r)
             \/ \E r \in DOMAIN recs, n \in InitName : ConstructorCall(r, n)
             \/ UNCHANGED vars
    <2>1. /\ UNCHANGED <<intfs, itab>> /\ (part' = "interface" => part = "interface")
          /\ part' \in {"body", "done"} => part' = part
      BY <1>9 DEF EndInterface, Procedures, New, ConstructorCall, vars
    <2>2. \A r \in DOMAIN recs : Settled(r)' => Settled(r)
      BY <1>2, <2>1 DEF Settled
    <2>3. Indexed' /\ Fresh' /\ Conformant' /\ Converted'
      BY <1>2, <1>3, <2>1, <2>2, InterfaceKept DEF InterfaceInv
    <2> QED
      BY <1>1, <2>3 DEF InterfaceInv
  <1>10. CASE Begin
    BY <1>10, InterfaceBegin
  <1>11. CASE \E r \in DOMAIN recs, i \in DOMAIN intfs : ORG_PtrToIface(r, i)
    BY <1>11, InterfaceConverted
  <1> QED
    BY <1>5, <1>7, <1>8, <1>9, <1>10, <1>11 DEF Uses

LEMMA InterfaceStep ==
    ASSUME InOrder, Private \cap Member = {}, InterfaceInv, Next \/ UNCHANGED vars
    PROVE  InterfaceInv'
  <1>1. SlotsInv' /\ SameName'
    BY SlotsStep, SameNameStep DEF InterfaceInv
  <1>2. CASE \E base \in 0 .. Len(recs), impl \in SUBSET DOMAIN intfs : RecordType(base, impl)
    <2>1. PICK base \in 0 .. Len(recs), impl \in SUBSET DOMAIN intfs : RecordType(base, impl)
      BY <1>2
    <2>2. PICK n : n = Len(recs) + 1
      OBVIOUS
    <2>0. PICK level : level = IF base = 0 THEN 0 ELSE recs[base].level + 1
      OBVIOUS
    <2>3. /\ DOMAIN recs' = 1 .. n /\ recs'[n].mod = unit /\ recs'[n].impl = impl
          /\ part = "types" /\ Keeps /\ UNCHANGED <<unit, part, intfs, itab>>
      <3>1. /\ DOMAIN recs' = 1 .. n
            /\ recs'[n] = [mod |-> unit, base |-> base, bases |-> Chain(base), impl |-> impl,
                           level |-> level, nofmeth |-> 0, mfixed |-> FALSE]
            /\ part = "types" /\ Keeps /\ UNCHANGED <<unit, part, intfs, itab>>
        BY <2>0, <2>1, <2>2, RecordFacts DEF InterfaceInv, SlotsInv
      <3> QED
        BY <3>1
    <2>4. \A r \in DOMAIN recs' : r \notin DOMAIN recs => r = n
      BY <2>2, <2>3, Types DEF InterfaceInv, SlotsInv
    <2>5. unit \in Nat
      BY DEF InterfaceInv, SlotsInv, TypeOK
    <2>6. \A r \in DOMAIN recs' : r \notin DOMAIN recs =>
             recs'[r].impl \subseteq DOMAIN intfs /\ ~Settled(r)'
      BY <2>3, <2>4, <2>5 DEF Settled
    <2>7. \A r \in DOMAIN recs : Settled(r)' => Settled(r)
      BY <2>3 DEF Settled, Keeps
    <2>8. Indexed' /\ Fresh' /\ Conformant' /\ Converted'
      BY <2>3, <2>6, <2>7, InterfaceKept DEF InterfaceInv
    <2> QED
      BY <1>1, <2>8 DEF InterfaceInv
  <1>3. ASSUME NEW m, Bound(m), Keeps, DOMAIN recs' = DOMAIN recs
        PROVE  InterfaceInv'
    <2>1. part = "procedures" /\ UNCHANGED <<unit, part, intfs, itab>>
      BY <1>3 DEF Bound
    <2>2. \A r \in DOMAIN recs : Settled(r)' => Settled(r)
      BY <1>3, <2>1 DEF Settled, Keeps
    <2>3. Indexed' /\ Fresh' /\ Conformant' /\ Converted'
      BY <1>3, <2>1, <2>2, InterfaceKept DEF InterfaceInv
    <2> QED
      BY <1>1, <2>3 DEF InterfaceInv
  <1>4. CASE \E r \in DOMAIN recs, n \in Name, expo \in BOOLEAN, sig \in Sig :
                Override(r, n, expo, sig)
    <2>1. PICK r \in DOMAIN recs, n \in Name, expo \in BOOLEAN, sig \in Sig :
             Override(r, n, expo, sig)
      BY <1>4
    <2>2. PICK m \in Method : Bound(m) /\ Keeps /\ UNCHANGED recs
      BY <2>1, OverrideFacts DEF InterfaceInv, SlotsInv
    <2> QED
      BY <1>3, <2>2
  <1>5. CASE \E r \in DOMAIN recs, n \in Name, expo \in BOOLEAN, sig \in Sig :
                NewMethod(r, n, expo, sig)
    <2>1. PICK r \in DOMAIN recs, n \in Name, expo \in BOOLEAN, sig \in Sig :
             NewMethod(r, n, expo, sig)
      BY <1>5
    <2>2. PICK m \in Method : Bound(m) /\ Keeps /\ DOMAIN recs' = DOMAIN recs
      BY <2>1, NewMethodFacts DEF InterfaceInv, SlotsInv
    <2> QED
      BY <1>3, <2>2
  <1>6. CASE \E r \in DOMAIN recs, n \in InitName, expo \in BOOLEAN, sig \in Sig,
                over \in 0 .. Len(meths) : BindInit(r, n, expo, sig, over)
    <2>1. PICK r \in DOMAIN recs, n \in InitName, expo \in BOOLEAN, sig \in Sig,
               over \in 0 .. Len(meths) : BindInit(r, n, expo, sig, over)
      BY <1>6
    <2>2. PICK m \in Method : Bound(m) /\ Keeps /\ UNCHANGED recs
      BY <2>1, InitFacts DEF InterfaceInv, SlotsInv
    <2> QED
      BY <1>3, <2>2
  <1>7. CASE Close
    <2>1. /\ part = "body" /\ part' # "interface"
          /\ UNCHANGED <<recs, intfs, meths, itab>>
      BY <1>7 DEF Close
    <2>2. Keeps /\ \A r \in DOMAIN recs : Settled(r)
      BY <2>1 DEF Keeps, Settled
    <2>3. Indexed' /\ Fresh' /\ Conformant' /\ Converted'
      BY <2>1, <2>2, InterfaceKept DEF InterfaceInv
    <2> QED
      BY <1>1, <2>3 DEF InterfaceInv
  <1>8. CASE Uses
    BY <1>8, InterfaceUses
  <1> QED
    BY <1>2, <1>4, <1>5, <1>6, <1>7, <1>8, NextCases

(* The table gives the slot of a method that provides the member, and the    *)
(* descriptor the nearest method of that slot. *)
LEMMA InterfaceFollow ==
    ASSUME Private \cap Member = {}, InterfaceInv
    PROVE  InterfaceCalls
  <1> SUFFICES ASSUME NEW x \in DOMAIN itab, NEW d \in DOMAIN td, x[2] \in Chain(d),
                      NEW m \in intfs[x[3]].meth, Virtual(ORB_FindMeth(x[2], m.name))
               PROVE  LET f == ORG_IfaceMethodItem(d, itab[x], m)
                      IN f # 0 /\ meths[f].name = m.name /\ meths[f].sig.par = m.sig.par
    BY DEF InterfaceCalls
  <1> USE DEF InterfaceInv, SlotsInv
  <1>1. /\ d \in DOMAIN recs /\ td[d].vt = Vtable(d)
        /\ x[2] \in DOMAIN recs /\ x[3] \in DOMAIN intfs
    <2>1. d \in DOMAIN recs /\ td[d] = finalize_tds(d)
      BY DEF Descriptors
    <2>2. finalize_tds(d).vt = Vtable(d)
      BY DEF finalize_tds
    <2>3. x[2] \in DOMAIN recs /\ x[3] \in DOMAIN intfs
      BY DEF TypeOK
    <2> QED
      BY <2>1, <2>2, <2>3
  <1>2. m.name \in Member
    BY <1>1, Types DEF Interface
  <1>3. PICK id \in DOMAIN meths : Answers(id, x[2], m) /\ itab[x][m.val] = meths[id].slot
    BY DEF Converted
  <1>0. PICK found : found = ORB_FindMeth(x[2], m.name)
    OBVIOUS
  <1>17. id \in Methods(Chain(x[2])) /\ ~meths[id].initf /\ meths[id].name = m.name
    BY <1>3 DEF Answers, Methods
  <1>18. found \in DOMAIN meths
    BY <1>0, <1>17, MethodFound
  <1>19. meths[found].slot >= 0
    BY <1>0, <1>18, VirtualHasSlot
  <1>20. meths[id].slot = meths[found].slot
    BY <1>0, <1>1, <1>2, <1>17, <1>19, FoundAgrees
  <1>4. /\ id \in Methods(Chain(d)) /\ meths[id].slot >= 0 /\ meths[id].name = m.name
        /\ meths[id].sig.par = m.sig.par
    BY <1>1, <1>3, <1>19, <1>20, Chains DEF Answers, Methods
  <1>5. PICK k : k = meths[id].slot
    OBVIOUS
  <1>6. k \in 0 .. ORB_TotalMeths(d) - 1
    BY <1>1, <1>4, <1>5, SlotInTable
  <1>7. PICK ids : ids = { j \in Methods(Chain(d)) : meths[j].slot = k }
    OBVIOUS
  <1>8. PICK f : f = Nearest(ids)
    OBVIOUS
  <1>9. ids \in SUBSET DOMAIN meths /\ id \in ids
    BY <1>4, <1>5, <1>7 DEF Methods
  <1>10. f \in ids /\ f # 0
    BY <1>8, <1>9, NearestFound
  <1>11. ORG_IfaceMethodItem(d, itab[x], m) = f
    <2>1. DOMAIN Vtable(d) = 0 .. ORB_TotalMeths(d) - 1 /\ Vtable(d)[k] = Nearest(ids)
      BY <1>6, <1>7 DEF Vtable
    <2>2. itab[x][m.val] = k
      BY <1>3, <1>5
    <2> QED
      BY <1>1, <1>6, <1>8, <2>1, <2>2 DEF ORG_IfaceMethodItem
  <1>12. f \in Methods(Chain(d)) /\ f \in DOMAIN meths /\ meths[f].slot = k
    BY <1>7, <1>10 DEF Methods
  <1>13. meths[f].slot >= 0
    BY <1>4, <1>5, <1>12
  <1>14. Overridden(f) \cap Overridden(id) # {}
    BY <1>1, <1>4, <1>5, <1>12, <1>13, SlotsAreOverrides
  <1>15. meths[f].name = meths[id].name
    BY <1>4, <1>12, <1>13, <1>14, RootOf
  <1>16. MethodSigMatch(meths[f].sig, meths[id].sig)
    BY <1>1, <1>2, <1>4, <1>12, <1>13, <1>15, OneOverTheOther DEF Methods
  <1> QED
    BY <1>4, <1>10, <1>11, <1>15, <1>16 DEF MethodSigMatch

(* A call through an interface reaches a method of the member's name and     *)
(* signature, for programs of any number of units, types, interfaces and     *)
(* methods, when members are declared before they are used, what interfaces  *)
(* ask for is not hidden by private methods of other units, and the type     *)
(* converted has no method of the name that goes back to an initialiser.     *)
THEOREM InterfaceAlways ==
    ASSUME InOrder, Private \cap Member = {}
    PROVE  Spec => []InterfaceCalls
  <1>1. Init => InterfaceInv
    <2> SUFFICES ASSUME Init PROVE InterfaceInv
      OBVIOUS
    <2>1. recs = << >> /\ intfs = << >> /\ meths = << >> /\ itab = << >> /\ part = "types"
      BY DEF Init
    <2>2. DOMAIN << >> = {}
      OBVIOUS
    <2>3. SameName /\ Indexed /\ Fresh /\ Conformant /\ Converted
      BY <2>1, <2>2 DEF SameName, Indexed, Fresh, Conformant, Converted
    <2> QED
      BY <2>3, InitSlotsInv DEF InterfaceInv
  <1>2. InterfaceInv /\ [Next]_vars => InterfaceInv'
    BY InterfaceStep
  <1>3. InterfaceInv => InterfaceCalls
    BY InterfaceFollow
  <1> QED
    BY <1>1, <1>2, <1>3, PTL DEF Spec
=============================================================================
