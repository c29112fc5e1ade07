--------------------------- MODULE ModulesProofs ---------------------------
(* Theorems about Modules and their proofs: the loader's invariant, and that *)
(* the loader implements ModuleUse.  The lemmas are about heaps, the values  *)
(* desc may have, and their lists.                                           *)
EXTENDS Modules, FiniteSetTheorems, SequenceTheorems, TLAPS

Heap(h) ==
    /\ DOMAIN h \subseteq Desc
    /\ h \in [DOMAIN h -> ModDesc]
    /\ \A x \in DOMAIN h : h[x].next \in DOMAIN h \cup {NIL}

Closed(h, S) == \A x \in S : h[x].next = NIL \/ h[x].next \in S

(* The list with head r. *)
List(h, r) == IF r = NIL THEN {} ELSE Chain(h, r)

(* The two heaps differ in the reference counts at most. *)
SameBut(g, h) ==
    /\ DOMAIN g = DOMAIN h
    /\ \A x \in DOMAIN h : /\ g[x].name = h[x].name
                           /\ g[x].next = h[x].next
                           /\ g[x].refcnt = h[x].refcnt

(* A heap, its list head r and the descriptors t the side table knows. *)
Good(h, r, t) ==
    /\ Heap(h)
    /\ r \in DOMAIN h \cup {NIL}
    /\ t = List(h, r)
    /\ \A d, e \in t : h[d].name = h[e].name => d = e
    /\ \A d \in DOMAIN h : h[d].next # NIL => d \notin Chain(h, h[d].next)
    /\ \A d \in t : h[d].refcnt > 0

-----------------------------------------------------------------------------
(* Chains *)

\* The chain from d holds d, goes on to the next record, and is the least
\* set of records that does.
LEMMA ChainFacts ==
    ASSUME NEW h, Heap(h), NEW d \in DOMAIN h
    PROVE  /\ d \in Chain(h, d)
           /\ Chain(h, d) \subseteq DOMAIN h
           /\ Closed(h, Chain(h, d))
           /\ \A S \in SUBSET DOMAIN h : d \in S /\ Closed(h, S) => Chain(h, d) \subseteq S
  <1>1. Chain(h, d) \subseteq DOMAIN h
    BY DEF Chain
  <1>2. \A S \in SUBSET DOMAIN h : d \in S /\ Closed(h, S) => Chain(h, d) \subseteq S
    BY DEF Chain, Closed
  <1>3. d \in Chain(h, d)
    BY DEF Chain
  <1>4. ASSUME NEW x \in Chain(h, d), h[x].next # NIL PROVE h[x].next \in Chain(h, d)
    <2>1. x \in DOMAIN h /\ h[x].next \in DOMAIN h
      BY <1>1, <1>4 DEF Heap
    <2>2. ASSUME NEW S \in SUBSET DOMAIN h, d \in S,
                 \A y \in S : h[y].next = NIL \/ h[y].next \in S
          PROVE  h[x].next \in S
      BY <2>2, <1>2, <1>4 DEF Closed
    <2> QED
      BY <2>1, <2>2 DEF Chain
  <1> QED
    BY <1>1, <1>2, <1>3, <1>4 DEF Closed

\* The chain from a record on a chain is part of that chain.
LEMMA ChainWithin ==
    ASSUME NEW h, Heap(h), NEW d \in DOMAIN h, NEW e \in Chain(h, d)
    PROVE  Chain(h, e) \subseteq Chain(h, d)
  <1>1. e \in DOMAIN h
    BY ChainFacts
  <1> QED
    BY <1>1, ChainFacts

\* A chain is its first record and the chain from the next one.
LEMMA ChainStep ==
    ASSUME NEW h, Heap(h), NEW d \in DOMAIN h
    PROVE  /\ h[d].next = NIL => Chain(h, d) = {d}
           /\ h[d].next # NIL => Chain(h, d) = {d} \cup Chain(h, h[d].next)
  <1>1. CASE h[d].next = NIL
    <2>1. Closed(h, {d})
      BY <1>1 DEF Closed
    <2> QED
      BY <2>1, <1>1, ChainFacts
  <1>2. CASE h[d].next # NIL
    <2> DEFINE n == h[d].next
    <2>1. n \in DOMAIN h
      BY <1>2 DEF Heap
    <2>2. n \in Chain(h, d) /\ d \in Chain(h, d)
      BY <1>2, ChainFacts DEF Closed
    <2>3. Chain(h, n) \subseteq Chain(h, d)
      BY <2>2, ChainWithin
    <2>4. /\ n \in Chain(h, n) /\ Chain(h, n) \subseteq DOMAIN h
          /\ Closed(h, Chain(h, n))
      BY <2>1, ChainFacts
    <2>5. Closed(h, {d} \cup Chain(h, n))
      BY <2>4 DEF Closed
    <2>6. Chain(h, d) \subseteq {d} \cup Chain(h, n)
      BY <2>4, <2>5, ChainFacts
    <2> QED
      BY <2>2, <2>3, <2>6, <1>2
  <1> QED
    BY <1>1, <1>2

\* Of two records on a chain, one comes after the other.
LEMMA ChainLinear ==
    ASSUME NEW h, Heap(h), NEW d \in DOMAIN h, NEW a \in Chain(h, d), NEW b \in Chain(h, d)
    PROVE  a \in Chain(h, b) \/ b \in Chain(h, a)
  <1> DEFINE S == { x \in Chain(h, d) : a \in Chain(h, x) \/ x \in Chain(h, a) }
  <1>1. /\ a \in DOMAIN h /\ d \in Chain(h, d) /\ Chain(h, d) \subseteq DOMAIN h
        /\ Closed(h, Chain(h, d))
    BY ChainFacts
  <1>2. Closed(h, Chain(h, a)) /\ a \in Chain(h, a)
    BY <1>1, ChainFacts
  <1>3. ASSUME NEW x \in S, h[x].next # NIL PROVE h[x].next \in S
    <2>1. x \in DOMAIN h /\ h[x].next \in Chain(h, d)
      BY <1>1, <1>3 DEF Closed
    <2>2. Chain(h, x) = {x} \cup Chain(h, h[x].next)
      BY <2>1, <1>3, ChainStep
    <2>3. x \in Chain(h, a) => h[x].next \in Chain(h, a)
      BY <1>2, <1>3 DEF Closed
    <2> QED
      BY <2>1, <2>2, <2>3, <1>2
  <1>4. Closed(h, S) /\ S \in SUBSET DOMAIN h /\ d \in S
    BY <1>1, <1>3 DEF Closed
  <1>5. Chain(h, d) \subseteq S
    BY <1>4, ChainFacts
  <1> QED
    BY <1>5

\* New records, and new contents elsewhere, leave the chains as they are.
LEMMA ChainExtends ==
    ASSUME NEW h, NEW g, Heap(h), Heap(g), DOMAIN h \subseteq DOMAIN g,
           \A x \in DOMAIN h : g[x].next = h[x].next,
           NEW d \in DOMAIN h
    PROVE  Chain(g, d) = Chain(h, d)
  <1>1. /\ d \in Chain(h, d) /\ Chain(h, d) \subseteq DOMAIN h /\ Closed(h, Chain(h, d))
        /\ \A S \in SUBSET DOMAIN h : d \in S /\ Closed(h, S) => Chain(h, d) \subseteq S
    BY ChainFacts
  <1>2. /\ d \in Chain(g, d) /\ Closed(g, Chain(g, d))
        /\ \A S \in SUBSET DOMAIN g : d \in S /\ Closed(g, S) => Chain(g, d) \subseteq S
    BY ChainFacts
  <1>3. Closed(g, Chain(h, d))
    BY <1>1 DEF Closed
  <1>4. Chain(g, d) \subseteq Chain(h, d)
    BY <1>1, <1>2, <1>3
  <1>5. Closed(h, Chain(g, d))
    BY <1>1, <1>2, <1>4 DEF Closed
  <1> QED
    BY <1>1, <1>2, <1>4, <1>5

-----------------------------------------------------------------------------
(* What the loader does to the list *)

\* A step that changes no name and no link keeps the list.
LEMMA SameList ==
    ASSUME NEW h, NEW g, NEW r, NEW t, Good(h, r, t), Heap(g), DOMAIN g = DOMAIN h,
           \A x \in DOMAIN h : g[x].name = h[x].name /\ g[x].next = h[x].next,
           \A x \in t : g[x].refcnt > 0
    PROVE  Good(g, r, t)
  <1>1. Heap(h)
    BY DEF Good
  <1>2. \A x \in DOMAIN h : Chain(g, x) = Chain(h, x)
    BY <1>1, ChainExtends
  <1>3. List(g, r) = List(h, r)
    BY <1>2 DEF Good, List
  <1>4. t \subseteq DOMAIN h
    BY <1>1, ChainFacts DEF Good, List
  <1>5. \A d \in DOMAIN g : g[d].next # NIL => d \notin Chain(g, g[d].next)
    BY <1>1, <1>2 DEF Good, Heap
  <1> QED
    BY <1>3, <1>4, <1>5 DEF Good

\* A new descriptor goes in front.
LEMMA Attached ==
    ASSUME NEW h, NEW g, NEW r, NEW t, Good(h, r, t), Heap(g),
           NEW d, d \notin DOMAIN h, DOMAIN g = DOMAIN h \cup {d},
           \A x \in DOMAIN h : /\ g[x].name = h[x].name
                               /\ g[x].next = h[x].next
                               /\ g[x].refcnt = h[x].refcnt,
           g[d].next = r, g[d].refcnt > 0, \A x \in t : h[x].name # g[d].name
    PROVE  Good(g, d, t \cup {d})
  <1>1. Heap(h) /\ d # NIL
    BY LoaderAssumption DEF Good, Heap
  <1>2. \A x \in DOMAIN h : Chain(g, x) = Chain(h, x) /\ Chain(h, x) \subseteq DOMAIN h
    BY <1>1, ChainExtends, ChainFacts
  <1>3. t \subseteq DOMAIN h
    BY <1>2 DEF Good, List
  <1>4. List(g, d) = t \cup {d}
    <2>1. r = NIL => Chain(g, d) = {d}
      BY ChainStep
    <2>2. r # NIL => Chain(g, d) = {d} \cup Chain(g, r)
      BY ChainStep
    <2> QED
      BY <2>1, <2>2, <1>1, <1>2 DEF Good, List
  <1>5. \A x \in DOMAIN g : g[x].next # NIL => x \notin Chain(g, g[x].next)
    BY <1>1, <1>2 DEF Good, Heap
  <1>6. \A x, y \in t \cup {d} : g[x].name = g[y].name => x = y
    BY <1>3 DEF Good
  <1> QED
    BY <1>3, <1>4, <1>5, <1>6 DEF Good

\* A listed descriptor is at the head or linked from another listed one,
\* from one place only.
LEMMA OneLink ==
    ASSUME NEW h, NEW r, NEW t, Good(h, r, t), NEW m \in t
    PROVE  \/ r = m /\ \A x \in t : h[x].next # m
           \/ r # m /\ \E p \in t : { x \in t : h[x].next = m } = {p}
  <1>1. /\ Heap(h) /\ r \in DOMAIN h /\ t = Chain(h, r)
        /\ \A d \in DOMAIN h : h[d].next # NIL => d \notin Chain(h, h[d].next)
    BY DEF Good, List
  <1>2. r \in t /\ t \subseteq DOMAIN h /\ Closed(h, t) /\ m \in DOMAIN h /\ m # NIL
    BY <1>1, ChainFacts, LoaderAssumption DEF Heap
  <1>3. CASE r = m
    BY <1>1, <1>2, <1>3
  <1>4. CASE r # m
    <2> DEFINE S == { x \in t : x = r \/ \E e \in t : h[e].next = x }
    <2>1. Closed(h, S) /\ S \in SUBSET DOMAIN h /\ r \in S
      BY <1>2 DEF Closed
    <2>2. t \subseteq S
      BY <2>1, <1>1, ChainFacts
    <2>3. PICK p \in t : h[p].next = m
      BY <2>2, <1>4
    <2>4. ASSUME NEW x \in t, h[x].next = m, x # p PROVE FALSE
      <3>1. x \in Chain(h, p) \/ p \in Chain(h, x)
        BY <1>1, ChainLinear
      <3>2. Chain(h, p) = {p} \cup Chain(h, m) /\ Chain(h, x) = {x} \cup Chain(h, m)
        BY <1>1, <1>2, <2>3, <2>4, ChainStep
      <3> QED
        BY <3>1, <3>2, <1>1, <1>2, <2>3, <2>4
    <2> QED
      BY <2>3, <2>4, <1>4
  <1> QED
    BY <1>3, <1>4

\* Without its links a descriptor is off the list, and the rest stays.
LEMMA Unlinked ==
    ASSUME NEW h, NEW g, NEW r, NEW t, Good(h, r, t), NEW m \in t, Heap(g), DOMAIN g = DOMAIN h,
           \A x \in DOMAIN h :
              /\ g[x].name = h[x].name
              /\ g[x].next = IF x \in t /\ h[x].next = m THEN h[m].next ELSE h[x].next,
           \A x \in t \ {m} : g[x].refcnt > 0
    PROVE  Good(g, IF r = m THEN h[m].next ELSE r, t \ {m})
  <1> DEFINE k == h[m].next
             q == IF r = m THEN k ELSE r
  <1>1. /\ Heap(h) /\ r \in DOMAIN h /\ t = Chain(h, r) /\ r # NIL
        /\ \A d \in DOMAIN h : h[d].next # NIL => d \notin Chain(h, h[d].next)
    BY LoaderAssumption DEF Good, List, Heap
  <1>2. r \in t /\ t \subseteq DOMAIN h /\ Closed(h, t) /\ m \in DOMAIN h /\ m # NIL
    BY <1>1, ChainFacts, LoaderAssumption DEF Heap
  <1>3. k = NIL \/ k \in t \ {m}
    <2>1. k # NIL => k \in t /\ m \notin Chain(h, k)
      BY <1>1, <1>2 DEF Closed
    <2>2. k # NIL => k \in Chain(h, k)
      BY <2>1, <1>1, <1>2, ChainFacts
    <2> QED
      BY <2>1, <2>2
  <1>4. \A x \in DOMAIN h : Chain(g, x) \subseteq Chain(h, x)
    <2> TAKE x \in DOMAIN h
    <2>1. x \in Chain(h, x) /\ Chain(h, x) \subseteq DOMAIN h /\ Closed(h, Chain(h, x))
      BY <1>1, ChainFacts
    <2> DEFINE C == Chain(h, x)
    <2>2. ASSUME NEW y \in C PROVE g[y].next = NIL \/ g[y].next \in C
      <3>1. y \in DOMAIN h /\ (h[y].next = NIL \/ h[y].next \in C)
        BY <2>1 DEF Closed
      <3>2. m \in C => k = NIL \/ k \in C
        BY <2>1 DEF Closed
      <3> QED
        BY <3>1, <3>2, <1>2
    <2>3. Closed(g, C)
      BY <2>2 DEF Closed
    <2> QED
      BY <2>1, <2>3, ChainFacts
  <1>5. ASSUME NEW x \in DOMAIN g, g[x].next # NIL PROVE x \notin Chain(g, g[x].next)
    <2>1. CASE g[x].next = h[x].next
      BY <2>1, <1>1, <1>4, <1>5 DEF Heap
    <2>2. CASE h[x].next = m /\ g[x].next = k
      <3>1. x \notin Chain(h, m)
        BY <2>2, <1>1, <1>2
      <3>2. k \in DOMAIN h /\ Chain(h, m) = {m} \cup Chain(h, k)
        BY <2>2, <1>1, <1>2, <1>3, <1>5, ChainStep
      <3> QED
        BY <3>1, <3>2, <2>2, <1>4
    <2> QED
      BY <2>1, <2>2
  <1>6. List(g, q) \subseteq t \ {m}
    <2>1. Closed(g, t \ {m})
      BY <1>2, <1>3 DEF Closed
    <2>2. q = NIL \/ q \in t \ {m}
      BY <1>2, <1>3
    <2> QED
      BY <2>1, <2>2, <1>2, ChainFacts DEF List
  <1>7. Closed(g, List(g, q)) /\ (q # NIL => q \in List(g, q))
    <2>1. q # NIL => q \in DOMAIN g
      BY <1>2, <1>3
    <2> QED
      BY <2>1, ChainFacts DEF List, Closed
  <1>8. t \ {m} \subseteq List(g, q)
    <2> DEFINE L == List(g, q)
               S == L \cup { x \in {m} : r = m \/ \E y \in L : h[y].next = m }
    <2> HIDE DEF L
    <2>1. L \subseteq t \ {m} /\ Closed(g, L) /\ (q # NIL => q \in L)
      BY <1>6, <1>7 DEF L
    <2>2. ASSUME NEW x \in S, h[x].next # NIL PROVE h[x].next \in S
      <3>1. CASE x \in L
        <4>1. x \in t /\ x \in DOMAIN h
          BY <2>1, <1>2, <3>1
        <4>2. h[x].next = m \/ g[x].next = h[x].next
          BY <4>1
        <4> QED
          BY <4>2, <3>1, <2>1, <2>2 DEF Closed
      <3>2. CASE x = m /\ r = m
        BY <3>2, <2>1, <2>2
      <3>3. CASE x = m /\ \E y \in L : h[y].next = m
        <4>1. PICK y \in L : h[y].next = m
          BY <3>3
        <4>2. g[y].next = k
          BY <4>1, <2>1, <1>2
        <4> QED
          BY <4>1, <4>2, <3>3, <2>1, <2>2 DEF Closed
      <3> QED
        BY <3>1, <3>2, <3>3
    <2>3. Closed(h, S) /\ S \in SUBSET DOMAIN h
      BY <2>1, <2>2, <1>2 DEF Closed
    <2>4. r \in S
      BY <2>1, <1>1
    <2>5. t \subseteq S
      BY <2>3, <2>4, <1>1, ChainFacts
    <2> QED
      BY <2>5 DEF L
  <1>9. \A x, y \in t \ {m} : g[x].name = g[y].name => x = y
    BY <1>2 DEF Good
  <1>10. q \in DOMAIN g \cup {NIL} /\ t \ {m} = List(g, q)
    BY <1>2, <1>3, <1>6, <1>8
  <1> QED
    BY <1>5, <1>9, <1>10 DEF Good

-----------------------------------------------------------------------------
(* Reference counts *)

(* References to d, when the head is r and the variables hold w. *)
Pointing(w, d) == { v \in Var : w[v] = d }
Linked(h, d)   == { e \in DOMAIN h : h[e].next = d }

Held(h, r, w, d) ==
    (IF r = d THEN 1 ELSE 0) + Cardinality(Pointing(w, d)) + Cardinality(Linked(h, d))

Counted(h, r, w) == \A d \in DOMAIN h : h[d].rc = Held(h, r, w, d) + 1

(* One if the record's count includes this reference. *)
One(p, d) == IF p = d THEN 1 ELSE 0

\* The sets of references are finite.
LEMMA HeldFinite ==
    ASSUME NEW h, Heap(h), NEW w, NEW d
    PROVE  /\ IsFiniteSet(Pointing(w, d)) /\ Cardinality(Pointing(w, d)) \in Nat
           /\ IsFiniteSet(Linked(h, d)) /\ Cardinality(Linked(h, d)) \in Nat
  <1>1. IsFiniteSet(DOMAIN h)
    BY LoaderAssumption, FS_Subset DEF Heap
  <1>2. Pointing(w, d) \in SUBSET Var /\ Linked(h, d) \in SUBSET DOMAIN h
    BY DEF Pointing, Linked
  <1>3. IsFiniteSet(Pointing(w, d)) /\ IsFiniteSet(Linked(h, d))
    BY <1>1, <1>2, LoaderAssumption, FS_Subset
  <1> QED
    BY <1>3, FS_CardinalityType

\* A field that changes moves one reference from what it held to what it holds.
LEMMA OneChange ==
    ASSUME NEW A, IsFiniteSet(A), NEW B, NEW p, NEW was \in BOOLEAN, NEW is \in BOOLEAN,
           p \in A <=> was, p \in B <=> is,
           \A x : x # p => (x \in A <=> x \in B)
    PROVE  /\ IsFiniteSet(B)
           /\ Cardinality(A) \in Nat
           /\ Cardinality(B) = Cardinality(A) + (IF is THEN 1 ELSE 0) - (IF was THEN 1 ELSE 0)
  <1>0. Cardinality(A) \in Nat
    BY FS_CardinalityType
  <1>1. CASE was = is
    <2>1. A = B
      BY <1>1
    <2> QED
      BY <2>1, <1>0, <1>1
  <1>2. CASE was /\ ~is
    <2>1. B = A \ {p} /\ p \in A
      BY <1>2
    <2> QED
      BY <2>1, <1>0, <1>2, FS_RemoveElement
  <1>3. CASE ~was /\ is
    <2>1. B = A \cup {p} /\ p \notin A
      BY <1>3
    <2> QED
      BY <2>1, <1>0, <1>3, FS_AddElement
  <1> QED
    BY <1>1, <1>2, <1>3

LEMMA VarMoves ==
    ASSUME NEW w, NEW u, NEW v \in Var, \A x \in Var \ {v} : u[x] = w[x], NEW d
    PROVE  Cardinality(Pointing(u, d))
             = Cardinality(Pointing(w, d)) + One(u[v], d) - One(w[v], d)
  <1>1. IsFiniteSet(Pointing(w, d))
    <2>1. Pointing(w, d) \in SUBSET Var
      BY DEF Pointing
    <2> QED
      BY <2>1, LoaderAssumption, FS_Subset
  <1>2. /\ v \in Pointing(w, d) <=> w[v] = d
        /\ v \in Pointing(u, d) <=> u[v] = d
        /\ \A x : x # v => (x \in Pointing(w, d) <=> x \in Pointing(u, d))
    BY DEF Pointing
  <1> QED
    BY <1>1, <1>2, OneChange DEF One

LEMMA LinkMoved ==
    ASSUME NEW h, NEW g, Heap(h), DOMAIN g = DOMAIN h, NEW p \in DOMAIN h,
           \A x \in DOMAIN h \ {p} : g[x].next = h[x].next, NEW d
    PROVE  Cardinality(Linked(g, d))
             = Cardinality(Linked(h, d)) + One(g[p].next, d) - One(h[p].next, d)
  <1>1. IsFiniteSet(Linked(h, d))
    BY HeldFinite
  <1>2. /\ p \in Linked(h, d) <=> h[p].next = d
        /\ p \in Linked(g, d) <=> g[p].next = d
        /\ \A x : x # p => (x \in Linked(h, d) <=> x \in Linked(g, d))
    BY DEF Linked
  <1> QED
    BY <1>1, <1>2, OneChange DEF One

LEMMA LinkAdded ==
    ASSUME NEW h, NEW g, Heap(h), NEW p, p \notin DOMAIN h, DOMAIN g = DOMAIN h \cup {p},
           \A x \in DOMAIN h : g[x].next = h[x].next, NEW d
    PROVE  Cardinality(Linked(g, d)) = Cardinality(Linked(h, d)) + One(g[p].next, d)
  <1>1. IsFiniteSet(Linked(h, d)) /\ Cardinality(Linked(h, d)) \in Nat
    BY HeldFinite
  <1>2. /\ p \in Linked(h, d) <=> FALSE
        /\ p \in Linked(g, d) <=> g[p].next = d
        /\ \A x : x # p => (x \in Linked(h, d) <=> x \in Linked(g, d))
    BY DEF Linked
  <1>3. Cardinality(Linked(g, d)) = Cardinality(Linked(h, d))
           + (IF g[p].next = d THEN 1 ELSE 0) - (IF FALSE THEN 1 ELSE 0)
    BY <1>1, <1>2, OneChange
  <1> QED
    BY <1>1, <1>3 DEF One

\* A reference there is counts.
LEMMA HeldPositive ==
    ASSUME NEW h, Heap(h), NEW r, NEW w, NEW d,
           \/ r = d
           \/ \E v \in Var : w[v] = d
           \/ \E e \in DOMAIN h : h[e].next = d
    PROVE  Held(h, r, w, d) \in Nat /\ Held(h, r, w, d) >= 1
  <1>1. /\ IsFiniteSet(Pointing(w, d)) /\ Cardinality(Pointing(w, d)) \in Nat
        /\ IsFiniteSet(Linked(h, d)) /\ Cardinality(Linked(h, d)) \in Nat
    BY HeldFinite
  <1>2. /\ Pointing(w, d) # {} => Cardinality(Pointing(w, d)) # 0
        /\ Linked(h, d) # {} => Cardinality(Linked(h, d)) # 0
    BY <1>1, FS_EmptySet
  <1>3. r = d \/ Pointing(w, d) # {} \/ Linked(h, d) # {}
    BY DEF Pointing, Linked
  <1> QED
    BY <1>1, <1>2, <1>3 DEF Held

\* A retain changes one count.
LEMMA Retain ==
    ASSUME NEW h, Heap(h), NEW d \in DOMAIN h \cup {NIL}
    PROVE  /\ Heap(oc_retain(h, d)) /\ SameBut(oc_retain(h, d), h)
           /\ \A x \in DOMAIN h : oc_retain(h, d)[x].rc = h[x].rc + One(x, d)
  <1> DEFINE g == oc_retain(h, d)
  <1>1. CASE d = NIL
    BY <1>1, LoaderAssumption DEF oc_retain, One, SameBut, Heap, ModDesc
  <1>2. CASE d \in DOMAIN h /\ d # NIL
    <2>1. g = [h EXCEPT ![d] = [h[d] EXCEPT !.rc = h[d].rc + 1]] /\ h[d] \in ModDesc
      BY <1>2 DEF oc_retain, Heap
    <2>2. [h[d] EXCEPT !.rc = h[d].rc + 1] \in ModDesc
      BY <2>1 DEF ModDesc
    <2>3. SameBut(g, h) /\ g \in [DOMAIN h -> ModDesc]
      BY <2>1, <2>2, <1>2 DEF SameBut, Heap, ModDesc
    <2>4. \A x \in DOMAIN h : g[x].rc = h[x].rc + One(x, d)
      BY <2>1, <1>2 DEF One, Heap, ModDesc
    <2> QED
      BY <2>3, <2>4 DEF Heap, SameBut
  <1> QED
    BY <1>1, <1>2

\* A release of a record with two references or more changes one count, and
\* frees nothing.
LEMMA Release ==
    ASSUME NEW h, Heap(h), NEW d \in DOMAIN h \cup {NIL},
           d # NIL => h[d].rc >= 2
    PROVE  /\ Heap(oc_release(h, d)) /\ SameBut(oc_release(h, d), h)
           /\ \A x \in DOMAIN h : oc_release(h, d)[x].rc = h[x].rc - One(x, d)
  <1> DEFINE g == oc_release(h, d)
  <1>1. CASE d = NIL
    BY <1>1, LoaderAssumption DEF oc_release, One, SameBut, Heap, ModDesc
  <1>2. CASE d \in DOMAIN h /\ d # NIL
    <2>1. h[d] \in ModDesc /\ h[d].rc \in Nat /\ ~(h[d].rc <= 1)
      BY <1>2 DEF Heap, ModDesc
    <2>2. Freed(h, d) = {}
      BY <2>1 DEF Freed
    <2>3. g = [e \in DOMAIN h |-> IF e = d THEN [h[e] EXCEPT !.rc = h[e].rc - 1] ELSE h[e]]
      <3> DEFINE gone  == Freed(h, d)
                 lower == ({d} \cup { h[e].next : e \in gone }) \ (gone \cup {NIL})
      <3>1. lower = {d} /\ DOMAIN h \ gone = DOMAIN h
        BY <2>2, <1>2
      <3>2. g = [e \in DOMAIN h \ gone |->
                   IF e \in lower THEN [h[e] EXCEPT !.rc = h[e].rc - 1] ELSE h[e]]
        BY <1>2 DEF oc_release
      <3> QED
        BY <3>1, <3>2
    <2>4. [h[d] EXCEPT !.rc = h[d].rc - 1] \in ModDesc
      <3>1. h[d].rc - 1 \in Nat
        BY <2>1
      <3> QED
        BY <2>1, <3>1 DEF ModDesc
    <2>5. SameBut(g, h) /\ g \in [DOMAIN h -> ModDesc]
      BY <2>3, <2>4, <1>2 DEF SameBut, Heap, ModDesc
    <2>6. \A x \in DOMAIN h : g[x].rc = h[x].rc - One(x, d)
      BY <2>3, <1>2 DEF One, Heap, ModDesc
    <2> QED
      BY <2>5, <2>6 DEF Heap, SameBut
  <1> QED
    BY <1>1, <1>2

\* Heaps that differ in counts have the same links.
LEMMA SameLinks ==
    ASSUME NEW h, NEW g, DOMAIN g = DOMAIN h, \A x \in DOMAIN h : g[x].next = h[x].next, NEW d
    PROVE  Linked(g, d) = Linked(h, d)
  BY DEF Linked

\* A variable that is assigned takes a reference and gives one back.
LEMMA Assigned ==
    ASSUME NEW h, Heap(h), NEW r, NEW w \in [Var -> DOMAIN h \cup {NIL}], Counted(h, r, w),
           NEW v \in Var, NEW d \in DOMAIN h \cup {NIL}
    PROVE  LET g == Assign(h, w[v], d)
           IN  /\ Heap(g) /\ SameBut(g, h)
               /\ Counted(g, r, [w EXCEPT ![v] = d])
  <1> DEFINE old == w[v]
             k == oc_retain(h, d)
             g == oc_release(k, old)
             u == [w EXCEPT ![v] = d]
  <1>1. Heap(k) /\ SameBut(k, h) /\ \A x \in DOMAIN h : k[x].rc = h[x].rc + One(x, d)
    BY Retain
  <1>2. \A x \in DOMAIN h : h[x].rc \in Nat
    BY DEF Heap, ModDesc
  <1>3. old # NIL => k[old].rc >= 2
    <2> SUFFICES ASSUME old # NIL PROVE k[old].rc >= 2
      OBVIOUS
    <2>1. Held(h, r, w, old) \in Nat /\ Held(h, r, w, old) >= 1
      BY HeldPositive
    <2>2. h[old].rc = Held(h, r, w, old) + 1 /\ One(old, d) \in Nat
      BY DEF Counted, One
    <2> HIDE DEF old, k
    <2>3. k[old].rc = h[old].rc + One(old, d)
      BY <1>1 DEF old
    <2> QED
      BY <2>1, <2>2, <2>3
  <1> HIDE DEF k
  <1>4. /\ Heap(g) /\ SameBut(g, k)
        /\ \A x \in DOMAIN k : g[x].rc = k[x].rc - One(x, old)
    BY <1>1, <1>3, Release DEF SameBut
  <1> HIDE DEF g
  <1>5. SameBut(g, h)
    BY <1>1, <1>4 DEF SameBut
  <1>6. ASSUME NEW x \in DOMAIN g PROVE g[x].rc = Held(g, r, u, x) + 1
    <2>1. x \in DOMAIN h /\ g[x].rc = h[x].rc + One(x, d) - One(x, old)
      <3>1. x \in DOMAIN h /\ x \in DOMAIN k
        BY <1>1, <1>5 DEF SameBut
      <3>2. g[x].rc = k[x].rc - One(x, old) /\ k[x].rc = h[x].rc + One(x, d)
        BY <3>1, <1>1, <1>4
      <3>3. h[x].rc \in Nat /\ One(x, d) \in Nat /\ One(x, old) \in Nat
        BY <3>1, <1>2 DEF One
      <3> HIDE DEF old
      <3> QED
        BY <3>1, <3>2, <3>3
    <2>2. Linked(g, x) = Linked(h, x)
      BY <1>5, SameLinks DEF SameBut
    <2>3. Cardinality(Pointing(u, x)) = Cardinality(Pointing(w, x)) + One(d, x) - One(old, x)
      <3>1. u[v] = d /\ \A y \in Var \ {v} : u[y] = w[y]
        OBVIOUS
      <3> HIDE DEF u
      <3> QED
        BY <3>1, VarMoves
    <2>4. Cardinality(Pointing(w, x)) \in Nat /\ Cardinality(Linked(h, x)) \in Nat
      BY HeldFinite
    <2>5. h[x].rc = Held(h, r, w, x) + 1
      BY <2>1 DEF Counted
    <2>6. One(x, d) = One(d, x) /\ One(x, old) = One(old, x)
          /\ One(d, x) \in Int /\ One(old, x) \in Int
      BY DEF One
    <2> HIDE DEF u, old
    <2> QED
      BY <2>1, <2>2, <2>3, <2>4, <2>5, <2>6 DEF Held
  <1>7. Counted(g, r, u)
    BY <1>6 DEF Counted
  <1> QED
    BY <1>4, <1>5, <1>7 DEF Assign, g, k

-----------------------------------------------------------------------------
(* The invariant *)

(* What the invariant says besides the heap, the list and the counts. *)
Rest ==
    /\ handles \in [DOMAIN handles -> Way]
    /\ var \in [Var -> Live \cup {NIL}]
    /\ loading \in Seq([var : Var, result : Live])
    /\ inited \subseteq Name \X Way
    /\ answer \in Name \cup {NIL}

LEMMA Parts == LoaderInv <=> Good(desc, root, DOMAIN handles) /\ Counted(desc, root, var) /\ Rest
  <1>1. CountsHold <=> Counted(desc, root, var)
    BY DEF CountsHold, Counted, Live, Owners, Held, Pointing, Linked
  <1>2. LoaderInv => Good(desc, root, DOMAIN handles) /\ Rest
    BY DEF LoaderInv, TypeOK, TableIsList, ListOK, Live, Listed, Good, Heap, List, Rest
  <1>3. ASSUME Good(desc, root, DOMAIN handles), Rest
        PROVE  TypeOK /\ TableIsList /\ ListOK
    <2>1. Heap(desc) /\ DOMAIN handles = Listed /\ root \in DOMAIN desc \cup {NIL}
      BY <1>3 DEF Good, List, Listed
    <2>2. Listed \subseteq Live
      BY <2>1, ChainFacts DEF Listed, Live
    <2> QED
      BY <1>3, <2>1, <2>2 DEF Good, Heap, Rest, TypeOK, TableIsList, ListOK, Live
  <1> QED
    BY <1>1, <1>2, <1>3 DEF LoaderInv

LEMMA PartsNext ==
    LoaderInv' <=> (Good(desc, root, DOMAIN handles) /\ Counted(desc, root, var) /\ Rest)'
  BY Parts, PTL

LEMMA InitLoader == Init => LoaderInv
  <1> SUFFICES ASSUME Init PROVE LoaderInv
    OBVIOUS
  <1>1. DOMAIN desc = {} /\ root = NIL /\ handles = << >> /\ DOMAIN handles = {}
    BY DEF Init
  <1>2. Good(desc, root, DOMAIN handles)
    BY <1>1 DEF Good, Heap, List
  <1>3. Counted(desc, root, var)
    BY <1>1 DEF Counted
  <1>4. Rest
    BY <1>1 DEF Init, Rest, Live
  <1> QED
    BY <1>2, <1>3, <1>4, Parts

\* Steps that change neither names nor links nor the table.
LEMMA SameListKeeps ==
    ASSUME LoaderInv, Heap(desc'), DOMAIN desc' = Live,
           \A x \in Live : desc'[x].name = desc[x].name /\ desc'[x].next = desc[x].next,
           \A x \in Listed : desc'[x].refcnt > 0,
           UNCHANGED <<root, handles>>, Counted(desc', root, var'), Rest'
    PROVE  LoaderInv'
  <1>1. Good(desc, root, DOMAIN handles) /\ DOMAIN handles = Listed
    BY Parts DEF LoaderInv, TableIsList
  <1>2. Good(desc', root, DOMAIN handles)
    BY <1>1, SameList DEF Live
  <1> QED
    BY <1>2, PartsNext

\* A variable gets its value and nothing else in the list changes.
LEMMA ReturnKeeps ==
    ASSUME LoaderInv, NEW v \in Var, NEW d \in Live \cup {NIL}, Return(desc, v, d),
           UNCHANGED <<root, handles, inited, answer>>,
           loading' \in Seq([var : Var, result : Live])
    PROVE  LoaderInv'
  <1>1. /\ Good(desc, root, DOMAIN handles) /\ Counted(desc, root, var) /\ Rest
        /\ DOMAIN handles = Listed /\ Heap(desc)
    BY Parts DEF LoaderInv, TableIsList, Good
  <1>2. var \in [Var -> DOMAIN desc \cup {NIL}]
    BY <1>1 DEF Rest, Live
  <1>3. Heap(desc') /\ SameBut(desc', desc) /\ Counted(desc', root, var')
    BY <1>1, <1>2, Assigned DEF Return, Live
  <1>4. DOMAIN desc' = Live
    BY <1>3 DEF SameBut, Live
  <1>5. Rest'
    BY <1>1, <1>4 DEF Rest, Return, Live
  <1>6. \A x \in Live : desc'[x].name = desc[x].name /\ desc'[x].next = desc[x].next
    BY <1>3 DEF SameBut, Live
  <1>7. \A x \in Listed : desc'[x].refcnt > 0
    <2>1. Listed \subseteq Live /\ \A x \in Listed : desc[x].refcnt > 0
      BY DEF LoaderInv, ListOK, TypeOK, TableIsList
    <2> QED
      BY <2>1, <1>3 DEF SameBut, Live
  <1> QED
    BY <1>3, <1>4, <1>5, <1>6, <1>7, SameListKeeps

\* The first descriptor of a name is the only one.
LEMMA FirstNamed ==
    ASSUME LoaderInv, NEW n, Named(n) # {}
    PROVE  First(n) \in Listed /\ First(n) \in Live /\ desc[First(n)].name = n
           /\ Named(n) = {First(n)}
  <1>1. PICK d \in Listed : desc[d].name = n
    BY DEF Named
  <1>2. Named(n) = {d}
    BY <1>1 DEF Named, LoaderInv, TableIsList
  <1>3. Listed \subseteq Live
    BY DEF LoaderInv, TypeOK, TableIsList
  <1>4. d \in Chain(desc, d)
    BY <1>3, <1>1, Parts, ChainFacts DEF Good, Live
  <1>5. First(n) \in Named(n)
    BY <1>2, <1>4 DEF First
  <1> QED
    BY <1>1, <1>2, <1>3, <1>5

-----------------------------------------------------------------------------
(* The steps of Load *)

\* More descriptors, more loads.
LEMMA LoadsGrow ==
    ASSUME NEW S, NEW T, S \subseteq T, NEW s \in Seq([var : Var, result : S])
    PROVE  s \in Seq([var : Var, result : T])
  <1>1. [var : Var, result : S] \subseteq [var : Var, result : T]
    OBVIOUS
  <1> QED
    BY <1>1, SeqMonotonic

\* The innermost load, and the ones it runs in.
LEMMA SeqFront ==
    ASSUME NEW S, NEW s \in Seq(S), s # << >>
    PROVE  s[Len(s)] \in S /\ SubSeq(s, 1, Len(s) - 1) \in Seq(S)
  <1>1. Len(s) \in Nat /\ Len(s) # 0
    BY EmptySeq
  <1>2. Len(s) \in 1 .. Len(s)
    BY <1>1
  <1>3. \A i \in 1 .. Len(s) - 1 : s[i] \in S
    BY <1>1
  <1> QED
    BY <1>1, <1>2, <1>3, SubSeqProperties

LEMMA LoadListedKeeps ==
    ASSUME LoaderInv, NEW n \in Name, NEW v \in Var, LoadListed(n, v)
    PROVE  /\ LoaderInv'
           /\ First(n) \in Listed /\ desc[First(n)].name = n
           /\ \A x \in Live : /\ desc'[x].name = desc[x].name
                              /\ desc'[x].refcnt = IF x = First(n) THEN desc[x].refcnt + 1
                                                                   ELSE desc[x].refcnt
  <1> DEFINE d == First(n)
             h == [desc EXCEPT ![d].refcnt = @ + 1]
  <1>1. /\ Good(desc, root, DOMAIN handles) /\ Counted(desc, root, var) /\ Rest
        /\ DOMAIN handles = Listed /\ Heap(desc)
    BY Parts DEF LoaderInv, TableIsList, Good
  <1>2. d \in Listed /\ d \in DOMAIN desc /\ desc[d].name = n
    BY FirstNamed DEF LoadListed, Live
  <1>3. desc[d].refcnt \in 0 .. MaxRefcnt /\ desc[d].refcnt < MaxRefcnt
    BY <1>1, <1>2 DEF LoadListed, Heap, ModDesc
  <1>4. desc[d].refcnt + 1 \in 0 .. MaxRefcnt /\ desc[d].refcnt + 1 > 0
    BY <1>3, LoaderAssumption
  <1> HIDE DEF d
  <1>5. /\ DOMAIN h = DOMAIN desc
        /\ \A x \in DOMAIN desc : /\ h[x].name = desc[x].name /\ h[x].next = desc[x].next
                                  /\ h[x].rc = desc[x].rc
                                  /\ h[x].refcnt = IF x = d THEN desc[d].refcnt + 1
                                                            ELSE desc[x].refcnt
    BY <1>1, <1>2 DEF Heap, ModDesc
  <1>6. Heap(h)
    <2>1. desc[d] \in ModDesc
      BY <1>1, <1>2 DEF Heap
    <2>2. [desc[d] EXCEPT !.refcnt = @ + 1] \in ModDesc
      BY <1>4, <2>1 DEF ModDesc
    <2>3. h \in [DOMAIN desc -> ModDesc]
      BY <1>1, <1>2, <2>2 DEF Heap
    <2> QED
      BY <1>1, <1>5, <2>3 DEF Heap
  <1> HIDE DEF h
  <1>7. Counted(h, root, var)
    <2>1. \A x \in DOMAIN h : Linked(h, x) = Linked(desc, x)
      BY <1>5, SameLinks
    <2> QED
      BY <1>1, <1>5, <2>1 DEF Counted, Held
  <1>8. Return(h, v, d)
    BY DEF LoadListed, d, h
  <1>9. var \in [Var -> DOMAIN h \cup {NIL}] /\ d \in DOMAIN h
    BY <1>1, <1>2, <1>5 DEF Rest, Live
  <1>10. Heap(desc') /\ SameBut(desc', h) /\ Counted(desc', root, var')
    BY <1>6, <1>7, <1>8, <1>9, Assigned DEF Return
  <1>11. DOMAIN desc' = Live
    BY <1>5, <1>10 DEF SameBut, Live
  <1>12. Rest'
    BY <1>1, <1>8, <1>9, <1>5, <1>11 DEF Rest, Return, Live, LoadListed
  <1>13. \A x \in Live : desc'[x].name = desc[x].name /\ desc'[x].next = desc[x].next
    BY <1>5, <1>10 DEF SameBut, Live
  <1>14. \A x \in Listed : desc'[x].refcnt > 0
    <2>1. Listed \subseteq Live /\ \A x \in Listed : desc[x].refcnt > 0
      BY DEF LoaderInv, ListOK, TypeOK, TableIsList
    <2> QED
      BY <2>1, <1>4, <1>5, <1>10 DEF SameBut, Live
  <1>15. LoaderInv'
    BY <1>10, <1>11, <1>12, <1>13, <1>14, SameListKeeps DEF LoadListed
  <1>16. \A x \in Live : desc'[x].refcnt = IF x = d THEN desc[x].refcnt + 1 ELSE desc[x].refcnt
    BY <1>5, <1>10 DEF SameBut, Live
  <1> QED
    BY <1>2, <1>13, <1>15, <1>16 DEF d

\* A new descriptor is in front of the list, counted once for the list and
\* once for NewModDesc.
LEMMA LinkFacts ==
    ASSUME LoaderInv, NEW n \in Manifest \cup Dylib, NEW d \in Desc \ Live, Named(n) = {}
    PROVE  LET g == Link(Allocate(n, d), d)
           IN  /\ DOMAIN g = Live \cup {d}
               /\ g[d].name = n /\ g[d].refcnt = 1
               /\ \A x \in Live : g[x].name = desc[x].name /\ g[x].refcnt = desc[x].refcnt
               /\ Good(g, d, DOMAIN handles \cup {d})
               /\ Counted(g, d, var)
  <1> DEFINE h0 == [Allocate(n, d) EXCEPT ![d].next = root]
             h1 == oc_retain(h0, root)
             h2 == oc_release(h1, root)
             g  == oc_retain(h2, d)
  <1>1. /\ Good(desc, root, DOMAIN handles) /\ Counted(desc, root, var) /\ Rest
        /\ DOMAIN handles = Listed /\ Heap(desc) /\ Listed \subseteq Live
        /\ root \in Live \cup {NIL} /\ d # NIL /\ d # root
    BY Parts, LoaderAssumption DEF LoaderInv, TypeOK, TableIsList, Good, Live
  <1>2. /\ DOMAIN h0 = Live \cup {d}
        /\ h0[d] = [name |-> n, refcnt |-> 1, next |-> root, rc |-> 1]
        /\ \A x \in Live : h0[x] = desc[x]
    BY DEF Allocate, NewModDesc
  <1> HIDE DEF h0
  <1>3. Heap(h0)
    <2>1. 1 \in 0 .. MaxRefcnt
      BY LoaderAssumption
    <2>2. h0[d] \in ModDesc
      BY <1>1, <1>2, <2>1 DEF ModDesc, Heap, Live
    <2>3. h0 = [x \in DOMAIN h0 |-> h0[x]]
      BY DEF h0, Allocate
    <2>4. h0 \in [DOMAIN h0 -> ModDesc]
      BY <1>1, <1>2, <2>2, <2>3 DEF Heap, Live
    <2> QED
      BY <1>1, <1>2, <2>4 DEF Heap, Live
  <1>4. Heap(h1) /\ SameBut(h1, h0) /\ \A x \in DOMAIN h0 : h1[x].rc = h0[x].rc + One(x, root)
    BY <1>1, <1>2, <1>3, Retain
  <1>5. root # NIL => h1[root].rc >= 2
    <2> SUFFICES ASSUME root # NIL PROVE h1[root].rc >= 2
      OBVIOUS
    <2>1. root \in Live /\ root \in DOMAIN h0 /\ h0[root].rc = desc[root].rc
      BY <1>1, <1>2
    <2>2. Held(desc, root, var, root) \in Nat /\ Held(desc, root, var, root) >= 1
      BY <1>1, <2>1, HeldPositive
    <2>3. desc[root].rc = Held(desc, root, var, root) + 1 /\ One(root, root) = 1
      BY <1>1, <2>1 DEF Counted, One, Live
    <2>4. h1[root].rc = h0[root].rc + One(root, root)
      BY <1>4, <2>1
    <2> QED
      BY <2>1, <2>2, <2>3, <2>4
  <1> HIDE DEF h1
  <1>6. Heap(h2) /\ SameBut(h2, h1) /\ \A x \in DOMAIN h1 : h2[x].rc = h1[x].rc - One(x, root)
    <2>1. root \in DOMAIN h1 \cup {NIL}
      BY <1>1, <1>2, <1>4 DEF SameBut
    <2> QED
      BY <1>4, <1>5, <2>1, Release DEF h2
  <1> HIDE DEF h2
  <1>7. Heap(g) /\ SameBut(g, h2) /\ \A x \in DOMAIN h2 : g[x].rc = h2[x].rc + One(x, d)
    <2>1. d \in DOMAIN h2
      BY <1>2, <1>4, <1>6 DEF SameBut
    <2> QED
      BY <1>6, <2>1, Retain DEF g
  <1> HIDE DEF g
  <1>8. SameBut(g, h0)
    BY <1>4, <1>6, <1>7 DEF SameBut
  <1>9. ASSUME NEW x \in Live \cup {d} PROVE g[x].rc = h0[x].rc + One(x, d)
    <2>1. x \in DOMAIN h0 /\ x \in DOMAIN h1 /\ x \in DOMAIN h2
      BY <1>2, <1>4, <1>6 DEF SameBut
    <2>2. /\ h1[x].rc = h0[x].rc + One(x, root) /\ h2[x].rc = h1[x].rc - One(x, root)
          /\ g[x].rc = h2[x].rc + One(x, d)
      BY <2>1, <1>4, <1>6, <1>7
    <2>3. h0[x].rc \in Nat /\ One(x, root) \in Nat
      BY <2>1, <1>3 DEF Heap, ModDesc, One
    <2> QED
      BY <2>2, <2>3
  <1>10. /\ DOMAIN g = Live \cup {d} /\ g[d].name = n /\ g[d].refcnt = 1 /\ g[d].next = root
         /\ \A x \in Live : /\ g[x].name = desc[x].name /\ g[x].refcnt = desc[x].refcnt
                            /\ g[x].next = desc[x].next
    BY <1>2, <1>8 DEF SameBut
  <1>11. Good(g, d, DOMAIN handles \cup {d})
    <2>1. \A x \in DOMAIN handles : desc[x].name # n
      BY <1>1 DEF Named
    <2> QED
      BY <1>1, <1>7, <1>10, <2>1, Attached DEF Live
  <1>12. ASSUME NEW x \in Live \cup {d} PROVE g[x].rc = Held(g, d, var, x) + 1
    <2>1. Cardinality(Linked(g, x)) = Cardinality(Linked(desc, x)) + One(root, x)
      BY <1>1, <1>10, LinkAdded DEF Live
    <2>2. /\ Cardinality(Pointing(var, x)) \in Nat /\ Cardinality(Linked(desc, x)) \in Nat
          /\ IsFiniteSet(Pointing(var, x)) /\ IsFiniteSet(Linked(desc, x))
      BY <1>1, HeldFinite
    <2>3. CASE x \in Live /\ x # d
      <3>1. desc[x].rc = Held(desc, root, var, x) + 1 /\ h0[x].rc = desc[x].rc
        BY <1>1, <1>2, <2>3 DEF Counted, Live
      <3>2. One(x, d) = 0 /\ g[x].rc = h0[x].rc + One(x, d)
        BY <1>9, <2>3 DEF One
      <3> QED
        BY <2>1, <2>2, <2>3, <3>1, <3>2 DEF Held, One
    <2>4. CASE x = d
      <3>1. Pointing(var, x) = {} /\ Linked(desc, x) = {}
        BY <1>1, <2>4 DEF Pointing, Linked, Rest, Heap, Live
      <3>2. Cardinality(Pointing(var, x)) = 0 /\ Cardinality(Linked(desc, x)) = 0
        BY <3>1, FS_EmptySet
      <3>3. One(root, x) = 0 /\ One(x, d) = 1 /\ h0[x].rc = 1 /\ g[x].rc = h0[x].rc + One(x, d)
        BY <1>1, <1>2, <1>9, <2>4 DEF One
      <3> QED
        BY <2>1, <2>4, <3>2, <3>3 DEF Held
    <2> QED
      BY <2>3, <2>4
  <1>13. Counted(g, d, var)
    BY <1>10, <1>12 DEF Counted
  <1> QED
    BY <1>10, <1>11, <1>13 DEF Link, g, h2, h1, h0

\* The two forms of Load of a module that is not on the list.
LEMMA LoadStartsKeeps ==
    ASSUME LoaderInv, NEW n \in Name, NEW v \in Var, NEW w \in Way, NEW d \in Desc,
           LoadStarts(n, v, w, d)
    PROVE  LoaderInv'
  <1>1. /\ d \in Desc \ Live /\ Named(n) = {} /\ desc' = Link(Allocate(n, d), d)
        /\ root' = d /\ DOMAIN handles' = DOMAIN handles \cup {d}
        /\ n \in Manifest \cup Dylib
    BY DEF LoadStarts, Attach, Finds
  <1>2. /\ DOMAIN desc' = Live \cup {d}
        /\ Good(desc', root', DOMAIN handles') /\ Counted(desc', root', var)
    BY <1>1, LinkFacts
  <1>3. Rest'
    <2>1. Rest
      BY Parts
    <2>2. handles' \in [DOMAIN handles' -> Way]
      BY <2>1 DEF Rest, LoadStarts, Attach
    <2>3. Live' = Live \cup {d}
      BY <1>2 DEF Live
    <2>4. loading' \in Seq([var : Var, result : Live'])
      <3>1. loading \in Seq([var : Var, result : Live'])
        BY <2>1, <2>3, LoadsGrow DEF Rest
      <3>2. [var |-> v, result |-> d] \in [var : Var, result : Live']
        BY <2>3
      <3> QED
        BY <3>1, <3>2 DEF LoadStarts
    <2> QED
      BY <2>1, <2>2, <2>3, <2>4 DEF Rest, LoadStarts, Attach
  <1> QED
    BY <1>2, <1>3, PartsNext DEF LoadStarts

LEMMA LoadAgainKeeps ==
    ASSUME LoaderInv, NEW n \in Name, NEW v \in Var, NEW w \in Way, NEW d \in Desc,
           LoadAgain(n, v, w, d)
    PROVE  LoaderInv'
  <1> DEFINE g == Link(Allocate(n, d), d)
  <1>1. /\ d \in Desc \ Live /\ Named(n) = {} /\ Return(g, v, d)
        /\ root' = d /\ DOMAIN handles' = DOMAIN handles \cup {d}
        /\ n \in Manifest \cup Dylib
    BY DEF LoadAgain, Attach, Finds
  <1>2. /\ DOMAIN g = Live \cup {d}
        /\ Good(g, d, DOMAIN handles \cup {d}) /\ Counted(g, d, var)
    BY <1>1, LinkFacts
  <1> HIDE DEF g
  <1>3. Rest /\ Heap(g)
    BY <1>2, Parts DEF Good
  <1>4. var \in [Var -> DOMAIN g \cup {NIL}]
    BY <1>2, <1>3 DEF Rest
  <1>5. Heap(desc') /\ SameBut(desc', g) /\ Counted(desc', root', var')
    BY <1>1, <1>2, <1>3, <1>4, Assigned DEF Return
  <1>6. Good(desc', root', DOMAIN handles')
    <2>1. \A x \in DOMAIN handles' : x \in DOMAIN g /\ desc'[x].refcnt > 0
      <3>1. DOMAIN handles' \subseteq DOMAIN g
        BY <1>1, <1>2, ChainFacts DEF Good, List
      <3> QED
        BY <3>1, <1>1, <1>2, <1>5 DEF Good, SameBut
    <2> QED
      BY <2>1, <1>1, <1>2, <1>5, SameList DEF SameBut
  <1>7. Rest'
    <2>1. handles' \in [DOMAIN handles' -> Way]
      BY <1>3 DEF Rest, LoadAgain, Attach
    <2>2. Live' = Live \cup {d}
      BY <1>2, <1>5 DEF Live, SameBut
    <2>3. loading' \in Seq([var : Var, result : Live'])
      BY <1>3, <2>2, LoadsGrow DEF Rest, LoadAgain
    <2> QED
      BY <1>1, <1>3, <2>1, <2>2, <2>3 DEF Rest, LoadAgain, Attach, Return
  <1> QED
    BY <1>5, <1>6, <1>7, PartsNext

\* A Load that is done, or that failed.
LEMMA LoadReturnsKeeps ==
    ASSUME LoaderInv, LoadReturns
    PROVE  LoaderInv'
  <1>1. loading \in Seq([var : Var, result : Live]) /\ loading # << >>
    BY Parts DEF Rest, LoadReturns
  <1>2. loading[Len(loading)] \in [var : Var, result : Live]
    BY <1>1, SeqFront
  <1>3. loading' \in Seq([var : Var, result : Live])
    BY <1>1, SeqFront DEF LoadReturns
  <1> QED
    BY <1>2, <1>3, ReturnKeeps DEF LoadReturns

LEMMA LoadFailsKeeps ==
    ASSUME LoaderInv, NEW n \in Name, NEW v \in Var, LoadFails(n, v)
    PROVE  LoaderInv'
  BY Parts, ReturnKeeps DEF LoadFails, Rest

-----------------------------------------------------------------------------
(* Free, and what a program does with its variables *)

\* What taking m off the list leaves.
LEMMA UnlinkFacts ==
    ASSUME LoaderInv, NEW m \in Listed, Unlink(m)
    PROVE  /\ DOMAIN desc' = Live
           /\ \A x \in Live : desc'[x].name = desc[x].name
           /\ \A x \in Live \ {m} : desc'[x].refcnt = desc[x].refcnt
           /\ Good(desc', root', DOMAIN handles \ {m})
           /\ Counted(desc', root', var)
  <1> DEFINE k  == desc[m].next
             P  == { x \in Listed : desc[x].next = m }
             h0 == [x \in Live |-> IF x \in P THEN [desc[x] EXCEPT !.next = k]
                                   ELSE IF x = m THEN [desc[x] EXCEPT !.refcnt = @ - 1]
                                   ELSE desc[x]]
             h1 == oc_retain(h0, k)
             g  == oc_release(h1, m)
             q  == IF root = m THEN k ELSE root
  <1>1. /\ Good(desc, root, DOMAIN handles) /\ Counted(desc, root, var) /\ Rest
        /\ DOMAIN handles = Listed /\ Heap(desc) /\ Listed \subseteq Live
        /\ root \in Live \cup {NIL} /\ m \in Live /\ m # NIL /\ k \in Live \cup {NIL}
        /\ desc[m].refcnt > 0
    BY Parts, LoaderAssumption
    DEF LoaderInv, TypeOK, TableIsList, ListOK, Good, Heap, Live
  <1>2. desc' = g /\ root' = q
    BY DEF Unlink
  <1>3. \A x : x \in P <=> x \in Listed /\ desc[x].next = m
    BY <1>1
  <1>4. /\ DOMAIN h0 = Live
        /\ \A x \in Live : h0[x] = IF x \in P THEN [desc[x] EXCEPT !.next = k]
                                   ELSE IF x = m THEN [desc[x] EXCEPT !.refcnt = @ - 1]
                                   ELSE desc[x]
    OBVIOUS
  <1>5. \/ root = m /\ \A x \in Listed : desc[x].next # m
        \/ root # m /\ \E p \in Listed : P = {p}
    <2>1. Good(desc, root, Listed)
      BY <1>1
    <2> QED
      BY <2>1, OneLink
  <1>6. h0 = [x \in DOMAIN h0 |-> h0[x]]
    OBVIOUS
  <1> HIDE DEF h0, k, P
  <1>7. ASSUME NEW x \in Live
        PROVE  /\ h0[x].name = desc[x].name /\ h0[x].rc = desc[x].rc
               /\ h0[x].next = IF x \in P THEN k ELSE desc[x].next
               /\ x # m => h0[x].refcnt = desc[x].refcnt
               /\ h0[x] \in ModDesc
    <2>1. desc[x] \in ModDesc
      BY <1>1 DEF Heap, Live
    <2>2. k \in Desc \cup {NIL}
      BY <1>1 DEF Heap, Live
    <2>3. x = m => desc[x].refcnt - 1 \in 0 .. MaxRefcnt
      <3>1. desc[x].refcnt \in 0 .. MaxRefcnt
        BY <2>1 DEF ModDesc
      <3> QED
        BY <3>1, <1>1, LoaderAssumption
    <2>4. CASE x \in P
      <3>1. h0[x] = [desc[x] EXCEPT !.next = k]
        BY <2>4, <1>4
      <3> QED
        BY <3>1, <2>1, <2>2, <2>4 DEF ModDesc
    <2>5. CASE x \notin P /\ x = m
      <3>1. h0[x] = [desc[x] EXCEPT !.refcnt = @ - 1]
        BY <2>5, <1>4
      <3> QED
        BY <3>1, <2>1, <2>3, <2>5 DEF ModDesc
    <2>6. CASE x \notin P /\ x # m
      <3>1. h0[x] = desc[x]
        BY <2>6, <1>4
      <3> QED
        BY <3>1, <2>1, <2>6 DEF ModDesc
    <2> QED
      BY <2>4, <2>5, <2>6
  <1>8. /\ DOMAIN h0 = Live
        /\ \A x \in Live :
             /\ h0[x].name = desc[x].name /\ h0[x].rc = desc[x].rc
             /\ h0[x].next = IF x \in Listed /\ desc[x].next = m THEN k ELSE desc[x].next
             /\ x # m => h0[x].refcnt = desc[x].refcnt
             /\ h0[x] \in ModDesc
    BY <1>3, <1>4, <1>7
  <1>9. Heap(h0)
    <2>1. h0 \in [DOMAIN h0 -> ModDesc]
      BY <1>8, <1>6
    <2> QED
      BY <1>1, <1>8, <2>1 DEF Heap, Live
  <1>10. Heap(h1) /\ SameBut(h1, h0) /\ \A x \in Live : h1[x].rc = h0[x].rc + One(x, k)
    BY <1>1, <1>8, <1>9, Retain
  <1>11. h1[m].rc >= 2
    <2>1. root = m \/ \E e \in DOMAIN desc : desc[e].next = m
      BY <1>1, <1>5, <1>3 DEF Live
    <2>2. Held(desc, root, var, m) \in Nat /\ Held(desc, root, var, m) >= 1
      BY <1>1, <2>1, HeldPositive
    <2>3. desc[m].rc = Held(desc, root, var, m) + 1 /\ One(m, k) \in Nat
      BY <1>1 DEF Counted, One, Live
    <2>4. h1[m].rc = desc[m].rc + One(m, k)
      BY <1>1, <1>8, <1>10
    <2> QED
      BY <2>2, <2>3, <2>4
  <1> HIDE DEF h1
  <1>12. Heap(g) /\ SameBut(g, h1) /\ \A x \in Live : g[x].rc = h1[x].rc - One(x, m)
    <2>1. DOMAIN h1 = Live
      BY <1>8, <1>10 DEF SameBut
    <2> QED
      BY <1>1, <1>10, <1>11, <2>1, Release
  <1> HIDE DEF g
  <1>13. /\ DOMAIN g = Live
        /\ \A x \in Live :
             /\ g[x].name = desc[x].name
             /\ g[x].next = IF x \in Listed /\ desc[x].next = m THEN k ELSE desc[x].next
             /\ x # m => g[x].refcnt = desc[x].refcnt
    BY <1>8, <1>10, <1>12 DEF SameBut
  <1>14. Good(g, q, DOMAIN handles \ {m})
    <2>1. \A x \in Listed \ {m} : g[x].refcnt > 0
      BY <1>1, <1>13 DEF LoaderInv, ListOK
    <2>2. Good(desc, root, Listed) /\ Heap(g) /\ DOMAIN g = DOMAIN desc
      BY <1>1, <1>12, <1>13 DEF Live
    <2>3. \A x \in DOMAIN desc :
             /\ g[x].name = desc[x].name
             /\ g[x].next = IF x \in Listed /\ desc[x].next = m THEN desc[m].next ELSE desc[x].next
      BY <1>13 DEF Live, k
    <2>4. Good(g, IF root = m THEN desc[m].next ELSE root, Listed \ {m})
      BY <2>1, <2>2, <2>3, Unlinked
    <2> QED
      BY <1>1, <2>4 DEF k
  <1>15. ASSUME NEW x \in Live PROVE g[x].rc = Held(g, q, var, x) + 1
    <2>1. g[x].rc = desc[x].rc + One(x, k) - One(x, m)
      <3>1. g[x].rc = h1[x].rc - One(x, m) /\ h1[x].rc = h0[x].rc + One(x, k)
            /\ h0[x].rc = desc[x].rc
        BY <1>8, <1>10, <1>12
      <3>2. h0[x].rc \in Nat /\ One(x, k) \in Nat /\ One(x, m) \in Nat
        BY <1>8 DEF ModDesc, One
      <3> QED
        BY <3>1, <3>2
    <2>2. desc[x].rc = Held(desc, root, var, x) + 1
      BY <1>1 DEF Counted, Live
    <2>3. Cardinality(Pointing(var, x)) \in Nat /\ Cardinality(Linked(desc, x)) \in Nat
      BY <1>1, HeldFinite
    <2>4. One(x, k) = One(k, x) /\ One(x, m) = One(m, x) /\ One(k, x) \in Nat /\ One(m, x) \in Nat
      BY DEF One
    <2>5. CASE root = m /\ \A y \in Listed : desc[y].next # m
      <3>1. Linked(g, x) = Linked(desc, x)
        BY <1>13, <2>5, SameLinks DEF Live
      <3> QED
        BY <2>1, <2>2, <2>3, <2>4, <2>5, <3>1 DEF Held, One
    <2>6. CASE root # m /\ \E p \in Listed : P = {p}
      <3>1. PICK p \in Listed : P = {p}
        BY <2>6
      <3>2. p \in Live /\ desc[p].next = m /\ g[p].next = k
            /\ \A y \in Live \ {p} : g[y].next = desc[y].next
        BY <3>1, <1>1, <1>13, <1>3
      <3>3. Cardinality(Linked(g, x)) = Cardinality(Linked(desc, x)) + One(k, x) - One(m, x)
        BY <3>2, <1>1, <1>13, LinkMoved DEF Live
      <3> QED
        BY <2>1, <2>2, <2>3, <2>4, <2>6, <3>3 DEF Held
    <2> QED
      BY <1>5, <2>5, <2>6
  <1>16. Counted(g, q, var)
    BY <1>13, <1>15 DEF Counted
  <1> QED
    BY <1>2, <1>13, <1>14, <1>16

LEMMA FreeKeeps ==
    ASSUME LoaderInv, NEW n \in Name, Free(n)
    PROVE  LoaderInv'
  <1> DEFINE m == First(n)
  <1>1. /\ Good(desc, root, DOMAIN handles) /\ Counted(desc, root, var) /\ Rest
        /\ DOMAIN handles = Listed /\ Heap(desc)
    BY Parts DEF LoaderInv, TableIsList, Good
  <1>2. m \in Listed /\ m \in Live
    BY FirstNamed DEF Free
  <1>3. desc[m].refcnt \in 0 .. MaxRefcnt /\ desc[m] \in ModDesc
    BY <1>1, <1>2 DEF Heap, ModDesc, Live
  <1>4. CASE desc[m].refcnt - 1 <= 0
    <2>1. Unlink(m)
      BY <1>4 DEF Free
    <2>2. /\ DOMAIN desc' = Live
          /\ Good(desc', root', DOMAIN handles \ {m}) /\ Counted(desc', root', var')
      BY <2>1, <1>2, UnlinkFacts DEF Free
    <2>3. DOMAIN handles' = DOMAIN handles \ {m}
      BY <2>1 DEF Unlink
    <2>4. handles' \in [DOMAIN handles' -> Way]
      BY <2>1, <1>1 DEF Unlink, Rest
    <2>5. Rest'
      BY <2>2, <2>4, <1>1 DEF Rest, Free, Live
    <2> QED
      BY <2>2, <2>3, <2>5, PartsNext
  <1>5. CASE ~(desc[m].refcnt - 1 <= 0)
    <2>1. desc' = [desc EXCEPT ![m].refcnt = @ - 1] /\ UNCHANGED <<root, handles, var>>
      BY <1>5 DEF Free
    <2>2. desc[m].refcnt - 1 \in 0 .. MaxRefcnt /\ desc[m].refcnt - 1 > 0
      BY <1>3, <1>5, LoaderAssumption
    <2> HIDE DEF m
    <2>3. [desc[m] EXCEPT !.refcnt = @ - 1] \in ModDesc
      BY <1>3, <2>2 DEF ModDesc
    <2>4. /\ DOMAIN desc' = Live
          /\ \A x \in Live : /\ desc'[x].name = desc[x].name /\ desc'[x].next = desc[x].next
                             /\ desc'[x].rc = desc[x].rc /\ desc'[x] \in ModDesc
                             /\ desc'[x].refcnt = IF x = m THEN desc[m].refcnt - 1
                                                           ELSE desc[x].refcnt
      BY <2>1, <2>3, <1>1, <1>2 DEF Heap, ModDesc, Live
    <2>5. Heap(desc')
      <3>1. desc' = [x \in DOMAIN desc' |-> desc'[x]]
        BY <2>1, <1>1 DEF Heap
      <3>2. desc' \in [DOMAIN desc' -> ModDesc]
        BY <2>4, <3>1
      <3> QED
        BY <2>4, <3>2, <1>1 DEF Heap, Live
    <2>6. Counted(desc', root, var')
      <3>1. \A x \in Live : Linked(desc', x) = Linked(desc, x)
        BY <2>4, SameLinks DEF Live
      <3>2. \A x \in Live : Held(desc', root, var', x) = Held(desc, root, var, x)
        BY <3>1, <2>1 DEF Held
      <3>3. \A x \in Live : desc[x].rc = Held(desc, root, var, x) + 1
        BY <1>1 DEF Counted, Live
      <3> QED
        BY <3>2, <3>3, <2>4 DEF Counted
    <2>7. \A x \in Listed : desc'[x].refcnt > 0
      <3>1. Listed \subseteq Live /\ \A x \in Listed : desc[x].refcnt > 0
        BY DEF LoaderInv, ListOK, TypeOK, TableIsList
      <3> QED
        BY <3>1, <2>2, <2>4
    <2>8. Rest'
      BY <2>1, <2>4, <1>1 DEF Rest, Free, Live
    <2> QED
      BY <2>1, <2>4, <2>5, <2>6, <2>7, <2>8, SameListKeeps
  <1> QED
    BY <1>4, <1>5

LEMMA PointKeeps ==
    ASSUME LoaderInv, NEW v \in Var, NEW d \in Desc \cup {NIL}, Point(v, d)
    PROVE  LoaderInv'
  <1>1. /\ root \in Live \cup {NIL} /\ var \in [Var -> Live \cup {NIL}]
        /\ loading \in Seq([var : Var, result : Live])
        /\ \A x \in Live : desc[x].next \in Live \cup {NIL}
    BY DEF LoaderInv, TypeOK
  <1>2. d \in Live \cup {NIL}
    BY <1>1 DEF Point
  <1> QED
    BY <1>1, <1>2, ReturnKeeps DEF Point

LEMMA ThisCommandKeeps ==
    ASSUME LoaderInv, NEW v \in Var, ThisCommand(v)
    PROVE  LoaderInv'
  <1>1. Good(desc, root, DOMAIN handles) /\ Counted(desc, root, var) /\ Rest
        /\ DOMAIN handles \subseteq Live
    BY Parts DEF LoaderInv, TypeOK
  <1>2. answer' \in Name \cup {NIL}
    <2>1. \A d \in Live : desc[d].name \in Name
      BY <1>1, LoaderAssumption DEF Good, Heap, ModDesc, Live
    <2> QED
      BY <1>1, <2>1 DEF ThisCommand
  <1>3. Rest'
    BY <1>1, <1>2 DEF Rest, ThisCommand, Live
  <1> QED
    BY <1>1, <1>3, PartsNext DEF ThisCommand

LEMMA ImportKeeps ==
    ASSUME LoaderInv, NEW n \in Name, Import(n)
    PROVE  LoaderInv'
  <1>1. Good(desc, root, DOMAIN handles) /\ Counted(desc, root, var) /\ Rest
    BY Parts
  <1>2. Rest'
    BY <1>1 DEF Rest, Import, Live, Way
  <1> QED
    BY <1>1, <1>2, PartsNext DEF Import

\* The loader's invariant is inductive.
THEOREM LoaderInductive == Spec => []LoaderInv
  <1>1. LoaderInv /\ [Next]_vars => LoaderInv'
    <2> SUFFICES ASSUME LoaderInv, [Next]_vars PROVE LoaderInv'
      OBVIOUS
    <2>1. CASE \E n \in Name, v \in Var : Load(n, v)
      BY <2>1, LoadListedKeeps, LoadAgainKeeps, LoadStartsKeeps, LoadFailsKeeps DEF Load
    <2>2. CASE LoadReturns
      BY <2>2, LoadReturnsKeeps
    <2>3. CASE \E n \in Name : Free(n) \/ Import(n)
      BY <2>3, FreeKeeps, ImportKeeps
    <2>4. CASE \E v \in Var : ThisCommand(v) \/ \E d \in Desc \cup {NIL} : Point(v, d)
      BY <2>4, ThisCommandKeeps, PointKeeps
    <2>5. CASE UNCHANGED vars
      <3>1. Good(desc, root, DOMAIN handles) /\ Counted(desc, root, var) /\ Rest
        BY Parts
      <3> QED
        BY <3>1, <2>5, PartsNext DEF vars, Rest, Live
    <2> QED
      BY <2>1, <2>2, <2>3, <2>4, <2>5 DEF Next
  <1> QED
    BY InitLoader, <1>1, PTL DEF Spec

\* Every variable keeps to its type, and no record the loader, a program's
\* variable or a running Load can reach has been freed.
THEOREM LoaderTypes == Spec => []TypeOK
  BY LoaderInductive, PTL DEF LoaderInv

\* The side table has exactly the descriptors on the list, one for a name.
THEOREM TableMatches == Spec => []TableIsList
  BY LoaderInductive, PTL DEF LoaderInv

\* Each descriptor's count is one above the references to it.
THEOREM DescriptorCounts == Spec => []CountsHold
  BY LoaderInductive, PTL DEF LoaderInv

-----------------------------------------------------------------------------
(* The loader implements ModuleUse *)

\* Use counts and handles, in terms of the list.
LEMMA UseFacts ==
    LoaderInv =>
      /\ Listed \subseteq Live /\ DOMAIN handles = Listed
      /\ var \in [Var -> Live \cup {NIL}] /\ NIL \notin Live
      /\ \A d \in Live : desc[d].name \in Manifest \cup Dylib
      /\ \A d, e \in Listed : desc[d].name = desc[e].name => d = e
      /\ DOMAIN Uses = Name /\ Uses = [n \in Name |-> Uses[n]]
      /\ \A d \in Listed : desc[d].refcnt \in Nat \ {0} /\ Uses[desc[d].name] = desc[d].refcnt
      /\ \A n \in Name : (\A d \in Listed : desc[d].name # n) => Uses[n] = 0
      /\ Handles = [v \in Var |-> HandleOn(var[v])]
  <1> SUFFICES ASSUME LoaderInv
               PROVE  /\ Listed \subseteq Live /\ DOMAIN handles = Listed
                      /\ var \in [Var -> Live \cup {NIL}] /\ NIL \notin Live
                      /\ \A d \in Live : desc[d].name \in Manifest \cup Dylib
                      /\ \A d, e \in Listed : desc[d].name = desc[e].name => d = e
                      /\ DOMAIN Uses = Name /\ Uses = [n \in Name |-> Uses[n]]
                      /\ \A d \in Listed : desc[d].refcnt \in Nat \ {0}
                                             /\ Uses[desc[d].name] = desc[d].refcnt
                      /\ \A n \in Name : (\A d \in Listed : desc[d].name # n) => Uses[n] = 0
                      /\ Handles = [v \in Var |-> HandleOn(var[v])]
    OBVIOUS
  <1>1. /\ Listed \subseteq Live /\ DOMAIN handles = Listed
        /\ var \in [Var -> Live \cup {NIL}] /\ NIL \notin Live
        /\ \A d \in Live : desc[d] \in ModDesc
        /\ \A d, e \in Listed : desc[d].name = desc[e].name => d = e
        /\ \A d \in Listed : desc[d].refcnt > 0
    BY LoaderAssumption DEF LoaderInv, TypeOK, TableIsList, ListOK
  <1>2. \A d \in Live : /\ desc[d].name \in Manifest \cup Dylib
                        /\ desc[d].name \in Name /\ desc[d].refcnt \in Nat
    BY <1>1, LoaderAssumption DEF ModDesc
  <1>3. ASSUME NEW d \in Listed PROVE Uses[desc[d].name] = desc[d].refcnt
    <2> DEFINE n == desc[d].name
    <2>1. d \in Named(n) /\ n \in Name
      BY <1>1, <1>2 DEF Named
    <2> HIDE DEF n
    <2>2. Named(n) = {First(n)}
      BY <2>1, FirstNamed
    <2>3. First(n) = d
      BY <2>1, <2>2
    <2> QED
      BY <2>1, <2>2, <2>3 DEF Uses, n
  <1>4. ASSUME NEW n \in Name, \A d \in Listed : desc[d].name # n PROVE Uses[n] = 0
    BY <1>4 DEF Uses, Named
  <1>5. DOMAIN Uses = Name /\ Uses = [n \in Name |-> Uses[n]]
    BY DEF Uses
  <1>6. \A d \in Listed : desc[d].refcnt \in Nat \ {0}
    BY <1>1, <1>2
  <1> QED
    BY <1>1, <1>2, <1>3, <1>4, <1>5, <1>6 DEF Handles

LEMMA UseFactsNext ==
    LoaderInv' =>
     (/\ Listed \subseteq Live /\ DOMAIN handles = Listed
      /\ var \in [Var -> Live \cup {NIL}] /\ NIL \notin Live
      /\ \A d \in Live : desc[d].name \in Manifest \cup Dylib
      /\ \A d, e \in Listed : desc[d].name = desc[e].name => d = e
      /\ DOMAIN Uses = Name /\ Uses = [n \in Name |-> Uses[n]]
      /\ \A d \in Listed : desc[d].refcnt \in Nat \ {0} /\ Uses[desc[d].name] = desc[d].refcnt
      /\ \A n \in Name : (\A d \in Listed : desc[d].name # n) => Uses[n] = 0
      /\ Handles = [v \in Var |-> HandleOn(var[v])])'
  BY UseFacts, PTL

\* Names, links and use counts of the list make the uses.
LEMMA UsesSame ==
    ASSUME LoaderInv, LoaderInv', Listed' = Listed,
           \A d \in Listed : desc'[d].name = desc[d].name /\ desc'[d].refcnt = desc[d].refcnt
    PROVE  Uses' = Uses
  <1>1. ASSUME NEW n \in Name PROVE Uses'[n] = Uses[n]
    <2>1. CASE \E d \in Listed : desc[d].name = n
      BY <2>1, UseFacts, UseFactsNext
    <2>2. CASE \A d \in Listed : desc[d].name # n
      BY <2>2, UseFacts, UseFactsNext
    <2> QED
      BY <2>1, <2>2
  <1> QED
    BY <1>1, UseFacts, UseFactsNext

\* The use count of one listed name becomes c, the others keep theirs.
LEMMA UsesAt ==
    ASSUME LoaderInv, LoaderInv', NEW n \in Name, NEW c,
           Uses'[n] = c,
           \A d \in Live : desc[d].name # n => (d \in Listed' <=> d \in Listed),
           \A d \in Listed' : d \in Live \/ desc'[d].name = n,
           \A d \in Live : desc'[d].name = desc[d].name,
           \A d \in Live : desc[d].name # n => desc'[d].refcnt = desc[d].refcnt
    PROVE  Uses' = [Uses EXCEPT ![n] = c]
  <1>1. ASSUME NEW k \in Name, k # n PROVE Uses'[k] = Uses[k]
    <2>1. CASE \E d \in Listed : desc[d].name = k
      BY <1>1, <2>1, UseFacts, UseFactsNext
    <2>2. CASE \A d \in Listed : desc[d].name # k
      <3>1. \A d \in Listed' : desc'[d].name # k
        BY <1>1, <2>2, UseFacts
      <3> QED
        BY <3>1, <2>2, UseFacts, UseFactsNext
    <2> QED
      BY <2>1, <2>2
  <1> QED
    BY <1>1, UseFacts, UseFactsNext


\* A variable that is written, in a step that keeps the names of descriptors
\* and their being on the list, is written for the program.
LEMMA HandlesAt ==
    ASSUME LoaderInv, LoaderInv', NEW v \in Var, NEW d, var' = [var EXCEPT ![v] = d],
           \A x \in Live : /\ desc'[x].name = desc[x].name
                           /\ x \in Listed' <=> x \in Listed
    PROVE  /\ Handles' = [Handles EXCEPT ![v] = Handles'[v]]
           /\ d = NIL => Handles'[v] = NIL
           /\ d # NIL => Handles'[v] = [name |-> desc'[d].name, fresh |-> d \in Listed']
           /\ d # NIL /\ d \in Listed' => Handles'[v] = [name |-> desc'[d].name, fresh |-> TRUE]
  <1>1. ASSUME NEW x \in Var, x # v PROVE Handles'[x] = Handles[x]
    <2>1. var'[x] = var[x] /\ var[x] \in Live \cup {NIL}
      BY <1>1, UseFacts
    <2>2. Handles'[x] = HandleOn(var[x])' /\ Handles[x] = HandleOn(var[x])
      BY <2>1, UseFacts, UseFactsNext
    <2> QED
      BY <2>1, <2>2 DEF HandleOn
  <1>2. Handles'[v] = HandleOn(var[v])' /\ var'[v] = d
    BY UseFacts, UseFactsNext
  <1>3. /\ d = NIL => Handles'[v] = NIL
        /\ d # NIL => Handles'[v] = [name |-> desc'[d].name, fresh |-> d \in Listed']
    BY <1>2 DEF HandleOn
  <1>4. (d \in Listed') => (d \in Listed') = TRUE
    OBVIOUS
  <1>5. Handles' = [Handles EXCEPT ![v] = Handles'[v]]
    BY <1>1, UseFacts, UseFactsNext
  <1> QED
    BY <1>3, <1>4, <1>5

\* A step that writes no variable.
LEMMA HandlesSame ==
    ASSUME LoaderInv, LoaderInv', var' = var,
           \A x \in Live : /\ desc'[x].name = desc[x].name
                           /\ x \in Listed' <=> x \in Listed
    PROVE  Handles' = Handles
  <1>1. ASSUME NEW x \in Var PROVE Handles'[x] = Handles[x]
    <2>1. var[x] \in Live \cup {NIL}
      BY UseFacts
    <2>2. Handles'[x] = HandleOn(var[x])' /\ Handles[x] = HandleOn(var[x])
      BY UseFacts, UseFactsNext
    <2> QED
      BY <2>1, <2>2 DEF HandleOn
  <1> QED
    BY <1>1, UseFacts, UseFactsNext

\* The steps of Load are a Load.
LEMMA LoadListedIsLoad ==
    ASSUME LoaderInv, NEW n \in Name, NEW v \in Var, LoadListed(n, v)
    PROVE  Use!Load(n)
  <1> DEFINE d == First(n)
  <1>1. /\ LoaderInv' /\ d \in Listed /\ desc[d].name = n
        /\ \A x \in Live : /\ desc'[x].name = desc[x].name
                           /\ desc'[x].refcnt = IF x = d THEN desc[x].refcnt + 1
                                                ELSE desc[x].refcnt
    BY LoadListedKeeps
  <1> HIDE DEF d
  <1>2. Listed' = Listed /\ Listed \subseteq Live /\ d # NIL
    BY <1>1, UseFacts, UseFactsNext DEF LoadListed
  <1>3. Uses[n] = desc[d].refcnt /\ Uses'[n] = desc[d].refcnt + 1
    BY <1>1, <1>2, UseFacts, UseFactsNext
  <1>4. Uses' = [Uses EXCEPT ![n] = Uses[n] + 1]
    BY <1>1, <1>2, <1>3, UsesAt
  <1>5. var' = [var EXCEPT ![v] = d]
    BY DEF LoadListed, Return, d
  <1>6. Handles' = [Handles EXCEPT ![v] = [name |-> n, fresh |-> TRUE]]
    <2>1. d # NIL /\ d \in Listed' /\ desc'[d].name = n
      BY <1>1, <1>2, <1>5
    <2>2. d # NIL /\ d \in Listed' => Handles'[v] = [name |-> desc'[d].name, fresh |-> TRUE]
      BY <1>1, <1>2, <1>5, HandlesAt
    <2>3. Handles' = [Handles EXCEPT ![v] = Handles'[v]]
      BY <1>1, <1>2, <1>5, HandlesAt
    <2> QED
      BY <2>1, <2>2, <2>3
  <1>7. n \in Manifest \cup Dylib
    BY <1>1, <1>2, UseFacts
  <1> QED
    BY <1>4, <1>6, <1>7 DEF Use!Load, LoadListed

\* What a new descriptor does to the uses.
LEMMA AttachUses ==
    ASSUME LoaderInv, LoaderInv', NEW n \in Name, NEW w, NEW d, Attach(n, w, d),
           desc'[d].name = n, desc'[d].refcnt = 1,
           \A x \in Live : desc'[x].name = desc[x].name /\ desc'[x].refcnt = desc[x].refcnt
    PROVE  /\ Uses' = [Uses EXCEPT ![n] = Uses[n] + 1]
           /\ Listed' = Listed \cup {d} /\ d \notin Live /\ d # NIL
           /\ n \in Manifest \cup Dylib
  <1>1. /\ Listed' = Listed \cup {d} /\ d \notin Live /\ d # NIL /\ Named(n) = {}
        /\ Listed \subseteq Live
        /\ n \in Manifest \cup Dylib
    BY LoaderAssumption, UseFacts, UseFactsNext DEF Attach, Finds
  <1>2. Uses[n] = 0 /\ Uses'[n] = 1
    BY <1>1, UseFacts, UseFactsNext DEF Named
  <1>3. Uses' = [Uses EXCEPT ![n] = 1]
    BY <1>1, <1>2, UsesAt
  <1> QED
    BY <1>1, <1>2, <1>3

LEMMA LoadAgainIsLoad ==
    ASSUME LoaderInv, NEW n \in Name, NEW v \in Var, NEW w \in Way, NEW d \in Desc,
           LoadAgain(n, v, w, d)
    PROVE  Use!Load(n)
  <1> DEFINE g == Link(Allocate(n, d), d)
  <1>1. LoaderInv' /\ d \in Desc \ Live /\ n \in Manifest \cup Dylib /\ Named(n) = {}
    BY LoadAgainKeeps DEF LoadAgain, Attach, Finds
  <1>2. /\ DOMAIN g = Live \cup {d} /\ g[d].name = n /\ g[d].refcnt = 1
        /\ \A x \in Live : g[x].name = desc[x].name /\ g[x].refcnt = desc[x].refcnt
        /\ Good(g, d, DOMAIN handles \cup {d}) /\ Counted(g, d, var)
    BY <1>1, LinkFacts
  <1> HIDE DEF g
  <1>3. /\ Heap(g) /\ var \in [Var -> DOMAIN g \cup {NIL}]
        /\ desc' = Assign(g, var[v], d) /\ var' = [var EXCEPT ![v] = d]
    BY <1>2, UseFacts DEF Good, LoadAgain, Return, g
  <1>4. SameBut(desc', g)
    BY <1>2, <1>3, Assigned
  <1>5. /\ desc'[d].name = n /\ desc'[d].refcnt = 1
        /\ \A x \in Live : desc'[x].name = desc[x].name /\ desc'[x].refcnt = desc[x].refcnt
    BY <1>2, <1>4 DEF SameBut
  <1>6. /\ Uses' = [Uses EXCEPT ![n] = Uses[n] + 1]
        /\ Listed' = Listed \cup {d} /\ d \notin Live /\ d # NIL
    BY <1>1, <1>5, AttachUses DEF LoadAgain
  <1>7. Handles' = [Handles EXCEPT ![v] = [name |-> n, fresh |-> TRUE]]
    <2>1. d # NIL /\ d \in Listed' /\ desc'[d].name = n
      BY <1>1, <1>3, <1>5, <1>6
    <2>2. d # NIL /\ d \in Listed' => Handles'[v] = [name |-> desc'[d].name, fresh |-> TRUE]
      BY <1>1, <1>3, <1>5, <1>6, HandlesAt
    <2>3. Handles' = [Handles EXCEPT ![v] = Handles'[v]]
      BY <1>1, <1>3, <1>5, <1>6, HandlesAt
    <2> QED
      BY <2>1, <2>2, <2>3
  <1> QED
    BY <1>1, <1>6, <1>7 DEF Use!Load, LoadAgain, Attach

LEMMA LoadStartsIsLoad ==
    ASSUME LoaderInv, NEW n \in Name, NEW v \in Var, NEW w \in Way, NEW d \in Desc,
           LoadStarts(n, v, w, d)
    PROVE  Use!Load(n)
  <1>1. /\ LoaderInv' /\ d \in Desc \ Live /\ n \in Manifest \cup Dylib /\ Named(n) = {}
        /\ desc' = Link(Allocate(n, d), d)
    BY LoadStartsKeeps DEF LoadStarts, Attach, Finds
  <1>2. /\ desc'[d].name = n /\ desc'[d].refcnt = 1
        /\ \A x \in Live : desc'[x].name = desc[x].name /\ desc'[x].refcnt = desc[x].refcnt
    BY <1>1, LinkFacts
  <1>3. /\ Uses' = [Uses EXCEPT ![n] = Uses[n] + 1]
        /\ Listed' = Listed \cup {d} /\ d \notin Live /\ d # NIL
    BY <1>1, <1>2, AttachUses DEF LoadStarts
  <1>4. Handles' = Handles
    BY <1>1, <1>2, <1>3, HandlesSame DEF LoadStarts
  <1> QED
    BY <1>1, <1>3, <1>4 DEF Use!Load, LoadStarts, Attach

LEMMA HandleNotNil ==
    ASSUME NEW k \in Name, NEW b \in BOOLEAN
    PROVE  [name |-> k, fresh |-> b] # NIL
  <1>1. [name |-> k, fresh |-> b] \in [name : Name, fresh : BOOLEAN]
    OBVIOUS
  <1> QED
    BY <1>1, LoaderAssumption

\* A handle of that name is made stale, another is not.
LEMMA StaleHandle ==
    ASSUME NEW k \in Name, NEW n \in Name, NEW b \in BOOLEAN
    PROVE  Use!Stale(n, [name |-> k, fresh |-> b])
             = [name |-> k, fresh |-> IF k = n THEN FALSE ELSE b]
  <1> DEFINE h == [name |-> k, fresh |-> b]
  <1>1. h # NIL /\ h.name = k
    BY HandleNotNil
  <1>2. [h EXCEPT !.fresh = FALSE] = [name |-> k, fresh |-> FALSE]
    <2>1. h \in [name : Name, fresh : BOOLEAN] /\ h.name = k
      OBVIOUS
    <2> HIDE DEF h
    <2> DEFINE g == [h EXCEPT !.fresh = FALSE]
    <2>2. g \in [name : Name, fresh : BOOLEAN] /\ g.name = k /\ g.fresh = FALSE
      BY <2>1
    <2> HIDE DEF g
    <2>3. g = [name |-> k, fresh |-> FALSE]
      BY <2>2
    <2> QED
      BY <2>3 DEF g
  <1> QED
    BY <1>1, <1>2 DEF Use!Stale

\* A variable that gets a descriptor, or NIL, is a Point.
LEMMA ReturnIsPoint ==
    ASSUME LoaderInv, LoaderInv', NEW v \in Var, NEW d \in Live \cup {NIL}, Return(desc, v, d),
           UNCHANGED <<root, handles, answer>>
    PROVE  Use!Point(v)
  <1>1. /\ Heap(desc) /\ Counted(desc, root, var) /\ var \in [Var -> DOMAIN desc \cup {NIL}]
        /\ Listed' = Listed /\ Listed \subseteq Live
    BY Parts, UseFacts, UseFactsNext DEF Good, Rest, Live
  <1>2. SameBut(desc', desc) /\ var' = [var EXCEPT ![v] = d]
    BY <1>1, Assigned DEF Return, Live
  <1>3. \A x \in Live : desc'[x].name = desc[x].name /\ desc'[x].refcnt = desc[x].refcnt
    BY <1>2 DEF SameBut, Live
  <1>4. Uses' = Uses
    BY <1>1, <1>3, UsesSame
  <1>5. /\ Handles' = [Handles EXCEPT ![v] = Handles'[v]]
        /\ d = NIL => Handles'[v] = NIL
        /\ d # NIL => Handles'[v] = [name |-> desc'[d].name, fresh |-> d \in Listed']
    BY <1>1, <1>2, <1>3, HandlesAt
  <1>6. Handles'[v] \in Use!Available(Uses) \cup {NIL}
    <2>1. CASE d = NIL
      BY <2>1, <1>5
    <2>2. CASE d # NIL
      <3> DEFINE n == desc[d].name
                 b == d \in Listed
      <3>1. d \in Live /\ n \in Manifest \cup Dylib
        BY <2>2, UseFacts
      <3>2. n \in Name /\ b \in BOOLEAN
        BY <3>1, LoaderAssumption
      <3>3. b => Uses[n] > 0
        BY UseFacts
      <3>4. (d \in Listed') = b /\ desc'[d].name = n
        BY <1>1, <1>3, <3>1
      <3>5. Handles'[v] = [name |-> n, fresh |-> b]
        BY <2>2, <3>4, <1>5
      <3> HIDE DEF n, b
      <3> QED
        BY <3>2, <3>3, <3>5 DEF Use!Available, Use!Handle
    <2> QED
      BY <2>1, <2>2
  <1> QED
    BY <1>4, <1>5, <1>6 DEF Use!Point

LEMMA FreeIsFree ==
    ASSUME LoaderInv, NEW n \in Name, Free(n)
    PROVE  Use!Free(n)
  <1> DEFINE m == First(n)
  <1>1. /\ LoaderInv' /\ m \in Listed /\ m \in Live /\ desc[m].name = n /\ m # NIL
        /\ Listed \subseteq Live /\ desc[m].refcnt \in Nat \ {0} /\ Uses[n] = desc[m].refcnt
    BY FirstNamed, FreeKeeps, UseFacts DEF Free
  <1>2. CASE desc[m].refcnt - 1 <= 0
    <2>1. Unlink(m) /\ var' = var /\ answer' = answer
      BY <1>2 DEF Free
    <2> HIDE DEF m
    <2>2. /\ DOMAIN desc' = Live
          /\ \A x \in Live : desc'[x].name = desc[x].name
          /\ \A x \in Live \ {m} : desc'[x].refcnt = desc[x].refcnt
      BY <1>1, <2>1, UnlinkFacts
    <2>3. Listed' = Listed \ {m}
      BY <1>1, <2>1, UseFacts, UseFactsNext DEF Unlink
    <2>4. Uses[n] = 1 /\ Uses'[n] = 0
      <3>1. \A x \in Listed' : desc'[x].name # n
        BY <1>1, <2>2, <2>3, UseFacts
      <3> QED
        BY <3>1, <1>1, <1>2, UseFactsNext
    <2>5. Uses' = [Uses EXCEPT ![n] = Uses[n] - 1]
      <3>1. Uses' = [Uses EXCEPT ![n] = 0]
        BY <1>1, <2>2, <2>3, <2>4, UsesAt
      <3> QED
        BY <3>1, <2>4
    <2>6. ASSUME NEW x \in Var PROVE Handles'[x] = Use!Stale(n, Handles[x])
      <3> DEFINE d == var[x]
      <3>1. /\ d \in Live \cup {NIL} /\ Handles[x] = HandleOn(d) /\ Handles'[x] = HandleOn(var[x])'
            /\ var'[x] = d
        BY <1>1, <2>1, UseFacts, UseFactsNext
      <3>2. CASE d = NIL
        BY <3>1, <3>2 DEF HandleOn, Use!Stale
      <3>3. CASE d # NIL
        <4> DEFINE k == desc[d].name
                   b == d \in Listed
        <4>1. d \in Live /\ k \in Name /\ b \in BOOLEAN /\ desc'[d].name = k
          BY <3>1, <3>3, <2>2, UseFacts, LoaderAssumption
        <4>2. Handles[x] = [name |-> k, fresh |-> b]
          BY <3>1, <3>3 DEF HandleOn
        <4>3. Handles'[x] = [name |-> k, fresh |-> d \in Listed']
          BY <3>1, <3>3, <4>1 DEF HandleOn
        <4>4. (d \in Listed') = IF k = n THEN FALSE ELSE b
          <5>1. d \in Listed' <=> d \in Listed /\ d # m
            BY <2>3
          <5>2. d \in Listed => (k = n <=> d = m)
            BY <1>1, UseFacts
          <5>3. CASE k = n
            <6>1. ~(d \in Listed')
              BY <5>1, <5>2, <5>3
            <6>2. (d \in Listed') = FALSE
              BY <6>1
            <6>3. (IF k = n THEN FALSE ELSE b) = FALSE
              BY <5>3
            <6> HIDE DEF d, b, k
            <6> QED
              BY <6>2, <6>3
          <5>4. CASE k # n
            BY <5>1, <5>4, <1>1
          <5> QED
            BY <5>3, <5>4
        <4> HIDE DEF k, b
        <4>5. Handles'[x] = [name |-> k, fresh |-> IF k = n THEN FALSE ELSE b]
          BY <4>3, <4>4
        <4>6. Use!Stale(n, [name |-> k, fresh |-> b])
                = [name |-> k, fresh |-> IF k = n THEN FALSE ELSE b]
          BY <4>1, StaleHandle
        <4> QED
          BY <4>2, <4>5, <4>6
      <3> QED
        BY <3>2, <3>3
    <2>7. Handles' = [x \in Var |-> Use!Stale(n, Handles[x])]
      BY <1>1, <2>6, UseFactsNext
    <2> QED
      BY <2>1, <2>4, <2>5, <2>7 DEF Use!Free
  <1>3. CASE ~(desc[m].refcnt - 1 <= 0)
    <2>1. desc' = [desc EXCEPT ![m].refcnt = @ - 1] /\ UNCHANGED <<root, handles, var, answer>>
      BY <1>3 DEF Free
    <2> HIDE DEF m
    <2>2. desc[m].refcnt > 1 /\ desc \in [Live -> ModDesc]
      BY <1>1, <1>3 DEF LoaderInv, TypeOK
    <2>3. \A x \in Live : /\ desc'[x].name = desc[x].name
                          /\ desc'[x].refcnt = IF x = m THEN desc[m].refcnt - 1 ELSE desc[x].refcnt
      BY <2>1, <2>2, <1>1 DEF ModDesc
    <2>4. Listed' = Listed
      BY <1>1, <2>1, UseFacts, UseFactsNext
    <2>5. Uses'[n] = Uses[n] - 1
      BY <1>1, <2>3, <2>4, UseFactsNext
    <2>6. Uses' = [Uses EXCEPT ![n] = Uses[n] - 1]
      BY <1>1, <2>3, <2>4, <2>5, UsesAt
    <2>7. Handles' = Handles
      BY <1>1, <2>1, <2>3, <2>4, HandlesSame
    <2> QED
      BY <1>1, <2>1, <2>2, <2>6, <2>7 DEF Use!Free
  <1> QED
    BY <1>2, <1>3

LEMMA ThisCommandIsThisCommand ==
    ASSUME LoaderInv, NEW v \in Var, ThisCommand(v)
    PROVE  Use!ThisCommand(v)
  <1>1. LoaderInv' /\ UNCHANGED <<desc, root, handles, var>>
    BY ThisCommandKeeps DEF ThisCommand
  <1>2. UNCHANGED <<Uses, Handles>>
    BY <1>1 DEF Uses, Handles, Named, First, Listed, HandleOn
  <1>3. answer' = IF Handles[v] # NIL /\ Handles[v].fresh THEN Handles[v].name ELSE NIL
    <2> DEFINE d == var[v]
    <2>1. d \in Live \cup {NIL} /\ Handles[v] = HandleOn(d) /\ DOMAIN handles = Listed
      BY UseFacts
    <2>2. answer' = IF d \in Listed THEN desc[d].name ELSE NIL
      BY <2>1 DEF ThisCommand
    <2>3. CASE d = NIL
      BY <2>1, <2>2, <2>3, UseFacts DEF HandleOn
    <2>4. CASE d # NIL
      <3> DEFINE k == desc[d].name
                 b == d \in Listed
      <3>1. k \in Name /\ b \in BOOLEAN
        BY <2>1, <2>4, UseFacts, LoaderAssumption
      <3>2. Handles[v] = [name |-> k, fresh |-> b] /\ answer' = IF b THEN k ELSE NIL
        BY <2>1, <2>2, <2>4 DEF HandleOn
      <3> HIDE DEF k, b
      <3> QED
        BY <3>1, <3>2, HandleNotNil
    <2> QED
      BY <2>3, <2>4
  <1> QED
    BY <1>2, <1>3 DEF Use!ThisCommand

\* A module answers through a variable from the Load that put it on the list
\* to the Free that takes it off, whatever the bodies of modules do meanwhile.
THEOREM LoaderImplementsUse == Spec => KeepsUse
  <1>1. Init => Use!Init
    <2> SUFFICES ASSUME Init PROVE Use!Init
      OBVIOUS
    <2>1. LoaderInv /\ root = NIL /\ answer = NIL /\ \A v \in Var : var[v] = NIL
      BY InitLoader DEF Init
    <2>2. Uses = [n \in Name |-> 0]
      BY <2>1 DEF Uses, Named, Listed
    <2>3. Handles = [v \in Var |-> NIL]
      BY <2>1 DEF Handles, HandleOn
    <2> QED
      BY <2>1, <2>2, <2>3 DEF Use!Init
  <1>2. LoaderInv /\ LoaderInv' /\ [Next]_vars => [Use!Next]_(Use!uvars)
    <2> SUFFICES ASSUME LoaderInv, LoaderInv', [Next]_vars PROVE [Use!Next]_(Use!uvars)
      OBVIOUS
    <2>1. ASSUME NEW n \in Name, NEW v \in Var, Load(n, v) PROVE Use!Next
      <3>1. CASE LoadFails(n, v)
        BY <3>1, ReturnIsPoint DEF LoadFails, Use!Next
      <3>2. CASE ~LoadFails(n, v)
        BY <2>1, <3>2, LoadListedIsLoad, LoadAgainIsLoad, LoadStartsIsLoad DEF Load, Use!Next
      <3> QED
        BY <3>1, <3>2
    <2>2. CASE LoadReturns
      <3> DEFINE top == loading[Len(loading)]
      <3>1. top \in [var : Var, result : Live]
        BY <2>2, SeqFront DEF LoadReturns, LoaderInv, TypeOK
      <3>2. Use!Point(top.var)
        BY <2>2, <3>1, ReturnIsPoint DEF LoadReturns
      <3> QED
        BY <3>1, <3>2 DEF Use!Next
    <2>3. ASSUME NEW n \in Name, Free(n) PROVE Use!Next
      BY <2>3, FreeIsFree DEF Use!Next
    <2>4. ASSUME NEW v \in Var, ThisCommand(v) PROVE Use!Next
      BY <2>4, ThisCommandIsThisCommand DEF Use!Next
    <2>5. ASSUME NEW v \in Var, NEW d \in Desc \cup {NIL}, Point(v, d) PROVE Use!Next
      <3>1. d \in Live \cup {NIL}
        <4>1. /\ root \in Live \cup {NIL} /\ var \in [Var -> Live \cup {NIL}]
              /\ \A x \in Live : desc[x].next \in Live \cup {NIL}
          BY DEF LoaderInv, TypeOK
        <4> QED
          BY <2>5, <4>1 DEF Point
      <3>2. Use!Point(v)
        BY <2>5, <3>1, ReturnIsPoint DEF Point
      <3> QED
        BY <3>2 DEF Use!Next
    <2>6. CASE UNCHANGED vars \/ \E n \in Name : Import(n)
      <3>1. UNCHANGED <<desc, root, handles, var, answer>>
        BY <2>6 DEF vars, Import
      <3> QED
        BY <3>1 DEF Use!uvars, Uses, Handles, Named, First, Listed, HandleOn
    <2> QED
      BY <2>1, <2>2, <2>3, <2>4, <2>5, <2>6 DEF Next
  <1> QED
    BY <1>1, <1>2, LoaderInductive, PTL DEF Spec, KeepsUse, Use!Spec
=============================================================================
