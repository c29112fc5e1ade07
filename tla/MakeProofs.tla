----------------------------- MODULE MakeProofs -----------------------------
(* What the driver links: for any import graph without a cycle, any edits,   *)
(* refusals and kills, objects made from the present texts, imports before   *)
(* importers, and the whole closure.                                         *)
EXTENDS Make, SequenceTheorems, FiniteSetTheorems, TLAPS

(* Imports make no cycle: the compiler has no way to compile one. *)
Acyclic == \A S \in SUBSET Module :
              S # {} => \E m \in S : Range(Imports[m]) \cap S = {}

(* The lists of runtime modules are not found from elsewhere: what they      *)
(* import has to be in the scope of whoever uses them. *)
RuntimeInScope == \A m \in Module \ Runtime : \A r \in Scope(m) \cap Runtime :
                     Range(Imports[r]) \subseteq Scope(m)

Phases == {"idle", "ensure", "import", "export", "key", "close", "emit", "link"}

TypeOK ==
    /\ text \in [Module -> [version : Nat, iface : Nat, ok : BOOLEAN, time : Nat]]
    /\ smb = [m \in Module |-> [content |-> smb[m].content, key |-> smb[m].key,
                                time |-> smb[m].time]]
    /\ obj = [m \in Module |-> [version |-> obj[m].version, content |-> obj[m].content,
                                seen |-> obj[m].seen, time |-> obj[m].time]]
    /\ deps \subseteq Module /\ missed \subseteq Module /\ clock \in Nat \ {0}
    /\ \A m \in Module : smb[m].time \in Nat /\ obj[m].time \in Nat
    /\ oc = [phase |-> oc.phase, entry |-> oc.entry, force |-> oc.force, link |-> oc.link,
             stack |-> oc.stack, visited |-> oc.visited, done |-> oc.done,
             failed |-> oc.failed, old |-> oc.old, queue |-> oc.queue, modules |-> oc.modules]
    /\ oc.phase \in Phases /\ oc.entry \in Module \cup {NONE}
    /\ oc.link \in BOOLEAN
    /\ oc.stack \in Seq([unit : Module, next : Nat \ {0}])
    /\ oc.visited \subseteq Module /\ oc.queue \subseteq Module

(* An object was made from the present text, or is older, or is missed.       *)
FilesInv ==
    \A m \in Module :
        /\ text[m].time <= clock /\ obj[m].time <= clock
        /\ DOMAIN obj[m].seen \subseteq Range(Imports[m])
        /\ Exists(obj[m]) => /\ \/ obj[m].version = text[m].version
                                \/ obj[m].time < text[m].time
                                \/ m \in missed
                             /\ m \in deps

(* The run has done with m: it has an object to link, which is that of its   *)
(* text unless it is missed, or its object could not be opened. *)
Made(m) ==
    /\ m \in deps
    /\ \/ m \in oc.failed
       \/ Exists(obj[m]) /\ (obj[m].version = text[m].version \/ m \in missed)

(* Each call was made by the one before, for an import of its module; what a *)
(* call has looked at was visited. *)
CallsInv ==
    /\ Len(oc.stack) > 0 /\ oc.stack[1].unit = oc.entry /\ oc.entry \notin oc.visited
    /\ \A k \in 2 .. Len(oc.stack) :
          /\ oc.stack[k].unit \in oc.visited
          /\ oc.stack[k].unit \in Range(Imports[oc.stack[k - 1].unit])
    /\ \A j, k \in 1 .. Len(oc.stack) : oc.stack[j].unit = oc.stack[k].unit => j = k
    /\ \A k \in 1 .. Len(oc.stack) :
          \A n \in 1 .. Len(Imports[oc.stack[k].unit]) :
              n < oc.stack[k].next => Imports[oc.stack[k].unit][n] \in oc.visited
    /\ oc.phase # "ensure" /\ oc.link =>
          oc.stack[Len(oc.stack)].next > Len(Imports[Unit])
    /\ ~oc.link => Len(oc.stack) = 1 /\ oc.phase # "link" /\ oc.phase # "ensure"
    /\ oc.phase = "link" => Len(oc.stack) = 1

OnStack  == { oc.stack[k].unit : k \in 1 .. Len(oc.stack) }
Finished == oc.visited \ OnStack

(* A module that is finished is made, and so is all it imports.  *)
FinishedInv == \A m \in Finished : Made(m) /\ Range(Imports[m]) \subseteq Finished

Ready == Finished \cup IF oc.phase = "link" THEN {oc.entry} ELSE {}

(* What was compiled in this run saw the interfaces there are. *)
DoneInv == /\ oc.done \subseteq Ready
           /\ \A m \in oc.done : \A i \in DOMAIN obj[m].seen :
                 i \in Finished /\ obj[m].seen[i] = smb[i].content

(* What has been followed has its lines in the queue; everything else in it  *)
(* is such a line, and ready. *)
LinkInv ==
    oc.phase = "link" =>
        /\ Made(oc.entry) /\ Range(Imports[oc.entry]) \subseteq Finished
        /\ oc.entry \in oc.queue /\ oc.modules \subseteq oc.queue
        /\ oc.queue \subseteq Ready
        /\ \A m \in oc.queue : m # oc.entry => \E k \in oc.modules : m \in Listed(k)

RunInv == oc.phase # "idle" => /\ oc.entry \in Module /\ CallsInv
                               /\ FinishedInv /\ DoneInv /\ LinkInv
                               /\ oc.phase = "emit" => Unit \in deps

DriverInv == TypeOK /\ FilesInv /\ RunInv

(* No line was dropped, when the queue has room for every module. *)
Followed == oc.phase = "link" => \A m \in oc.modules : Listed(m) \subseteq oc.queue

-----------------------------------------------------------------------------
(* Types. *)

LEMMA UnitType ==
    ASSUME TypeOK, oc.stack # << >>
    PROVE  /\ Len(oc.stack) \in Nat \ {0} /\ Unit \in Module
           /\ \A k \in 1 .. Len(oc.stack) :
                 oc.stack[k].unit \in Module /\ oc.stack[k].next \in Nat \ {0}
  <1>1. oc.stack \in Seq([unit : Module, next : Nat \ {0}])
    BY DEF TypeOK
  <1>2. \A k \in 1 .. Len(oc.stack) : oc.stack[k] \in [unit : Module, next : Nat \ {0}]
    BY <1>1, ElementOfSeq
  <1>3. Len(oc.stack) \in Nat \ {0}
    BY <1>1, EmptySeq
  <1> QED
    BY <1>2, <1>3 DEF Unit

LEMMA ImportsType ==
    ASSUME NEW m \in Module
    PROVE  /\ Imports[m] \in Seq(Module) /\ Len(Imports[m]) \in Nat
           /\ \A n \in 1 .. Len(Imports[m]) : Imports[m][n] \in Module
           /\ Range(Imports[m]) = {Imports[m][n] : n \in 1 .. Len(Imports[m])}
           /\ Range(Imports[m]) \subseteq Module
           /\ Scope(m) \subseteq Module
  <1>1. Imports[m] \in Seq(Module)
    BY MakeAssumption
  <1>2. /\ Len(Imports[m]) \in Nat /\ DOMAIN Imports[m] = 1 .. Len(Imports[m])
        /\ \A n \in 1 .. Len(Imports[m]) : Imports[m][n] \in Module
    BY <1>1, LenProperties, ElementOfSeq
  <1>3. Range(Imports[m]) = {Imports[m][n] : n \in 1 .. Len(Imports[m])}
    BY <1>2 DEF Range
  <1>4. \A k \in Module : Range(Imports[k]) \subseteq Module
    <2> SUFFICES ASSUME NEW k \in Module PROVE Range(Imports[k]) \subseteq Module
      OBVIOUS
    <2>1. Imports[k] \in Seq(Module)
      BY MakeAssumption
    <2> QED
      BY <2>1, LenProperties, ElementOfSeq DEF Range
  <1>5. \A k \in Module : Exposes[k] \subseteq Module
    BY <1>4, MakeAssumption
  <1> QED
    BY <1>1, <1>2, <1>3, <1>4, <1>5 DEF Scope

LEMMA ReturnType ==
    ASSUME NEW S, NEW calls \in Seq(S), Len(calls) > 1
    PROVE  /\ Return(calls) \in Seq(S) /\ Len(Return(calls)) = Len(calls) - 1
           /\ \A k \in 1 .. Len(calls) - 1 : Return(calls)[k] = calls[k]
  BY SubSeqProperties, LenProperties DEF Return

LEMMA EnterType ==
    ASSUME NEW S, NEW calls \in Seq(S), NEW m, Call(m) \in S
    PROVE  /\ Enter(calls, m) \in Seq(S) /\ Len(Enter(calls, m)) = Len(calls) + 1
           /\ Enter(calls, m)[Len(calls) + 1] = Call(m)
           /\ \A k \in 1 .. Len(calls) : Enter(calls, m)[k] = calls[k]
  BY AppendProperties DEF Enter

(* The innermost call goes on to its next import. *)
LEMMA PastType ==
    ASSUME TypeOK, oc.stack # << >>,
           NEW past, past = [oc.stack EXCEPT ![Len(oc.stack)].next = @ + 1]
    PROVE  /\ past \in Seq([unit : Module, next : Nat \ {0}])
           /\ Len(past) = Len(oc.stack)
           /\ \A k \in 1 .. Len(past) :
                 /\ past[k].unit = oc.stack[k].unit
                 /\ past[k].next = IF k = Len(past) THEN oc.stack[k].next + 1
                                   ELSE oc.stack[k].next
  <1>1. /\ oc.stack \in Seq([unit : Module, next : Nat \ {0}])
        /\ Len(oc.stack) \in Nat \ {0} /\ Len(oc.stack) \in 1 .. Len(oc.stack)
    BY UnitType DEF TypeOK
  <1>2. PICK top : top = oc.stack[Len(oc.stack)]
    OBVIOUS
  <1>3. top \in [unit : Module, next : Nat \ {0}]
    BY <1>1, <1>2, ElementOfSeq
  <1>4. PICK new : new = [top EXCEPT !.next = @ + 1]
    OBVIOUS
  <1>5. new \in [unit : Module, next : Nat \ {0}] /\ new.unit = top.unit /\ new.next = top.next + 1
    BY <1>3, <1>4
  <1>6. past = [oc.stack EXCEPT ![Len(oc.stack)] = new]
    BY <1>2, <1>4
  <1>7. past \in Seq([unit : Module, next : Nat \ {0}]) /\ Len(past) = Len(oc.stack)
    BY <1>1, <1>5, <1>6, ExceptSeq
  <1>8. \A k \in 1 .. Len(past) : past[k] = IF k = Len(past) THEN new ELSE oc.stack[k]
    BY <1>1, <1>5, <1>6, <1>7, ExceptSeq
  <1> QED
    BY <1>2, <1>5, <1>7, <1>8

LEMMA OneOrMore == \A n \in Nat \ {0} : (n = 1 <=> ~(n > 1)) /\ n >= 1
  OBVIOUS

LEMMA IdleType == Idle.phase = "idle" /\ Idle.stack = << >>
  BY DEF Idle

LEMMA TypeInit == Init => TypeOK
  <1> SUFFICES ASSUME Init PROVE TypeOK
    OBVIOUS
  <1>1. << >> \in Seq([unit : Module, next : Nat \ {0}])
    BY EmptySeq
  <1> QED
    BY <1>1 DEF Init, TypeOK, Idle, Phases, NoSymbols, NoObject
(* What each step of the driver does to it. *)
LEMMA VisitFacts ==
    ASSUME TypeOK, Visit, oc.stack # << >>
    PROVE  /\ oc.phase = "ensure" /\ UNCHANGED <<text, smb, deps, obj, clock, missed>>
           /\ \/ oc' = Idle
              \/ /\ oc'.entry = oc.entry /\ oc'.link = oc.link /\ oc'.phase = oc.phase
                 /\ oc'.done = oc.done /\ oc'.failed = oc.failed
                 /\ oc.stack[Len(oc.stack)].next <= Len(Imports[Unit])
                 /\ \E m \in Module, past \in Seq([unit : Module, next : Nat \ {0}]) :
                       /\ m = Imports[Unit][oc.stack[Len(oc.stack)].next]
                       /\ past = [oc.stack EXCEPT ![Len(oc.stack)].next = @ + 1]
                       /\ \/ /\ m \in oc.visited /\ oc'.stack = past
                             /\ oc'.visited = oc.visited
                          \/ /\ m \notin oc.visited /\ oc'.stack = Enter(past, m)
                             /\ oc'.visited = oc.visited \cup {m}
           /\ TypeOK'
  <1>1. PICK past : past = [oc.stack EXCEPT ![Len(oc.stack)].next = @ + 1]
    OBVIOUS
  <1>2. PICK m : m = Imports[Unit][oc.stack[Len(oc.stack)].next]
    OBVIOUS
  <1>3. /\ oc.phase = "ensure" /\ UNCHANGED <<text, smb, deps, obj, clock, missed>>
        /\ oc.stack[Len(oc.stack)].next <= Len(Imports[Unit])
        /\ \/ oc' = Idle
           \/ m \in oc.visited /\ oc' = [oc EXCEPT !.stack = past]
           \/ /\ m \notin oc.visited
              /\ oc' = [oc EXCEPT !.stack = Enter(past, m), !.visited = @ \cup {m}]
    BY <1>1, <1>2 DEF Visit, scan_imports, Fail, Unit
  <1>4. /\ past \in Seq([unit : Module, next : Nat \ {0}])
        /\ m \in Module
    <2>1. /\ Unit \in Module /\ oc.stack[Len(oc.stack)].next \in Nat \ {0}
          /\ Len(oc.stack) \in 1 .. Len(oc.stack)
      BY UnitType
    <2>2. oc.stack[Len(oc.stack)].next \in 1 .. Len(Imports[Unit])
      BY <1>3, <2>1, ImportsType
    <2> QED
      BY <1>1, <1>2, <2>1, <2>2, PastType, ImportsType
  <1>5. Enter(past, m) \in Seq([unit : Module, next : Nat \ {0}])
    <2>1. Call(m) \in [unit : Module, next : Nat \ {0}]
      BY <1>4 DEF Call
    <2> QED
      BY <1>4, <2>1, EnterType
  <1>6. CASE oc' = Idle
    <2>1. << >> \in Seq([unit : Module, next : Nat \ {0}])
      BY EmptySeq
    <2>2. TypeOK'
      BY <1>3, <1>6, <2>1 DEF TypeOK, Idle, Phases
    <2> QED
      BY <1>3, <1>6, <2>2
  <1>7. CASE m \in oc.visited /\ oc' = [oc EXCEPT !.stack = past]
    <2>1. /\ oc'.entry = oc.entry /\ oc'.link = oc.link /\ oc'.phase = oc.phase
          /\ oc'.done = oc.done /\ oc'.failed = oc.failed /\ oc'.stack = past /\ oc'.visited = oc.visited
      BY <1>7 DEF TypeOK
    <2>2. TypeOK'
      BY <1>3, <1>4, <1>7 DEF TypeOK
    <2> QED
      BY <1>1, <1>2, <1>3, <1>4, <1>7, <2>1, <2>2
  <1>8. CASE /\ m \notin oc.visited
             /\ oc' = [oc EXCEPT !.stack = Enter(past, m), !.visited = @ \cup {m}]
    <2>1. /\ oc'.entry = oc.entry /\ oc'.link = oc.link /\ oc'.phase = oc.phase
          /\ oc'.done = oc.done /\ oc'.failed = oc.failed /\ oc'.stack = Enter(past, m)
          /\ oc'.visited = oc.visited \cup {m}
      BY <1>8 DEF TypeOK
    <2>2. TypeOK'
      BY <1>3, <1>4, <1>5, <1>8 DEF TypeOK
    <2> QED
      BY <1>1, <1>2, <1>3, <1>4, <1>8, <2>1, <2>2
  <1> QED
    BY <1>3, <1>6, <1>7, <1>8

LEMMA EnsureFacts ==
    ASSUME TypeOK, Ensure, oc.stack # << >>
    PROVE  /\ oc.phase = "ensure" /\ UNCHANGED <<text, smb, deps, obj, clock, missed>>
           /\ oc.stack[Len(oc.stack)].next > Len(Imports[Unit])
           /\ oc'.entry = oc.entry /\ oc'.link = oc.link
           /\ oc'.done = oc.done /\ oc'.failed = oc.failed /\ oc'.visited = oc.visited
           /\ \/ oc'.phase = "import" /\ oc'.stack = oc.stack
              \/ /\ oc'.phase = "ensure" /\ oc'.stack = Return(oc.stack)
                 /\ Len(oc.stack) # 1 /\ ~needs_compile(Unit)
           /\ TypeOK'
  <1>1. /\ oc.phase = "ensure" /\ UNCHANGED <<text, smb, deps, obj, clock, missed>>
        /\ oc.stack[Len(oc.stack)].next > Len(Imports[Unit])
        /\ \/ oc' = [oc EXCEPT !.phase = "import"]
           \/ /\ Len(oc.stack) # 1 /\ ~needs_compile(Unit)
              /\ oc' = [oc EXCEPT !.stack = Return(@)]
    BY DEF Ensure, scan_imports
  <1>2. CASE oc' = [oc EXCEPT !.phase = "import"]
    <2>1. TypeOK'
      BY <1>1, <1>2 DEF TypeOK, Phases
    <2> QED
      BY <1>1, <1>2, <2>1 DEF TypeOK
  <1>3. CASE /\ Len(oc.stack) # 1 /\ ~needs_compile(Unit)
             /\ oc' = [oc EXCEPT !.stack = Return(@)]
    <2>0. Len(oc.stack) > 1
      <3>1. Len(oc.stack) \in Nat \ {0}
        BY UnitType
      <3>2. Len(oc.stack) # 1
        BY <1>3
      <3> QED
        BY <3>1, <3>2, OneOrMore
    <2>1. Len(oc.stack) > 1 /\ oc.stack \in Seq([unit : Module, next : Nat \ {0}])
      BY <2>0 DEF TypeOK
    <2>2. Return(oc.stack) \in Seq([unit : Module, next : Nat \ {0}])
      BY <2>1, ReturnType
    <2>3. TypeOK'
      BY <1>1, <1>3, <2>2 DEF TypeOK
    <2> QED
      BY <1>1, <1>3, <2>3 DEF TypeOK
  <1> QED
    BY <1>1, <1>2, <1>3

LEMMA IdleFacts ==
    ASSUME TypeOK, oc' = Idle, UNCHANGED <<text, smb, deps, obj, clock, missed>>
    PROVE  TypeOK' /\ oc'.phase = "idle"
  <1>1. << >> \in Seq([unit : Module, next : Nat \ {0}])
    BY EmptySeq
  <1> QED
    BY <1>1 DEF TypeOK, Idle, Phases
LEMMA ImportFacts ==
    ASSUME TypeOK, Import, oc.stack # << >>
    PROVE  /\ oc.phase = "import" /\ UNCHANGED <<text, smb, deps, obj, clock, missed>>
           /\ \/ oc' = Idle
              \/ /\ oc'.phase = "export" /\ oc'.stack = oc.stack /\ oc'.entry = oc.entry
                 /\ oc'.link = oc.link /\ oc'.done = oc.done /\ oc'.failed = oc.failed /\ oc'.visited = oc.visited
           /\ TypeOK'
  <1>1. PICK old : oc' = Idle \/ oc' = [oc EXCEPT !.phase = "export", !.old = old]
    BY DEF Import, Fail
  <1>2. oc.phase = "import" /\ UNCHANGED <<text, smb, deps, obj, clock, missed>>
    BY DEF Import
  <1>3. CASE oc' = Idle
    BY <1>2, <1>3, IdleFacts
  <1>4. CASE oc' = [oc EXCEPT !.phase = "export", !.old = old]
    BY <1>2, <1>4 DEF TypeOK, Phases
  <1> QED
    BY <1>1, <1>2, <1>3, <1>4

LEMMA ExportFacts ==
    ASSUME TypeOK, Export, oc.stack # << >>
    PROVE  /\ oc.phase = "export" /\ UNCHANGED <<text, deps, obj, clock, missed>>
           /\ oc'.phase = "key" /\ oc'.stack = oc.stack /\ oc'.entry = oc.entry
           /\ oc'.link = oc.link /\ oc'.done = oc.done /\ oc'.failed = oc.failed /\ oc'.visited = oc.visited
           /\ \A m \in Module : m # Unit => smb'[m] = smb[m]
           /\ smb'[Unit].key = NONE
           /\ TypeOK'
  <1>1. PICK file : file = [content |-> Content(Unit), key |-> NONE, time |-> clock]
    OBVIOUS
  <1>2. /\ oc.phase = "export" /\ UNCHANGED <<text, deps, obj, clock, missed>>
        /\ smb' = [smb EXCEPT ![Unit] = file] /\ oc' = [oc EXCEPT !.phase = "key"]
    BY <1>1 DEF Export, Placeholder
  <1>3. /\ oc'.phase = "key" /\ oc'.stack = oc.stack /\ oc'.entry = oc.entry
        /\ oc'.link = oc.link /\ oc'.done = oc.done /\ oc'.failed = oc.failed /\ oc'.visited = oc.visited
    BY <1>2 DEF TypeOK
  <1>4. Unit \in Module
    BY UnitType
  <1>5. smb' = [m \in Module |-> IF m = Unit THEN file ELSE smb[m]]
    BY <1>2, <1>4 DEF TypeOK
  <1>6. smb' = [m \in Module |-> [content |-> smb'[m].content, key |-> smb'[m].key,
                                  time |-> smb'[m].time]]
    <2>1. \A m \in Module : smb[m] = [content |-> smb[m].content, key |-> smb[m].key,
                                      time |-> smb[m].time]
      BY DEF TypeOK
    <2>2. file = [content |-> file.content, key |-> file.key, time |-> file.time]
      BY <1>1
    <2>3. \A m \in Module : smb'[m] = [content |-> smb'[m].content, key |-> smb'[m].key,
                                       time |-> smb'[m].time]
      BY <1>5, <2>1, <2>2
    <2> QED
      BY <1>5, <2>3
  <1>7. \A m \in Module : smb'[m].time \in Nat
    BY <1>1, <1>5 DEF TypeOK
  <1>8. TypeOK'
    BY <1>2, <1>6, <1>7 DEF TypeOK, Phases
  <1> QED
    BY <1>1, <1>2, <1>3, <1>4, <1>5, <1>8

LEMMA KeyFacts ==
    ASSUME TypeOK, Key, oc.stack # << >>
    PROVE  /\ oc.phase = "key" /\ UNCHANGED <<text, deps, obj, clock, missed>>
           /\ \A m \in Module : smb'[m].content = smb[m].content
           /\ \A m \in Module : m # Unit \/ oc' = Idle => smb'[m] = smb[m]
           /\ \/ oc' = Idle
              \/ /\ oc'.phase = "close" /\ oc'.stack = oc.stack /\ oc'.entry = oc.entry
                 /\ oc'.link = oc.link /\ oc'.done = oc.done /\ oc'.failed = oc.failed /\ oc'.visited = oc.visited
                 /\ smb'[Unit].key = smb'[Unit].content
           /\ TypeOK'
  <1>1. PICK sum : sum = smb[Unit].content
    OBVIOUS
  <1>2. /\ oc.phase = "key" /\ UNCHANGED <<text, deps, obj, clock, missed>>
        /\ \/ smb' = [smb EXCEPT ![Unit].key = sum] /\ oc' = [oc EXCEPT !.phase = "close"]
           \/ oc' = Idle /\ smb' = smb
    BY <1>1 DEF Key, Fail
  <1>3. CASE oc' = Idle /\ smb' = smb
    BY <1>2, <1>3, IdleFacts
  <1>4. CASE smb' = [smb EXCEPT ![Unit].key = sum] /\ oc' = [oc EXCEPT !.phase = "close"]
    <2>1. /\ oc'.phase = "close" /\ oc'.stack = oc.stack /\ oc'.entry = oc.entry
          /\ oc'.link = oc.link /\ oc'.done = oc.done /\ oc'.failed = oc.failed /\ oc'.visited = oc.visited
      BY <1>4 DEF TypeOK
    <2>2. Unit \in Module
      BY UnitType
    <2>3. PICK file : file = [smb[Unit] EXCEPT !.key = sum]
      OBVIOUS
    <2>4. \A m \in Module : smb[m] = [content |-> smb[m].content, key |-> smb[m].key,
                                      time |-> smb[m].time]
      BY DEF TypeOK
    <2>5. file = [content |-> sum, key |-> sum, time |-> smb[Unit].time]
      <3>1. PICK was : was = smb[Unit]
        OBVIOUS
      <3>2. was = [content |-> was.content, key |-> was.key, time |-> was.time]
        BY <2>2, <2>4, <3>1
      <3>3. file = [was EXCEPT !.key = sum] /\ sum = was.content
        BY <1>1, <2>3, <3>1
      <3>4. file = [content |-> was.content, key |-> sum, time |-> was.time]
        BY <3>2, <3>3
      <3> QED
        BY <3>1, <3>3, <3>4
    <2>6. smb' = [m \in Module |-> IF m = Unit THEN file ELSE smb[m]]
      BY <1>4, <2>2, <2>3 DEF TypeOK
    <2>7. \A m \in Module : smb'[m] = [content |-> smb'[m].content, key |-> smb'[m].key,
                                       time |-> smb'[m].time]
      BY <2>4, <2>5, <2>6
    <2>8. smb' = [m \in Module |-> [content |-> smb'[m].content, key |-> smb'[m].key,
                                    time |-> smb'[m].time]]
      BY <2>6, <2>7
    <2>9. /\ \A m \in Module : smb'[m].time \in Nat
      BY <2>2, <2>5, <2>6 DEF TypeOK
    <2>10. TypeOK'
      BY <1>2, <1>4, <2>8, <2>9 DEF TypeOK, Phases
    <2>11. oc'.phase # Idle.phase
      BY <2>1, IdleType
    <2> QED
      BY <1>1, <1>2, <2>1, <2>2, <2>5, <2>6, <2>10, <2>11
  <1> QED
    BY <1>2, <1>3, <1>4

(* The unit is done with: back to its caller, on to the link, or the end.    *)
Finishes(done, failed) ==
    \/ oc' = Idle
    \/ /\ oc'.entry = oc.entry /\ oc'.link = oc.link
       /\ oc'.done = done /\ oc'.failed = failed /\ oc'.visited = oc.visited
       /\ \/ /\ Len(oc.stack) > 1
             /\ oc'.phase = "ensure" /\ oc'.stack = Return(oc.stack)
          \/ /\ Len(oc.stack) = 1 /\ oc.link
             /\ oc'.phase = "link" /\ oc'.stack = oc.stack
             /\ oc'.queue = {Unit} /\ oc'.modules = {}

LEMMA FinishFacts ==
    ASSUME TypeOK, oc.stack # << >>, NEW done, NEW failed,
           Finish([oc EXCEPT !.done = done, !.failed = failed]),
           UNCHANGED <<text, smb, clock>>, deps' \subseteq Module, missed' \subseteq Module,
           obj' = [m \in Module |-> [version |-> obj'[m].version, content |-> obj'[m].content,
                                     seen |-> obj'[m].seen, time |-> obj'[m].time]],
           \A m \in Module : obj'[m].time \in Nat
    PROVE  Finishes(done, failed) /\ TypeOK'
  <1>1. PICK calls : calls = [oc EXCEPT !.done = done, !.failed = failed]
    OBVIOUS
  <1>2. \/ /\ Len(oc.stack) > 1
           /\ oc' = [calls EXCEPT !.phase = "ensure", !.stack = Return(@)]
        \/ /\ ~(Len(oc.stack) > 1) /\ oc.link
           /\ oc' = [calls EXCEPT !.phase = "link", !.queue = {Unit}, !.modules = {}]
        \/ oc' = Idle
    BY <1>1 DEF Finish
  <1>3. Unit \in Module /\ Len(oc.stack) \in Nat \ {0}
    BY UnitType
  <1>4. /\ calls = [phase |-> oc.phase, entry |-> oc.entry, force |-> oc.force,
                    link |-> oc.link, stack |-> oc.stack, visited |-> oc.visited,
                    done |-> done, failed |-> failed, old |-> oc.old,
                    queue |-> oc.queue, modules |-> oc.modules]
    BY <1>1 DEF TypeOK
  <1>5. CASE /\ Len(oc.stack) > 1
             /\ oc' = [calls EXCEPT !.phase = "ensure", !.stack = Return(@)]
    <2>1. oc.stack \in Seq([unit : Module, next : Nat \ {0}])
      BY DEF TypeOK
    <2>2. Return(oc.stack) \in Seq([unit : Module, next : Nat \ {0}])
      BY <1>5, <2>1, ReturnType
    <2>3. oc' = [phase |-> "ensure", entry |-> oc.entry, force |-> oc.force,
                 link |-> oc.link, stack |-> Return(oc.stack), visited |-> oc.visited,
                 done |-> done, failed |-> failed, old |-> oc.old,
                 queue |-> oc.queue, modules |-> oc.modules]
      BY <1>4, <1>5
    <2>4. TypeOK'
      BY <2>2, <2>3 DEF TypeOK, Phases
    <2>5. /\ oc'.entry = oc.entry /\ oc'.link = oc.link /\ oc'.done = done
          /\ oc'.failed = failed /\ oc'.visited = oc.visited
          /\ oc'.phase = "ensure" /\ oc'.stack = Return(oc.stack)
      BY ONLY <2>3
    <2>6. Len(oc.stack) > 1
      BY <1>5
    <2> QED
      BY <2>4, <2>5, <2>6 DEF Finishes
  <1>6. CASE /\ ~(Len(oc.stack) > 1) /\ oc.link
             /\ oc' = [calls EXCEPT !.phase = "link", !.queue = {Unit}, !.modules = {}]
    <2>1. oc' = [phase |-> "link", entry |-> oc.entry, force |-> oc.force,
                 link |-> oc.link, stack |-> oc.stack, visited |-> oc.visited,
                 done |-> done, failed |-> failed, old |-> oc.old,
                 queue |-> {Unit}, modules |-> {}]
      BY <1>4, <1>6
    <2>2. TypeOK'
      BY <1>3, <2>1 DEF TypeOK, Phases
    <2>3. Len(oc.stack) = 1 /\ oc.link
      <3>1. oc.link /\ ~(Len(oc.stack) > 1)
        BY <1>6
      <3> QED
        BY <1>3, <3>1, OneOrMore
    <2> QED
      BY <2>1, <2>2, <2>3 DEF Finishes
  <1>7. CASE oc' = Idle
    <2>1. << >> \in Seq([unit : Module, next : Nat \ {0}])
      BY EmptySeq
    <2>2. TypeOK'
      BY <1>7, <2>1 DEF TypeOK, Idle, Phases
    <2> QED
      BY <1>7, <2>2 DEF Finishes
  <1> QED
    BY <1>2, <1>5, <1>6, <1>7

(* An object file is written. *)
LEMMA WriteObject ==
    ASSUME TypeOK, oc.stack # << >>, NEW version, NEW content, NEW seen,
           obj' = [obj EXCEPT ![Unit] = [version |-> version, content |-> content,
                                         seen |-> seen, time |-> clock]]
    PROVE  /\ Unit \in Module
           /\ \A m \in Module : m # Unit => obj'[m] = obj[m]
           /\ obj'[Unit] = [version |-> version, content |-> content,
                            seen |-> seen, time |-> clock]
           /\ obj' = [m \in Module |-> [version |-> obj'[m].version, content |-> obj'[m].content,
                                        seen |-> obj'[m].seen, time |-> obj'[m].time]]
           /\ \A m \in Module : obj'[m].time \in Nat
  <1>1. PICK file : file = [version |-> version, content |-> content,
                            seen |-> seen, time |-> clock]
    OBVIOUS
  <1>2. Unit \in Module
    BY UnitType
  <1>3. obj' = [m \in Module |-> IF m = Unit THEN file ELSE obj[m]]
    BY <1>1, <1>2 DEF TypeOK
  <1>4. \A m \in Module : obj'[m] = [version |-> obj'[m].version, content |-> obj'[m].content,
                                     seen |-> obj'[m].seen, time |-> obj'[m].time]
    <2>1. \A m \in Module : obj[m] = [version |-> obj[m].version, content |-> obj[m].content,
                                      seen |-> obj[m].seen, time |-> obj[m].time]
      BY DEF TypeOK
    <2>2. file = [version |-> file.version, content |-> file.content,
                  seen |-> file.seen, time |-> file.time]
      BY <1>1
    <2> QED
      BY <1>3, <2>1, <2>2
  <1>5. obj' = [m \in Module |-> [version |-> obj'[m].version, content |-> obj'[m].content,
                                  seen |-> obj'[m].seen, time |-> obj'[m].time]]
    BY <1>3, <1>4
  <1>6. \A m \in Module : obj'[m].time \in Nat
    BY <1>1, <1>2, <1>3 DEF TypeOK
  <1> QED
    BY <1>1, <1>2, <1>3, <1>5, <1>6

(* The object file is opened, or cannot be. *)
LEMMA CloseFacts ==
    ASSUME TypeOK, Close, oc.stack # << >>
    PROVE  /\ oc.phase = "close" /\ UNCHANGED <<text, smb, clock>>
           /\ Unit \in Module /\ deps' = deps \cup {Unit}
           /\ \/ /\ \A m \in Module : m # Unit => obj'[m] = obj[m]
                 /\ obj'[Unit].time = clock /\ obj'[Unit].seen = << >>
                 /\ missed' = missed \cup {Unit}
                 /\ oc'.phase = "emit" /\ oc'.stack = oc.stack /\ oc'.entry = oc.entry
                 /\ oc'.link = oc.link /\ oc'.visited = oc.visited
                 /\ oc'.done = oc.done /\ oc'.failed = oc.failed
              \/ /\ UNCHANGED <<obj, missed>>
                 /\ Finishes(oc.done, oc.failed \cup {Unit})
           /\ TypeOK'
  <1>1. /\ oc.phase = "close" /\ UNCHANGED <<text, smb, clock>>
        /\ deps' = deps \cup {Unit}
        /\ \/ /\ obj' = [obj EXCEPT ![Unit] = [NoObject EXCEPT !.time = clock]]
              /\ missed' = missed \cup {Unit}
              /\ oc' = [oc EXCEPT !.phase = "emit"]
           \/ /\ Finish([oc EXCEPT !.failed = @ \cup {Unit}])
              /\ UNCHANGED <<obj, missed>>
    BY DEF Close
  <1>2. Unit \in Module
    BY UnitType
  <1>3. deps' \subseteq Module /\ missed \cup {Unit} \subseteq Module
    BY <1>1, <1>2 DEF TypeOK
  <1>4. CASE /\ obj' = [obj EXCEPT ![Unit] = [NoObject EXCEPT !.time = clock]]
             /\ missed' = missed \cup {Unit}
             /\ oc' = [oc EXCEPT !.phase = "emit"]
    <2>1. [NoObject EXCEPT !.time = clock]
             = [version |-> 0, content |-> NONE, seen |-> << >>, time |-> clock]
      BY DEF NoObject
    <2>2. /\ \A m \in Module : m # Unit => obj'[m] = obj[m]
          /\ obj'[Unit] = [version |-> 0, content |-> NONE, seen |-> << >>, time |-> clock]
          /\ obj' = [m \in Module |-> [version |-> obj'[m].version, content |-> obj'[m].content,
                                       seen |-> obj'[m].seen, time |-> obj'[m].time]]
          /\ \A m \in Module : obj'[m].time \in Nat
      BY <1>4, <2>1, WriteObject
    <2>3. /\ oc'.phase = "emit" /\ oc'.stack = oc.stack /\ oc'.entry = oc.entry
          /\ oc'.link = oc.link /\ oc'.visited = oc.visited
          /\ oc'.done = oc.done /\ oc'.failed = oc.failed
      BY <1>4 DEF TypeOK
    <2>4. TypeOK'
      BY <1>1, <1>3, <1>4, <2>2 DEF TypeOK, Phases
    <2>5. obj'[Unit].time = clock /\ obj'[Unit].seen = << >>
      BY <2>2
    <2> QED
      BY <1>1, <1>2, <1>4, <2>2, <2>3, <2>4, <2>5
  <1>5. CASE /\ Finish([oc EXCEPT !.failed = @ \cup {Unit}])
             /\ UNCHANGED <<obj, missed>>
    <2>1. [oc EXCEPT !.failed = @ \cup {Unit}]
             = [oc EXCEPT !.done = oc.done, !.failed = oc.failed \cup {Unit}]
      BY DEF TypeOK
    <2>2. Finish([oc EXCEPT !.done = oc.done, !.failed = oc.failed \cup {Unit}])
      BY <1>5, <2>1
    <2>3. /\ obj' = [m \in Module |-> [version |-> obj'[m].version, content |-> obj'[m].content,
                                       seen |-> obj'[m].seen, time |-> obj'[m].time]]
          /\ \A m \in Module : obj'[m].time \in Nat
      BY <1>5 DEF TypeOK
    <2>4. missed' \subseteq Module
      BY <1>3, <1>5
    <2> QED
      BY <1>1, <1>2, <1>3, <1>5, <2>2, <2>3, <2>4, FinishFacts
  <1> QED
    BY <1>1, <1>4, <1>5

LEMMA EmitFacts ==
    ASSUME TypeOK, Emit, oc.stack # << >>
    PROVE  /\ oc.phase = "emit" /\ UNCHANGED <<text, smb, deps, clock>>
           /\ Unit \in Module /\ missed' = missed \ {Unit}
           /\ \A m \in Module : m # Unit => obj'[m] = obj[m]
           /\ obj'[Unit].version = text[Unit].version /\ obj'[Unit].time = clock
           /\ obj'[Unit].seen = [i \in Range(Imports[Unit]) |-> smb[i].content]
           /\ Finishes(oc.done \cup {Unit}, oc.failed)
           /\ TypeOK'
  <1>0. PICK seen : seen = [i \in Range(Imports[Unit]) |-> smb[i].content]
    OBVIOUS
  <1>1. /\ oc.phase = "emit" /\ UNCHANGED <<text, smb, deps, clock>>
        /\ missed' = missed \ {Unit}
        /\ obj' = [obj EXCEPT ![Unit] =
                     [version |-> text[Unit].version, content |-> smb[Unit].content,
                      seen |-> seen, time |-> clock]]
        /\ Finish([oc EXCEPT !.done = @ \cup {Unit}])
    BY <1>0 DEF Emit
  <1>2. /\ Unit \in Module
        /\ \A m \in Module : m # Unit => obj'[m] = obj[m]
        /\ obj'[Unit] = [version |-> text[Unit].version, content |-> smb[Unit].content,
                         seen |-> seen, time |-> clock]
        /\ obj' = [m \in Module |-> [version |-> obj'[m].version, content |-> obj'[m].content,
                                     seen |-> obj'[m].seen, time |-> obj'[m].time]]
        /\ \A m \in Module : obj'[m].time \in Nat
    BY <1>1, WriteObject
  <1>3. [oc EXCEPT !.done = @ \cup {Unit}]
           = [oc EXCEPT !.done = oc.done \cup {Unit}, !.failed = oc.failed]
    BY DEF TypeOK
  <1>4. Finish([oc EXCEPT !.done = oc.done \cup {Unit}, !.failed = oc.failed])
    BY <1>1, <1>3
  <1>5. UNCHANGED <<text, smb, clock>> /\ deps' \subseteq Module /\ missed' \subseteq Module
    BY <1>1 DEF TypeOK
  <1>6. Finishes(oc.done \cup {Unit}, oc.failed) /\ TypeOK'
    BY <1>2, <1>4, <1>5, FinishFacts
  <1> QED
    BY <1>0, <1>1, <1>2, <1>6

LEMMA FollowFacts ==
    ASSUME TypeOK, Follow
    PROVE  /\ oc.phase = "link" /\ UNCHANGED <<text, smb, deps, obj, clock, missed>>
           /\ oc'.phase = "link" /\ oc'.stack = oc.stack /\ oc'.entry = oc.entry
           /\ oc'.link = oc.link /\ oc'.done = oc.done /\ oc'.failed = oc.failed /\ oc'.visited = oc.visited
           /\ \E m \in oc.queue \ oc.modules : \E lines \in SUBSET (Listed(m) \ oc.queue) :
                 /\ oc'.modules = oc.modules \cup {m} /\ oc'.queue = oc.queue \cup lines
                 /\ Cardinality(oc.queue \cup lines) < MaxLinkMods
                       => lines = Listed(m) \ oc.queue
           /\ TypeOK'
  <1>0. PICK m \in oc.queue \ oc.modules : \E lines \in SUBSET (Listed(m) \ oc.queue) :
            /\ oc' = [oc EXCEPT !.modules = @ \cup {m}, !.queue = @ \cup lines]
            /\ Cardinality(oc.queue \cup lines) < MaxLinkMods => lines = Listed(m) \ oc.queue
    BY DEF Follow
  <1>1. PICK lines \in SUBSET (Listed(m) \ oc.queue) :
            /\ oc' = [oc EXCEPT !.modules = @ \cup {m}, !.queue = @ \cup lines]
            /\ Cardinality(oc.queue \cup lines) < MaxLinkMods => lines = Listed(m) \ oc.queue
    BY <1>0
  <1>2. oc.phase = "link" /\ UNCHANGED <<text, smb, deps, obj, clock, missed>>
    BY DEF Follow
  <1>3. /\ oc'.phase = "link" /\ oc'.stack = oc.stack /\ oc'.entry = oc.entry
        /\ oc'.link = oc.link /\ oc'.done = oc.done /\ oc'.failed = oc.failed /\ oc'.visited = oc.visited
        /\ oc'.modules = oc.modules \cup {m} /\ oc'.queue = oc.queue \cup lines
    BY <1>1, <1>2 DEF TypeOK
  <1>4. lines \subseteq Module
    <2>1. m \in Module
      BY DEF TypeOK
    <2> QED
      BY <2>1, ImportsType DEF Listed
  <1>5. TypeOK'
    BY <1>1, <1>2, <1>4 DEF TypeOK
  <1> QED
    BY <1>1, <1>2, <1>3, <1>5

LEMMA EditFacts ==
    ASSUME TypeOK, NEW m \in Module, NEW change \in BOOLEAN, NEW ok \in BOOLEAN,
           Edit(m, change, ok)
    PROVE  /\ oc.phase = "idle" /\ UNCHANGED <<smb, deps, obj, oc>>
           /\ clock' \in {clock, clock + 1} /\ text'[m].time = clock'
           /\ \A k \in Module : k # m => text'[k] = text[k] /\ (k \in missed' <=> k \in missed)
           /\ Exists(obj[m]) /\ obj[m].time = clock' => m \in missed'
           /\ TypeOK'
  <1>1. PICK new : new = [version |-> text[m].version + 1,
                          iface |-> IF change THEN text[m].version + 1 ELSE text[m].iface,
                          ok |-> ok, time |-> clock']
    OBVIOUS
  <1>2. /\ oc.phase = "idle" /\ UNCHANGED <<smb, deps, obj, oc>>
        /\ clock' \in {clock, clock + 1}
        /\ text' = [text EXCEPT ![m] = new]
        /\ missed' = IF Exists(obj[m]) /\ obj[m].time = clock'
                     THEN missed \cup {m} ELSE missed \ {m}
    BY <1>1 DEF Edit
  <1>3. /\ text \in [Module -> [version : Nat, iface : Nat, ok : BOOLEAN, time : Nat]]
        /\ clock \in Nat \ {0} /\ missed \subseteq Module
    BY DEF TypeOK
  <1>4. /\ clock' \in Nat \ {0} /\ text[m].iface \in Nat /\ text[m].version + 1 \in Nat
        /\ missed' \subseteq Module
    BY <1>2, <1>3
  <1>5. new \in [version : Nat, iface : Nat, ok : BOOLEAN, time : Nat] /\ new.time = clock'
    BY <1>1, <1>4
  <1>6. text' = [k \in Module |-> IF k = m THEN new ELSE text[k]]
    BY <1>2, <1>3
  <1>7. text' \in [Module -> [version : Nat, iface : Nat, ok : BOOLEAN, time : Nat]]
    BY <1>3, <1>5, <1>6
  <1>8. TypeOK'
    BY <1>2, <1>4, <1>7 DEF TypeOK
  <1>9. /\ \A k \in Module : k # m => (k \in missed' <=> k \in missed)
        /\ Exists(obj[m]) /\ obj[m].time = clock' => m \in missed'
    BY <1>2
  <1> QED
    BY <1>2, <1>5, <1>6, <1>8, <1>9

LEMMA RunFacts ==
    ASSUME TypeOK, NEW m \in Module, NEW force \in BOOLEAN, NEW link \in BOOLEAN,
           Run(m, force, link)
    PROVE  /\ UNCHANGED <<text, smb, deps, obj, clock, missed>>
           /\ oc'.phase = IF link THEN "ensure" ELSE "import"
           /\ oc'.entry = m /\ oc'.link = link /\ oc'.done = {} /\ oc'.visited = {}
           /\ Len(oc'.stack) = 1 /\ oc'.stack[1] = Call(m)
           /\ TypeOK'
  <1>1. Call(m) \in [unit : Module, next : Nat \ {0}]
    BY DEF Call
  <1>2. /\ << Call(m) >> \in Seq([unit : Module, next : Nat \ {0}])
        /\ Len(<< Call(m) >>) = 1 /\ << Call(m) >>[1] = Call(m)
    BY <1>1
  <1>3. UNCHANGED <<text, smb, deps, obj, clock, missed>>
    BY DEF Run
  <1>4. /\ oc'.phase = IF link THEN "ensure" ELSE "import"
        /\ oc'.entry = m /\ oc'.link = link /\ oc'.done = {} /\ oc'.visited = {}
        /\ oc'.stack = << Call(m) >>
    BY DEF Run, Idle
  <1>5. TypeOK'
    BY <1>2, <1>3 DEF TypeOK, Run, Idle, Phases
  <1> QED
    BY <1>2, <1>3, <1>4, <1>5
-----------------------------------------------------------------------------
(* The calls of ensure_compiled. *)

(* No call waits for what the innermost one imports. *)
LEMMA NoCycle ==
    ASSUME Acyclic, TypeOK, CallsInv, oc.stack # << >>,
           NEW k \in 1 .. Len(oc.stack), oc.stack[k].unit \in Range(Imports[Unit])
    PROVE  FALSE
  <1>0. /\ Len(oc.stack) \in Nat \ {0}
        /\ \A j \in 1 .. Len(oc.stack) : oc.stack[j].unit \in Module
    BY UnitType
  <1>1. PICK S : S = { oc.stack[j].unit : j \in k .. Len(oc.stack) }
    OBVIOUS
  <1>2. S \in SUBSET Module /\ oc.stack[k].unit \in S
    BY <1>0, <1>1
  <1>3. PICK m \in S : Range(Imports[m]) \cap S = {}
    BY <1>2 DEF Acyclic
  <1>4. PICK j \in k .. Len(oc.stack) : m = oc.stack[j].unit
    BY <1>1
  <1>5. CASE j = Len(oc.stack)
    <2>1. m = Unit
      BY <1>4, <1>5 DEF Unit
    <2> QED
      BY <1>2, <1>3, <2>1
  <1>6. CASE j # Len(oc.stack)
    <2>1. j + 1 \in 2 .. Len(oc.stack) /\ j + 1 \in k .. Len(oc.stack) /\ (j + 1) - 1 = j
      BY <1>0, <1>6
    <2>2. oc.stack[j + 1].unit \in Range(Imports[oc.stack[(j + 1) - 1].unit])
      BY <2>1 DEF CallsInv
    <2>3. oc.stack[j + 1].unit \in S
      BY <1>1, <2>1
    <2> QED
      BY <1>3, <1>4, <2>1, <2>2, <2>3
  <1> QED
    BY <1>5, <1>6

(* What the innermost call is for is not finished. *)
LEMMA UnitOnStack ==
    ASSUME TypeOK, oc.stack # << >>
    PROVE  Unit \in OnStack /\ Unit \notin Finished /\ OnStack \subseteq Module
  BY UnitType DEF OnStack, Finished, Unit

(* Once it has looked at all its imports they are finished. *)
LEMMA ImportsFinished ==
    ASSUME Acyclic, TypeOK, CallsInv, oc.stack # << >>,
           oc.stack[Len(oc.stack)].next > Len(Imports[Unit])
    PROVE  Range(Imports[Unit]) \subseteq Finished
  <1>0. /\ Len(oc.stack) \in Nat \ {0} /\ Len(oc.stack) \in 1 .. Len(oc.stack)
        /\ Unit \in Module /\ oc.stack[Len(oc.stack)].next \in Nat
    BY UnitType
  <1> SUFFICES ASSUME NEW i \in Range(Imports[Unit]) PROVE i \in Finished
    OBVIOUS
  <1>1. PICK n \in 1 .. Len(Imports[Unit]) : i = Imports[Unit][n]
    BY <1>0, ImportsType
  <1>2. n < oc.stack[Len(oc.stack)].next /\ Len(Imports[Unit]) \in Nat
    BY <1>0, ImportsType
  <1>3. i \in oc.visited
    BY <1>0, <1>1, <1>2 DEF CallsInv, Unit
  <1>4. i \notin OnStack
    BY NoCycle DEF OnStack
  <1> QED
    BY <1>3, <1>4 DEF Finished

(* A step that leaves the calls alone. *)
LEMMA SameCalls ==
    ASSUME CallsInv, oc'.stack = oc.stack, oc'.entry = oc.entry, oc'.link = oc.link,
           oc'.visited = oc.visited,
           oc.phase # "ensure" \/ oc.stack[Len(oc.stack)].next > Len(Imports[Unit]),
           oc'.phase \notin {"link", "ensure"} \/ (oc.phase = "link" /\ oc'.phase = "link")
    PROVE  CallsInv' /\ Finished' = Finished /\ OnStack' = OnStack /\ Unit' = Unit
  <1>1. Unit' = Unit /\ OnStack' = OnStack /\ Finished' = Finished
    BY DEF Unit, OnStack, Finished
  <1> QED
    BY <1>1 DEF CallsInv

(* The innermost call returns. *)
LEMMA ReturnCalls ==
    ASSUME Acyclic, TypeOK, CallsInv, oc.stack # << >>, Len(oc.stack) > 1,
           oc.stack[Len(oc.stack)].next > Len(Imports[Unit]),
           oc.link, oc'.stack = Return(oc.stack), oc'.entry = oc.entry, oc'.link = oc.link,
           oc'.visited = oc.visited, oc'.phase = "ensure"
    PROVE  CallsInv' /\ Finished' = Finished \cup {Unit}
  <1>0. /\ oc.stack \in Seq([unit : Module, next : Nat \ {0}])
        /\ Len(oc.stack) \in Nat
    BY LenProperties DEF TypeOK
  <1>1. /\ Len(oc'.stack) = Len(oc.stack) - 1
        /\ \A k \in 1 .. Len(oc.stack) - 1 : oc'.stack[k] = oc.stack[k]
    <2>1. PICK calls : calls = oc.stack
      OBVIOUS
    <2>2. PICK S : S = [unit : Module, next : Nat \ {0}]
      OBVIOUS
    <2>3. calls \in Seq(S) /\ Len(calls) > 1
      BY <1>0, <2>1, <2>2
    <2>4. /\ Len(Return(calls)) = Len(calls) - 1
          /\ \A k \in 1 .. Len(calls) - 1 : Return(calls)[k] = calls[k]
      BY ONLY <2>3, ReturnType
    <2>5. oc'.stack = Return(calls)
      BY <2>1
    <2> QED
      BY ONLY <2>1, <2>4, <2>5
  <1>2. Len(oc'.stack) > 0 /\ 1 \in 1 .. Len(oc.stack) - 1
    BY <1>0, <1>1
  <1>3. /\ oc'.stack[1].unit = oc'.entry /\ oc'.entry \notin oc'.visited
    BY <1>1, <1>2 DEF CallsInv
  <1>4. \A k \in 2 .. Len(oc'.stack) :
          /\ oc'.stack[k].unit \in oc'.visited
          /\ oc'.stack[k].unit \in Range(Imports[oc'.stack[k - 1].unit])
    <2> SUFFICES ASSUME NEW k \in 2 .. Len(oc'.stack)
                 PROVE  /\ oc'.stack[k].unit \in oc'.visited
                        /\ oc'.stack[k].unit \in Range(Imports[oc'.stack[k - 1].unit])
      OBVIOUS
    <2>1. k \in 2 .. Len(oc.stack) /\ k \in 1 .. Len(oc.stack) - 1 /\ k - 1 \in 1 .. Len(oc.stack) - 1
      BY <1>0, <1>1
    <2> QED
      BY <1>1, <2>1 DEF CallsInv
  <1>5. \A j, k \in 1 .. Len(oc'.stack) : oc'.stack[j].unit = oc'.stack[k].unit => j = k
    <2>1. 1 .. Len(oc'.stack) \subseteq 1 .. Len(oc.stack)
      BY <1>0, <1>1
    <2>2. \A k \in 1 .. Len(oc'.stack) : oc'.stack[k] = oc.stack[k]
      BY <1>1
    <2>3. \A j, k \in 1 .. Len(oc.stack) : oc.stack[j].unit = oc.stack[k].unit => j = k
      BY DEF CallsInv
    <2> QED
      BY <2>1, <2>2, <2>3
  <1>6. \A k \in 1 .. Len(oc'.stack) :
          \A n \in 1 .. Len(Imports[oc'.stack[k].unit]) :
              n < oc'.stack[k].next => Imports[oc'.stack[k].unit][n] \in oc'.visited
    <2>1. 1 .. Len(oc'.stack) \subseteq 1 .. Len(oc.stack)
      BY <1>0, <1>1
    <2>2. \A k \in 1 .. Len(oc'.stack) : oc'.stack[k] = oc.stack[k]
      BY <1>1
    <2>3. \A k \in 1 .. Len(oc.stack) :
            \A n \in 1 .. Len(Imports[oc.stack[k].unit]) :
                n < oc.stack[k].next => Imports[oc.stack[k].unit][n] \in oc.visited
      BY DEF CallsInv
    <2> QED
      BY <2>1, <2>2, <2>3
  <1>7. CallsInv'
    BY <1>2, <1>3, <1>4, <1>5, <1>6 DEF CallsInv
  <1>8. OnStack' = OnStack \ {Unit}
    <2>1. \A k \in 1 .. Len(oc.stack) - 1 : oc.stack[k].unit # Unit
      <3>1. \A j, k \in 1 .. Len(oc.stack) : oc.stack[j].unit = oc.stack[k].unit => j = k
        BY DEF CallsInv
      <3>2. \A k \in 1 .. Len(oc.stack) - 1 :
              k \in 1 .. Len(oc.stack) /\ k # Len(oc.stack) /\ Len(oc.stack) \in 1 .. Len(oc.stack)
        BY <1>0
      <3> QED
        BY <3>1, <3>2 DEF Unit
    <2>2. 1 .. Len(oc.stack) = 1 .. Len(oc.stack) - 1 \cup {Len(oc.stack)}
      BY <1>0
    <2>3. OnStack = {oc.stack[k].unit : k \in 1 .. Len(oc.stack) - 1} \cup {Unit}
      BY <2>2 DEF OnStack, Unit
    <2>4. OnStack' = {oc.stack[k].unit : k \in 1 .. Len(oc.stack) - 1}
      BY <1>1 DEF OnStack
    <2> QED
      BY <2>1, <2>3, <2>4
  <1>9. Unit \in oc.visited
    <2>1. Len(oc.stack) \in 2 .. Len(oc.stack)
      BY <1>0
    <2> QED
      BY <2>1 DEF CallsInv, Unit
  <1> QED
    BY <1>7, <1>8, <1>9 DEF Finished
(* The innermost call has looked at an import that was visited before. *)
LEMMA PastCalls ==
    ASSUME TypeOK, CallsInv, oc.stack # << >>, oc.phase = "ensure", oc.link,
           NEW past, past = [oc.stack EXCEPT ![Len(oc.stack)].next = @ + 1],
           oc.stack[Len(oc.stack)].next <= Len(Imports[Unit]),
           NEW m, m = Imports[Unit][oc.stack[Len(oc.stack)].next],
           m \in oc.visited,
           oc'.entry = oc.entry, oc'.link = oc.link, oc'.phase = oc.phase,
           oc'.visited = oc.visited, oc'.stack = past
    PROVE  CallsInv' /\ Finished' = Finished
  <1>0. /\ Len(oc.stack) \in Nat \ {0} /\ Unit \in Module
        /\ Len(oc'.stack) = Len(oc.stack)
        /\ \A k \in 1 .. Len(oc.stack) :
              /\ oc'.stack[k].unit = oc.stack[k].unit
              /\ oc'.stack[k].next = IF k = Len(oc.stack) THEN oc.stack[k].next + 1
                                     ELSE oc.stack[k].next
              /\ oc.stack[k].next \in Nat
    BY UnitType, PastType
  <1>1. OnStack' = OnStack /\ Finished' = Finished
    <2>1. OnStack' = OnStack
      BY <1>0 DEF OnStack
    <2> QED
      BY <2>1 DEF Finished
  <1>2. Len(oc'.stack) > 0 /\ oc'.stack[1].unit = oc'.entry /\ oc'.entry \notin oc'.visited
    BY <1>0 DEF CallsInv
  <1>3. \A k \in 2 .. Len(oc'.stack) :
          /\ oc'.stack[k].unit \in oc'.visited
          /\ oc'.stack[k].unit \in Range(Imports[oc'.stack[k - 1].unit])
    <2>1. \A k \in 2 .. Len(oc.stack) :
            k \in 1 .. Len(oc.stack) /\ k - 1 \in 1 .. Len(oc.stack)
      BY <1>0
    <2>2. \A k \in 2 .. Len(oc.stack) :
            /\ oc.stack[k].unit \in oc.visited
            /\ oc.stack[k].unit \in Range(Imports[oc.stack[k - 1].unit])
      BY DEF CallsInv
    <2> QED
      BY <1>0, <2>1, <2>2
  <1>4. \A j, k \in 1 .. Len(oc'.stack) : oc'.stack[j].unit = oc'.stack[k].unit => j = k
    <2>1. \A j, k \in 1 .. Len(oc.stack) : oc.stack[j].unit = oc.stack[k].unit => j = k
      BY DEF CallsInv
    <2> QED
      BY <1>0, <2>1
  <1>5. \A k \in 1 .. Len(oc'.stack) :
          \A n \in 1 .. Len(Imports[oc'.stack[k].unit]) :
              n < oc'.stack[k].next => Imports[oc'.stack[k].unit][n] \in oc'.visited
    <2>1. \A k \in 1 .. Len(oc.stack) :
            \A n \in 1 .. Len(Imports[oc.stack[k].unit]) :
                n < oc.stack[k].next => Imports[oc.stack[k].unit][n] \in oc.visited
      BY DEF CallsInv
    <2> SUFFICES ASSUME NEW k \in 1 .. Len(oc.stack),
                        NEW n \in 1 .. Len(Imports[oc.stack[k].unit]),
                        n < oc'.stack[k].next
                 PROVE  Imports[oc.stack[k].unit][n] \in oc.visited
      BY <1>0
    <2>2. CASE k = Len(oc.stack) /\ n = oc.stack[k].next
      BY <2>2 DEF Unit
    <2>3. CASE n < oc.stack[k].next
      BY <2>1, <2>3
    <2> QED
      BY <1>0, <2>2, <2>3
  <1>6. CallsInv'
    BY <1>2, <1>3, <1>4, <1>5 DEF CallsInv
  <1> QED
    BY <1>1, <1>6

(* It calls ensure_compiled for one that was not: the calls with one for m. *)
Deeper(was, now, m) ==
    /\ Len(now) = Len(was) + 1
    /\ now[Len(was) + 1].unit = m /\ now[Len(was) + 1].next = 1
    /\ \A k \in 1 .. Len(was) :
          /\ now[k].unit = was[k].unit
          /\ now[k].next = IF k = Len(was) THEN was[k].next + 1 ELSE was[k].next

LEMMA EnterShape ==
    ASSUME NEW m \in Module, NEW was, NEW past \in Seq([unit : Module, next : Nat \ {0}]),
           Len(past) = Len(was),
           \A k \in 1 .. Len(past) :
              /\ past[k].unit = was[k].unit
              /\ past[k].next = IF k = Len(past) THEN was[k].next + 1 ELSE was[k].next
    PROVE  Deeper(was, Enter(past, m), m)
  <1>1. Call(m) \in [unit : Module, next : Nat \ {0}] /\ Call(m).unit = m /\ Call(m).next = 1
    BY DEF Call
  <1>2. /\ Len(Enter(past, m)) = Len(past) + 1
        /\ Enter(past, m)[Len(past) + 1] = Call(m)
        /\ \A k \in 1 .. Len(past) : Enter(past, m)[k] = past[k]
    <2>1. PICK S : S = [unit : Module, next : Nat \ {0}]
      OBVIOUS
    <2>2. past \in Seq(S) /\ Call(m) \in S
      BY <1>1, <2>1
    <2> QED
      BY ONLY <2>2, EnterType
  <1>3. PICK now : now = Enter(past, m)
    OBVIOUS
  <1>4. /\ Len(now) = Len(was) + 1 /\ now[Len(was) + 1] = Call(m)
        /\ \A k \in 1 .. Len(was) : now[k] = past[k]
    BY <1>2, <1>3
  <1> QED
    BY <1>1, <1>3, <1>4 DEF Deeper

LEMMA EnterCalls ==
    ASSUME Acyclic, TypeOK, CallsInv, oc.stack # << >>, oc.phase = "ensure", oc.link,
           NEW m \in Module, m \notin oc.visited, m \in Range(Imports[Unit]),
           m = Imports[Unit][oc.stack[Len(oc.stack)].next],
           Deeper(oc.stack, oc'.stack, m),
           oc'.entry = oc.entry, oc'.link = oc.link, oc'.phase = oc.phase,
           oc'.visited = oc.visited \cup {m}
    PROVE  CallsInv' /\ Finished' = Finished
  <1>1. /\ Len(oc.stack) \in Nat \ {0} /\ Unit \in Module
        /\ \A k \in 1 .. Len(oc.stack) : oc.stack[k].next \in Nat \ {0}
    BY UnitType
  <1>2. /\ Len(oc'.stack) = Len(oc.stack) + 1
        /\ oc'.stack[Len(oc.stack) + 1].unit = m /\ oc'.stack[Len(oc.stack) + 1].next = 1
        /\ \A k \in 1 .. Len(oc.stack) :
              /\ oc'.stack[k].unit = oc.stack[k].unit
              /\ oc'.stack[k].next = IF k = Len(oc.stack) THEN oc.stack[k].next + 1
                                     ELSE oc.stack[k].next
    BY DEF Deeper
  <1>3. /\ 1 .. Len(oc.stack) + 1 = 1 .. Len(oc.stack) \cup {Len(oc.stack) + 1}
        /\ Len(oc.stack) + 1 \notin 1 .. Len(oc.stack) /\ 1 \in 1 .. Len(oc.stack)
    BY <1>1
  <1>5. m \notin OnStack
    <2>1. ASSUME NEW k \in 1 .. Len(oc.stack), oc.stack[k].unit = m
          PROVE  FALSE
      BY <2>1, NoCycle
    <2> QED
      BY <2>1 DEF OnStack
  <1>6. OnStack' = OnStack \cup {m}
    <2>1. OnStack' = {oc'.stack[k].unit : k \in 1 .. Len(oc.stack) + 1}
      BY <1>2 DEF OnStack
    <2>2. OnStack = {oc'.stack[k].unit : k \in 1 .. Len(oc.stack)}
      BY <1>2 DEF OnStack
    <2> QED
      BY <1>2, <1>3, <2>1, <2>2
  <1>7. Finished' = Finished
    BY <1>5, <1>6 DEF Finished
  <1>8. /\ Len(oc'.stack) > 0 /\ oc'.stack[1].unit = oc'.entry
        /\ oc'.entry \notin oc'.visited
    <2>1. oc.stack[1].unit = oc.entry /\ oc.entry \notin oc.visited
      BY DEF CallsInv
    <2>2. oc.entry \in OnStack
      BY <1>3, <2>1 DEF OnStack
    <2> QED
      BY <1>1, <1>2, <1>3, <1>5, <2>1, <2>2
  <1>9. \A k \in 2 .. Len(oc'.stack) :
          /\ oc'.stack[k].unit \in oc'.visited
          /\ oc'.stack[k].unit \in Range(Imports[oc'.stack[k - 1].unit])
    <2>1. \A k \in 2 .. Len(oc.stack) :
            /\ oc.stack[k].unit \in oc.visited
            /\ oc.stack[k].unit \in Range(Imports[oc.stack[k - 1].unit])
      BY DEF CallsInv
    <2> SUFFICES ASSUME NEW k \in 2 .. Len(oc.stack) + 1
                 PROVE  /\ oc'.stack[k].unit \in oc'.visited
                        /\ oc'.stack[k].unit \in Range(Imports[oc'.stack[k - 1].unit])
      BY <1>2
    <2>2. CASE k = Len(oc.stack) + 1
      <3>1. Len(oc.stack) \in 1 .. Len(oc.stack) /\ k - 1 = Len(oc.stack)
        BY <1>1, <2>2
      <3>2. oc'.stack[k - 1].unit = Unit
        BY <1>2, <3>1 DEF Unit
      <3> QED
        BY <1>2, <2>2, <3>2
    <2>3. CASE k # Len(oc.stack) + 1
      <3>1. /\ k \in 2 .. Len(oc.stack) /\ k \in 1 .. Len(oc.stack)
            /\ k - 1 \in 1 .. Len(oc.stack)
        BY <1>1, <2>3
      <3> QED
        BY <1>2, <2>1, <3>1
    <2> QED
      BY <2>2, <2>3
  <1>10. \A j, k \in 1 .. Len(oc'.stack) : oc'.stack[j].unit = oc'.stack[k].unit => j = k
    <2>1. \A j, k \in 1 .. Len(oc.stack) : oc.stack[j].unit = oc.stack[k].unit => j = k
      BY DEF CallsInv
    <2>2. \A j \in 1 .. Len(oc.stack) : oc.stack[j].unit # m
      BY <1>5 DEF OnStack
    <2> QED
      <3>1. Len(oc'.stack) = Len(oc.stack) + 1 /\ oc'.stack[Len(oc.stack) + 1].unit = m
        BY <1>2
      <3>2. \A j \in 1 .. Len(oc.stack) : oc'.stack[j].unit = oc.stack[j].unit
        BY <1>2
      <3>3. \A j \in 1 .. Len(oc.stack) + 1 :
               j \in 1 .. Len(oc.stack) \/ j = Len(oc.stack) + 1
        BY <1>3
      <3> SUFFICES ASSUME NEW j \in 1 .. Len(oc.stack) + 1, NEW k \in 1 .. Len(oc.stack) + 1,
                          oc'.stack[j].unit = oc'.stack[k].unit
                   PROVE  j = k
        BY <3>1
      <3>4. CASE j = Len(oc.stack) + 1 /\ k \in 1 .. Len(oc.stack)
        BY <2>2, <3>1, <3>2, <3>4
      <3>5. CASE k = Len(oc.stack) + 1 /\ j \in 1 .. Len(oc.stack)
        BY <2>2, <3>1, <3>2, <3>5
      <3>6. CASE j \in 1 .. Len(oc.stack) /\ k \in 1 .. Len(oc.stack)
        BY <2>1, <3>2, <3>6
      <3> QED
        BY <3>3, <3>4, <3>5, <3>6
  <1>11. \A k \in 1 .. Len(oc'.stack) :
          \A n \in 1 .. Len(Imports[oc'.stack[k].unit]) :
              n < oc'.stack[k].next => Imports[oc'.stack[k].unit][n] \in oc'.visited
    <2>1. \A k \in 1 .. Len(oc.stack) :
            \A n \in 1 .. Len(Imports[oc.stack[k].unit]) :
                n < oc.stack[k].next => Imports[oc.stack[k].unit][n] \in oc.visited
      BY DEF CallsInv
    <2> SUFFICES ASSUME NEW k \in 1 .. Len(oc.stack) + 1,
                        NEW n \in 1 .. Len(Imports[oc'.stack[k].unit]),
                        n < oc'.stack[k].next
                 PROVE  Imports[oc'.stack[k].unit][n] \in oc'.visited
      BY <1>2
    <2>2. CASE k = Len(oc.stack) + 1
      <3>1. k = Len(oc.stack) + 1 /\ oc'.stack[k].next = 1
        BY <1>2, <2>2
      <3>2. n \in Int /\ n >= 1
        OBVIOUS
      <3>3. ~(n < 1)
        BY ONLY <3>2
      <3> QED
        BY <3>1, <3>3
    <2>3. CASE k # Len(oc.stack) + 1
      <3>1. k \in 1 .. Len(oc.stack)
        BY <1>3, <2>3
      <3>2. CASE k = Len(oc.stack) /\ n = oc.stack[k].next
        <4>1. oc'.stack[k].unit = Unit
          BY <1>2, <3>1, <3>2 DEF Unit
        <4>2. Imports[oc'.stack[k].unit][n] = m
          BY <3>2, <4>1
        <4> QED
          BY <4>2
      <3>3. CASE n < oc.stack[k].next
        BY <1>2, <2>1, <3>1, <3>3
      <3>4. n \in Nat /\ oc.stack[k].next \in Nat
        <4>1. oc.stack[k].unit \in Module /\ oc'.stack[k].unit = oc.stack[k].unit
          BY <1>2, <3>1, UnitType
        <4>2. Len(Imports[oc'.stack[k].unit]) \in Nat
          BY <4>1, ImportsType
        <4> QED
          BY <1>1, <3>1, <4>2
      <3>5. n < oc.stack[k].next \/ (k = Len(oc.stack) /\ n = oc.stack[k].next)
        BY <1>2, <3>1, <3>4
      <3> QED
        BY <3>2, <3>3, <3>5
    <2> QED
      BY <2>2, <2>3
  <1>12. CallsInv'
    BY <1>8, <1>9, <1>10, <1>11 DEF CallsInv
  <1> QED
    BY <1>7, <1>12
-----------------------------------------------------------------------------
(* The invariant. *)

LEMMA Busy ==
    ASSUME DriverInv, oc.phase # "idle"
    PROVE  /\ TypeOK /\ FilesInv /\ CallsInv /\ FinishedInv /\ DoneInv /\ LinkInv
           /\ oc.entry \in Module /\ oc.stack # << >>
           /\ oc.phase = "ensure" => oc.link
  <1>1. /\ TypeOK /\ FilesInv /\ CallsInv /\ FinishedInv /\ DoneInv /\ LinkInv
        /\ oc.entry \in Module
    BY DEF DriverInv, RunInv
  <1>2. Len(oc.stack) > 0 /\ (~oc.link => oc.phase # "ensure")
    BY <1>1 DEF CallsInv
  <1>3. Len(<< >>) = 0
    OBVIOUS
  <1> QED
    BY <1>1, <1>2, <1>3

LEMMA InitInv == Init => DriverInv
  <1> SUFFICES ASSUME Init PROVE DriverInv
    OBVIOUS
  <1>1. TypeOK
    BY TypeInit
  <1>2. FilesInv
    BY DEF Init, FilesInv, Exists, NoObject
  <1>3. RunInv
    BY DEF Init, RunInv, Idle
  <1> QED
    BY <1>1, <1>2, <1>3 DEF DriverInv

(* Nothing was compiled, and nothing but the calls changed. *)
LEMMA SameFiles ==
    ASSUME FilesInv, UNCHANGED <<text, obj, deps, clock, missed>>
    PROVE  FilesInv'
  BY DEF FilesInv, Exists

(* What was made stays made while nothing happens to its files. *)
LEMMA StaysMade ==
    ASSUME NEW m, Made(m), UNCHANGED text, obj'[m] = obj[m], deps \subseteq deps',
           oc.failed \subseteq oc'.failed, m \in missed' <=> m \in missed
    PROVE  Made(m)'
  BY DEF Made, Exists

LEMMA SameDone ==
    ASSUME FinishedInv, DoneInv, oc.phase # "link", oc'.phase # "link",
           Finished' = Finished, oc'.done = oc.done, oc'.failed = oc.failed,
           UNCHANGED text, deps \subseteq deps',
           \A m \in Finished : /\ obj'[m] = obj[m] /\ smb'[m].content = smb[m].content
                               /\ m \in missed' <=> m \in missed
    PROVE  FinishedInv' /\ DoneInv' /\ LinkInv'
  <1>1. FinishedInv'
    BY StaysMade DEF FinishedInv
  <1>2. Ready = Finished /\ Ready' = Finished
    BY DEF Ready
  <1>3. DoneInv'
    BY <1>2 DEF DoneInv
  <1>4. LinkInv'
    BY DEF LinkInv
  <1> QED
    BY <1>1, <1>3, <1>4

LEMMA VisitInv ==
    ASSUME Acyclic, DriverInv, Visit
    PROVE  DriverInv'
  <1>1. oc.phase = "ensure"
    BY DEF Visit
  <1>2. /\ TypeOK /\ FilesInv /\ CallsInv /\ FinishedInv /\ DoneInv /\ LinkInv
        /\ oc.entry \in Module /\ oc.stack # << >> /\ oc.link
    BY <1>1, Busy
  <1>3. /\ UNCHANGED <<text, smb, deps, obj, clock, missed>>
        /\ \/ oc' = Idle
           \/ /\ oc'.entry = oc.entry /\ oc'.link = oc.link /\ oc'.phase = oc.phase
              /\ oc'.done = oc.done /\ oc'.failed = oc.failed
              /\ oc.stack[Len(oc.stack)].next <= Len(Imports[Unit])
              /\ \E m \in Module, past \in Seq([unit : Module, next : Nat \ {0}]) :
                    /\ m = Imports[Unit][oc.stack[Len(oc.stack)].next]
                    /\ past = [oc.stack EXCEPT ![Len(oc.stack)].next = @ + 1]
                    /\ \/ /\ m \in oc.visited /\ oc'.stack = past
                          /\ oc'.visited = oc.visited
                       \/ /\ m \notin oc.visited /\ oc'.stack = Enter(past, m)
                          /\ oc'.visited = oc.visited \cup {m}
        /\ TypeOK'
    BY <1>2, VisitFacts
  <1>4. FilesInv'
    BY <1>2, <1>3, SameFiles
  <1>5. CASE oc' = Idle
    BY <1>3, <1>4, <1>5, IdleType DEF DriverInv, RunInv
  <1>6. ASSUME oc' # Idle
        PROVE  CallsInv' /\ Finished' = Finished
    <2>1. PICK m \in Module, past \in Seq([unit : Module, next : Nat \ {0}]) :
                    /\ m = Imports[Unit][oc.stack[Len(oc.stack)].next]
                    /\ past = [oc.stack EXCEPT ![Len(oc.stack)].next = @ + 1]
                    /\ \/ /\ m \in oc.visited /\ oc'.stack = past
                          /\ oc'.visited = oc.visited
                       \/ /\ m \notin oc.visited /\ oc'.stack = Enter(past, m)
                          /\ oc'.visited = oc.visited \cup {m}
      BY <1>3, <1>6
    <2>2. /\ oc'.entry = oc.entry /\ oc'.link = oc.link /\ oc'.phase = oc.phase
          /\ oc.stack[Len(oc.stack)].next <= Len(Imports[Unit])
      BY <1>3, <1>6
    <2>3. CASE m \in oc.visited /\ oc'.stack = past /\ oc'.visited = oc.visited
      BY <1>1, <1>2, <2>1, <2>2, <2>3, PastCalls
    <2>4. CASE /\ m \notin oc.visited /\ oc'.stack = Enter(past, m)
               /\ oc'.visited = oc.visited \cup {m}
      <3>1. m \in Range(Imports[Unit])
        <4>1. oc.stack[Len(oc.stack)].next \in Nat \ {0} /\ Unit \in Module
          BY <1>2, UnitType
        <4>2. /\ Len(Imports[Unit]) \in Nat
              /\ Range(Imports[Unit]) = {Imports[Unit][n] : n \in 1 .. Len(Imports[Unit])}
          BY <4>1, ImportsType
        <4>3. PICK n : n = oc.stack[Len(oc.stack)].next
          OBVIOUS
        <4>4. n \in Nat \ {0} /\ n <= Len(Imports[Unit]) /\ m = Imports[Unit][n]
          BY <2>1, <2>2, <4>1, <4>3
        <4>5. n \in 1 .. Len(Imports[Unit])
          BY <4>2, <4>4
        <4> QED
          BY <4>2, <4>4, <4>5
      <3>2. /\ Len(past) = Len(oc.stack)
            /\ \A k \in 1 .. Len(past) :
                  /\ past[k].unit = oc.stack[k].unit
                  /\ past[k].next = IF k = Len(past) THEN oc.stack[k].next + 1
                                    ELSE oc.stack[k].next
        BY <1>2, <2>1, PastType
      <3>3. Deeper(oc.stack, Enter(past, m), m)
        BY <3>2, EnterShape
      <3> QED
        BY <1>1, <1>2, <2>1, <2>2, <2>4, <3>1, <3>3, EnterCalls
    <2> QED
      BY <2>1, <2>3, <2>4
  <1>7. CASE oc' # Idle
    <2>1. oc'.phase = "ensure" /\ oc'.done = oc.done /\ oc'.failed = oc.failed /\ oc'.entry \in Module
      BY <1>1, <1>2, <1>3, <1>7
    <2>2. FinishedInv' /\ DoneInv' /\ LinkInv'
      BY <1>1, <1>2, <1>3, <1>6, <1>7, <2>1, SameDone
    <2> QED
      BY <1>3, <1>4, <1>6, <1>7, <2>1, <2>2 DEF DriverInv, RunInv
  <1> QED
    BY <1>5, <1>7
(* A module that is not out of date is made. *)
LEMMA UpToDate ==
    ASSUME TypeOK, FilesInv, NEW m \in Module, ~needs_compile(m)
    PROVE  Made(m)
  <1>1. Exists(obj[m]) /\ ~(text[m].time > obj[m].time)
    BY DEF needs_compile
  <1>2. text[m].time \in Nat /\ obj[m].time \in Nat
    BY DEF TypeOK
  <1> QED
    BY <1>1, <1>2 DEF FilesInv, Made

LEMMA EnsureInv ==
    ASSUME Acyclic, DriverInv, Ensure
    PROVE  DriverInv'
  <1>1. oc.phase = "ensure"
    BY DEF Ensure
  <1>2. /\ TypeOK /\ FilesInv /\ CallsInv /\ FinishedInv /\ DoneInv /\ LinkInv
        /\ oc.entry \in Module /\ oc.stack # << >> /\ oc.link
    BY <1>1, Busy
  <1>3. /\ UNCHANGED <<text, smb, deps, obj, clock, missed>>
        /\ oc.stack[Len(oc.stack)].next > Len(Imports[Unit])
        /\ oc'.entry = oc.entry /\ oc'.link = oc.link
        /\ oc'.done = oc.done /\ oc'.failed = oc.failed /\ oc'.visited = oc.visited
        /\ \/ oc'.phase = "import" /\ oc'.stack = oc.stack
           \/ /\ oc'.phase = "ensure" /\ oc'.stack = Return(oc.stack)
              /\ Len(oc.stack) # 1 /\ ~needs_compile(Unit)
        /\ TypeOK'
    BY <1>2, EnsureFacts
  <1>4. FilesInv'
    BY <1>2, <1>3, SameFiles
  <1>5. CASE oc'.phase = "import" /\ oc'.stack = oc.stack
    <2>1. CallsInv' /\ Finished' = Finished
      BY <1>2, <1>3, <1>5, SameCalls
    <2>2. FinishedInv' /\ DoneInv' /\ LinkInv'
      BY <1>1, <1>2, <1>3, <1>5, <2>1, SameDone
    <2> QED
      BY <1>2, <1>3, <1>4, <2>1, <2>2 DEF DriverInv, RunInv
  <1>6. CASE /\ oc'.phase = "ensure" /\ oc'.stack = Return(oc.stack)
             /\ Len(oc.stack) # 1 /\ ~needs_compile(Unit)
    <2>1. Len(oc.stack) > 1 /\ Unit \in Module
      <3>1. Len(oc.stack) \in Nat \ {0} /\ Unit \in Module
        BY <1>2, UnitType
      <3>2. Len(oc.stack) # 1
        BY <1>6
      <3> QED
        BY <3>1, <3>2, OneOrMore
    <2>2. CallsInv' /\ Finished' = Finished \cup {Unit}
      BY <1>2, <1>3, <1>6, <2>1, ReturnCalls
    <2>3. Range(Imports[Unit]) \subseteq Finished
      BY <1>2, <1>3, ImportsFinished
    <2>4. Made(Unit)
      BY <1>2, <1>6, <2>1, UpToDate
    <2>5. FinishedInv'
      BY <1>2, <1>3, <2>2, <2>3, <2>4 DEF FinishedInv, Made, Exists
    <2>6. DoneInv'
      <3>1. Ready = Finished /\ Ready' = Finished'
        BY <1>1, <1>6 DEF Ready
      <3> QED
        BY <1>2, <1>3, <2>2, <3>1 DEF DoneInv
    <2>7. LinkInv'
      BY <1>6 DEF LinkInv
    <2> QED
      BY <1>2, <1>3, <1>4, <2>2, <2>5, <2>6, <2>7 DEF DriverInv, RunInv
  <1> QED
    BY <1>3, <1>5, <1>6

LEMMA ImportInv ==
    ASSUME DriverInv, Import
    PROVE  DriverInv'
  <1>1. oc.phase = "import"
    BY DEF Import
  <1>2. /\ TypeOK /\ FilesInv /\ CallsInv /\ FinishedInv /\ DoneInv /\ LinkInv
        /\ oc.entry \in Module /\ oc.stack # << >>
    BY <1>1, Busy
  <1>3. /\ UNCHANGED <<text, smb, deps, obj, clock, missed>>
        /\ \/ oc' = Idle
           \/ /\ oc'.phase = "export" /\ oc'.stack = oc.stack /\ oc'.entry = oc.entry
              /\ oc'.link = oc.link /\ oc'.done = oc.done /\ oc'.failed = oc.failed /\ oc'.visited = oc.visited
        /\ TypeOK'
    BY <1>2, ImportFacts
  <1>4. FilesInv'
    BY <1>2, <1>3, SameFiles
  <1>5. CASE oc' = Idle
    BY <1>3, <1>4, <1>5, IdleType DEF DriverInv, RunInv
  <1>6. CASE /\ oc'.phase = "export" /\ oc'.stack = oc.stack /\ oc'.entry = oc.entry
             /\ oc'.link = oc.link /\ oc'.done = oc.done /\ oc'.failed = oc.failed /\ oc'.visited = oc.visited
    <2>1. CallsInv' /\ Finished' = Finished
      BY <1>1, <1>2, <1>6, SameCalls
    <2>2. FinishedInv' /\ DoneInv' /\ LinkInv'
      BY <1>1, <1>2, <1>3, <1>6, <2>1, SameDone
    <2> QED
      BY <1>2, <1>3, <1>4, <1>6, <2>1, <2>2 DEF DriverInv, RunInv
  <1> QED
    BY <1>3, <1>5, <1>6

LEMMA ExportInv ==
    ASSUME DriverInv, Export
    PROVE  DriverInv'
  <1>1. oc.phase = "export"
    BY DEF Export
  <1>2. /\ TypeOK /\ FilesInv /\ CallsInv /\ FinishedInv /\ DoneInv /\ LinkInv
        /\ oc.entry \in Module /\ oc.stack # << >>
    BY <1>1, Busy
  <1>3. /\ UNCHANGED <<text, deps, obj, clock, missed>>
        /\ oc'.phase = "key" /\ oc'.stack = oc.stack /\ oc'.entry = oc.entry
        /\ oc'.link = oc.link /\ oc'.done = oc.done /\ oc'.failed = oc.failed /\ oc'.visited = oc.visited
        /\ \A m \in Module : m # Unit => smb'[m] = smb[m]
        /\ TypeOK'
    BY <1>2, ExportFacts
  <1>4. FilesInv'
    BY <1>2, <1>3, SameFiles
  <1>5. CallsInv' /\ Finished' = Finished
    BY <1>1, <1>2, <1>3, SameCalls
  <1>6. \A m \in Finished : smb'[m].content = smb[m].content
    <2>1. Unit \notin Finished /\ Finished \subseteq Module
      BY <1>2, UnitOnStack DEF Finished, TypeOK
    <2> QED
      BY <1>3, <2>1
  <1>7. FinishedInv' /\ DoneInv' /\ LinkInv'
    BY <1>1, <1>2, <1>3, <1>5, <1>6, SameDone
  <1> QED
    BY <1>2, <1>3, <1>4, <1>5, <1>7 DEF DriverInv, RunInv

LEMMA KeyInv ==
    ASSUME DriverInv, Key
    PROVE  DriverInv'
  <1>1. oc.phase = "key"
    BY DEF Key
  <1>2. /\ TypeOK /\ FilesInv /\ CallsInv /\ FinishedInv /\ DoneInv /\ LinkInv
        /\ oc.entry \in Module /\ oc.stack # << >>
    BY <1>1, Busy
  <1>3. /\ UNCHANGED <<text, deps, obj, clock, missed>>
        /\ \A m \in Module : smb'[m].content = smb[m].content
        /\ \/ oc' = Idle
           \/ /\ oc'.phase = "close" /\ oc'.stack = oc.stack /\ oc'.entry = oc.entry
              /\ oc'.link = oc.link /\ oc'.done = oc.done /\ oc'.failed = oc.failed /\ oc'.visited = oc.visited
        /\ TypeOK'
    BY <1>2, KeyFacts
  <1>4. FilesInv'
    BY <1>2, <1>3, SameFiles
  <1>5. CASE oc' = Idle
    BY <1>3, <1>4, <1>5, IdleType DEF DriverInv, RunInv
  <1>6. CASE /\ oc'.phase = "close" /\ oc'.stack = oc.stack /\ oc'.entry = oc.entry
             /\ oc'.link = oc.link /\ oc'.done = oc.done /\ oc'.failed = oc.failed /\ oc'.visited = oc.visited
    <2>1. CallsInv' /\ Finished' = Finished
      BY <1>1, <1>2, <1>6, SameCalls
    <2>2. \A m \in Finished : smb'[m].content = smb[m].content
      <3>1. Finished \subseteq Module
        BY <1>2 DEF Finished, TypeOK
      <3> QED
        BY <1>3, <3>1
    <2>3. FinishedInv' /\ DoneInv' /\ LinkInv'
      BY <1>1, <1>2, <1>3, <1>6, <2>1, <2>2, SameDone
    <2> QED
      BY <1>2, <1>3, <1>4, <1>6, <2>1, <2>3 DEF DriverInv, RunInv
  <1> QED
    BY <1>3, <1>5, <1>6
(* The files of the unit alone change. *)
LEMMA UnitFiles ==
    ASSUME TypeOK, FilesInv, oc.stack # << >>, UNCHANGED <<text, clock>>,
           deps' \in {deps, deps \cup {Unit}},
           \A m \in Module : m # Unit => obj'[m] = obj[m] /\ (m \in missed' <=> m \in missed),
           obj'[Unit].time = clock, DOMAIN obj'[Unit].seen \subseteq Range(Imports[Unit]),
           obj'[Unit].version = text[Unit].version \/ Unit \in missed', Unit \in deps'
    PROVE  FilesInv'
  <1> SUFFICES ASSUME NEW m \in Module
               PROVE  /\ text'[m].time <= clock' /\ obj'[m].time <= clock'
                      /\ DOMAIN obj'[m].seen \subseteq Range(Imports[m])
                      /\ Exists(obj'[m]) => /\ \/ obj'[m].version = text'[m].version
                                               \/ obj'[m].time < text'[m].time
                                               \/ m \in missed'
                                            /\ m \in deps'
    BY DEF FilesInv
  <1>1. /\ text[m].time <= clock /\ obj[m].time <= clock
        /\ DOMAIN obj[m].seen \subseteq Range(Imports[m])
        /\ Exists(obj[m]) => /\ \/ obj[m].version = text[m].version
                                \/ obj[m].time < text[m].time
                                \/ m \in missed
                             /\ m \in deps
    BY DEF FilesInv
  <1>2. clock \in Nat \ {0} /\ clock <= clock
    BY DEF TypeOK
  <1>3. CASE m = Unit
    BY <1>1, <1>2, <1>3
  <1>4. CASE m # Unit
    BY <1>1, <1>4
  <1> QED
    BY <1>3, <1>4

(* What the run compiled before the unit still agrees, and so does the unit  *)
(* when it is among what it compiled. *)
LEMMA FinishDone ==
    ASSUME DoneInv, oc.phase # "link", UNCHANGED smb,
           Finished \subseteq Finished', Unit \in Ready', Finished \subseteq Ready',
           \A m \in Finished : obj'[m] = obj[m],
           \/ oc'.done = oc.done
           \/ /\ oc'.done = oc.done \cup {Unit}
              /\ Range(Imports[Unit]) \subseteq Finished
              /\ obj'[Unit].seen = [i \in Range(Imports[Unit]) |-> smb[i].content]
    PROVE  DoneInv'
  <1>1. /\ oc.done \subseteq Finished
        /\ \A m \in oc.done : \A i \in DOMAIN obj[m].seen :
              i \in Finished /\ obj[m].seen[i] = smb[i].content
    BY DEF DoneInv, Ready
  <1>2. oc'.done \subseteq Ready'
    BY <1>1
  <1>3. \A m \in oc.done : \A i \in DOMAIN obj'[m].seen :
              i \in Finished' /\ obj'[m].seen[i] = smb'[i].content
    BY <1>1
  <1>4. Unit \in oc'.done /\ Unit \notin oc.done =>
           \A i \in DOMAIN obj'[Unit].seen :
              i \in Finished' /\ obj'[Unit].seen[i] = smb'[i].content
    OBVIOUS
  <1> QED
    BY <1>2, <1>3, <1>4 DEF DoneInv

(* The unit is made, and the run has done with it. *)
LEMMA FinishInv ==
    ASSUME Acyclic, DriverInv, oc.phase \in {"close", "emit"},
           NEW done, NEW failed, Finishes(done, failed), TypeOK', FilesInv',
           UNCHANGED <<text, smb>>, deps \subseteq deps', oc.failed \subseteq failed,
           \A m \in Module : m # Unit => obj'[m] = obj[m] /\ (m \in missed' <=> m \in missed),
           \/ done = oc.done
           \/ /\ done = oc.done \cup {Unit}
              /\ obj'[Unit].seen = [i \in Range(Imports[Unit]) |-> smb[i].content],
           Unit \in deps',
           Unit \in failed \/ (Exists(obj'[Unit]) /\ obj'[Unit].version = text[Unit].version)
    PROVE  DriverInv'
  <1>2. /\ TypeOK /\ FilesInv /\ CallsInv /\ FinishedInv /\ DoneInv /\ LinkInv
        /\ oc.entry \in Module /\ oc.stack # << >>
    BY Busy
  <1>3. oc.phase # "link" /\ oc.phase # "ensure" /\ oc.phase # "idle"
    OBVIOUS
  <1>5. CASE oc' = Idle
    BY <1>5, IdleType DEF DriverInv, RunInv
  <1>6. /\ Unit \in Module /\ Unit \notin Finished /\ Finished \subseteq Module
    <2>1. oc.visited \subseteq Module
      BY <1>2 DEF TypeOK
    <2> QED
      BY <1>2, <2>1, UnitOnStack, UnitType DEF Finished
  <1>7. ASSUME oc'.failed = failed
        PROVE  /\ \A m \in Finished \cup {Unit} : Made(m)'
               /\ \A m \in Finished : obj'[m] = obj[m]
    <2>1. ASSUME NEW m, m = Unit PROVE Made(m)'
      <3>1. /\ m \in deps'
            /\ \/ m \in oc'.failed
               \/ Exists(obj'[m]) /\ (obj'[m].version = text'[m].version \/ m \in missed')
        BY <1>7, <2>1
      <3> QED
        BY <3>1 DEF Made, Exists
    <2>2. ASSUME NEW m \in Finished PROVE Made(m)' /\ obj'[m] = obj[m]
      <3>1. Made(m) /\ m # Unit /\ m \in Module
        BY <1>2, <1>6 DEF FinishedInv
      <3>2. obj'[m] = obj[m] /\ (m \in missed' <=> m \in missed)
        BY <3>1
      <3>3. oc.failed \subseteq oc'.failed
        BY <1>7
      <3> QED
        BY <3>1, <3>2, <3>3, StaysMade
    <2> QED
      BY <2>1, <2>2
  <1>8. CASE /\ oc'.entry = oc.entry /\ oc'.link = oc.link
             /\ oc'.done = done /\ oc'.failed = failed /\ oc'.visited = oc.visited
             /\ Len(oc.stack) > 1
             /\ oc'.phase = "ensure" /\ oc'.stack = Return(oc.stack)
    <2>1. oc.link /\ oc.stack[Len(oc.stack)].next > Len(Imports[Unit])
      <3>1. ~oc.link => Len(oc.stack) = 1
        BY <1>2 DEF CallsInv
      <3>2. oc.link
        <4>1. Len(oc.stack) \in Nat \ {0} /\ Len(oc.stack) > 1
          BY <1>2, <1>8, UnitType
        <4> QED
          BY <3>1, <4>1, OneOrMore
      <3> QED
        BY <1>3, <1>2, <3>2 DEF CallsInv
    <2>2. CallsInv' /\ Finished' = Finished \cup {Unit}
      BY <1>2, <1>8, <2>1, ReturnCalls
    <2>3. Range(Imports[Unit]) \subseteq Finished
      BY <1>2, <2>1, ImportsFinished
    <2>4. FinishedInv'
      <3>1. \A m \in Finished \cup {Unit} : Made(m)'
        BY <1>7, <1>8
      <3>2. \A m \in Finished : Range(Imports[m]) \subseteq Finished
        BY <1>2 DEF FinishedInv
      <3>3. \A m \in Finished \cup {Unit} :
               Made(m)' /\ Range(Imports[m]) \subseteq Finished \cup {Unit}
        BY <2>3, <3>1, <3>2
      <3> QED
        BY <2>2, <3>3 DEF FinishedInv
    <2>5. DoneInv'
      <3>1. Ready' = Finished \cup {Unit}
        BY <1>8, <2>2 DEF Ready
      <3>2. \A m \in Finished : obj'[m] = obj[m]
        BY <1>7, <1>8
      <3> QED
        BY <1>3, <1>2, <1>8, <2>2, <2>3, <3>1, <3>2, FinishDone
    <2>6. LinkInv'
      BY <1>8 DEF LinkInv
    <2> QED
      BY <1>2, <1>8, <2>2, <2>4, <2>5, <2>6 DEF DriverInv, RunInv
  <1>9. CASE /\ oc'.entry = oc.entry /\ oc'.link = oc.link
             /\ oc'.done = done /\ oc'.failed = failed /\ oc'.visited = oc.visited
             /\ Len(oc.stack) = 1 /\ oc.link
             /\ oc'.phase = "link" /\ oc'.stack = oc.stack
             /\ oc'.queue = {Unit} /\ oc'.modules = {}
    <2>1. Unit = oc.entry /\ oc.stack[Len(oc.stack)].next > Len(Imports[Unit])
      BY <1>3, <1>2, <1>9 DEF CallsInv, Unit
    <2>2. Unit' = Unit /\ Finished' = Finished
      BY <1>9 DEF Unit, Finished, OnStack
    <2>3. CallsInv'
      BY <1>3, <1>2, <1>9, <2>1, <2>2 DEF CallsInv
    <2>4. Range(Imports[Unit]) \subseteq Finished
      BY <1>2, <2>1, ImportsFinished
    <2>5. FinishedInv'
      <3>1. \A m \in Finished : Made(m)'
        BY <1>7, <1>9
      <3>2. \A m \in Finished : Range(Imports[m]) \subseteq Finished
        BY <1>2 DEF FinishedInv
      <3> QED
        BY <2>2, <3>1, <3>2 DEF FinishedInv
    <2>6. Ready' = Finished \cup {oc.entry}
      BY <1>9, <2>2 DEF Ready
    <2>7. DoneInv'
      <3>1. \A m \in Finished : obj'[m] = obj[m]
        BY <1>7, <1>9
      <3> QED
        BY <1>3, <1>2, <1>9, <2>1, <2>2, <2>4, <2>6, <3>1, FinishDone
    <2>8. LinkInv'
      <3>1. Made(oc.entry)'
        <4>1. \A m : m = Unit => Made(m)'
          BY <1>7, <1>9
        <4>2. oc'.entry = oc.entry /\ oc.entry = Unit
          BY <1>9, <2>1
        <4> QED
          BY <4>1, <4>2 DEF Made
      <3> QED
        BY <1>9, <2>1, <2>2, <2>4, <2>6, <3>1 DEF LinkInv
    <2> QED
      BY <1>2, <1>9, <2>3, <2>5, <2>7, <2>8 DEF DriverInv, RunInv
  <1> QED
    BY <1>5, <1>8, <1>9 DEF Finishes

LEMMA CloseInv ==
    ASSUME Acyclic, DriverInv, Close
    PROVE  DriverInv'
  <1>1. oc.phase = "close"
    BY DEF Close
  <1>2. /\ TypeOK /\ FilesInv /\ CallsInv /\ FinishedInv /\ DoneInv /\ LinkInv
        /\ oc.entry \in Module /\ oc.stack # << >>
    BY <1>1, Busy
  <1>3. /\ UNCHANGED <<text, smb, clock>> /\ Unit \in Module /\ deps' = deps \cup {Unit}
        /\ TypeOK'
    BY <1>2, CloseFacts
  <1>4. CASE /\ \A m \in Module : m # Unit => obj'[m] = obj[m]
             /\ obj'[Unit].time = clock /\ obj'[Unit].seen = << >>
             /\ missed' = missed \cup {Unit}
             /\ oc'.phase = "emit" /\ oc'.stack = oc.stack /\ oc'.entry = oc.entry
             /\ oc'.link = oc.link /\ oc'.visited = oc.visited
             /\ oc'.done = oc.done /\ oc'.failed = oc.failed
    <2>1. /\ \A m \in Module : m # Unit => obj'[m] = obj[m] /\ (m \in missed' <=> m \in missed)
          /\ Unit \in missed' /\ DOMAIN obj'[Unit].seen \subseteq Range(Imports[Unit])
      BY <1>4
    <2>2. FilesInv'
      BY <1>2, <1>3, <1>4, <2>1, UnitFiles
    <2>3. CallsInv' /\ Finished' = Finished
      BY <1>1, <1>2, <1>4, SameCalls
    <2>4. \A m \in Finished : /\ obj'[m] = obj[m] /\ smb'[m].content = smb[m].content
                              /\ m \in missed' <=> m \in missed
      <3>1. Unit \notin Finished /\ Finished \subseteq Module
        BY <1>2, UnitOnStack DEF Finished, TypeOK
      <3> QED
        BY <1>3, <2>1, <3>1
    <2>5. FinishedInv' /\ DoneInv' /\ LinkInv'
      BY <1>1, <1>2, <1>3, <1>4, <2>3, <2>4, SameDone
    <2>6. Unit' \in deps' /\ oc'.entry \in Module
      <3>1. Unit' = Unit
        BY <1>4 DEF Unit
      <3> QED
        BY <1>2, <1>3, <1>4, <3>1
    <2> QED
      BY <1>3, <2>2, <2>3, <2>5, <2>6 DEF DriverInv, RunInv
  <1>5. CASE UNCHANGED <<obj, missed>> /\ Finishes(oc.done, oc.failed \cup {Unit})
    <2>1. FilesInv'
      BY <1>2, <1>3, <1>5 DEF FilesInv, Exists
    <2>2. /\ UNCHANGED <<text, smb>> /\ deps \subseteq deps'
          /\ oc.failed \subseteq oc.failed \cup {Unit} /\ Unit \in oc.failed \cup {Unit}
          /\ \A m \in Module : m # Unit => obj'[m] = obj[m] /\ (m \in missed' <=> m \in missed)
          /\ Unit \in deps'
      BY <1>3, <1>5
    <2> QED
      BY <1>1, <1>3, <1>5, <2>1, <2>2, FinishInv
  <1> QED
    BY <1>2, <1>4, <1>5, CloseFacts

LEMMA EmitInv ==
    ASSUME Acyclic, DriverInv, Emit
    PROVE  DriverInv'
  <1>1. oc.phase = "emit"
    BY DEF Emit
  <1>2. /\ TypeOK /\ FilesInv /\ oc.stack # << >>
    BY <1>1, Busy
  <1>3. /\ UNCHANGED <<text, smb, deps, clock>>
        /\ Unit \in Module /\ missed' = missed \ {Unit}
        /\ \A m \in Module : m # Unit => obj'[m] = obj[m]
        /\ obj'[Unit].version = text[Unit].version /\ obj'[Unit].time = clock
        /\ obj'[Unit].seen = [i \in Range(Imports[Unit]) |-> smb[i].content]
        /\ Finishes(oc.done \cup {Unit}, oc.failed)
        /\ TypeOK'
    BY <1>2, EmitFacts
  <1>4. Unit \in deps
    BY <1>1 DEF DriverInv, RunInv
  <1>5. /\ \A m \in Module : m # Unit => obj'[m] = obj[m] /\ (m \in missed' <=> m \in missed)
        /\ DOMAIN obj'[Unit].seen \subseteq Range(Imports[Unit])
        /\ Unit \in deps' /\ deps' \in {deps, deps \cup {Unit}} /\ deps \subseteq deps'
    BY <1>3, <1>4
  <1>6. FilesInv'
    BY <1>2, <1>3, <1>5, UnitFiles
  <1>7. Exists(obj'[Unit])
    BY <1>2, <1>3 DEF TypeOK, Exists
  <1> QED
    BY <1>1, <1>3, <1>5, <1>6, <1>7, FinishInv

(* The scope of a module that is ready is finished. *)
LEMMA ScopeFinished ==
    ASSUME TypeOK, FinishedInv, LinkInv, oc.phase = "link", NEW m \in Ready,
           oc.entry \in Module
    PROVE  /\ m \in Module /\ Made(m) /\ Range(Imports[m]) \subseteq Finished
           /\ Scope(m) \subseteq Finished /\ Listed(m) \subseteq Finished
  <1>1. Finished \subseteq Module
    BY DEF Finished, TypeOK
  <1>2. m \in Finished \cup {oc.entry}
    BY DEF Ready
  <1>3. m \in Module /\ Made(m) /\ Range(Imports[m]) \subseteq Finished
    BY <1>1, <1>2 DEF FinishedInv, LinkInv
  <1>4. \A i \in Finished : Exposes[i] \subseteq Finished
    BY <1>1, MakeAssumption DEF FinishedInv
  <1>5. Scope(m) \subseteq Finished
    BY <1>3, <1>4 DEF Scope
  <1> QED
    BY <1>3, <1>5 DEF Listed

LEMMA FollowInv ==
    ASSUME DriverInv, Follow
    PROVE  DriverInv'
  <1>1. oc.phase = "link"
    BY DEF Follow
  <1>2. /\ TypeOK /\ FilesInv /\ CallsInv /\ FinishedInv /\ DoneInv /\ LinkInv
        /\ oc.entry \in Module /\ oc.stack # << >>
    BY <1>1, Busy
  <1>3. /\ UNCHANGED <<text, smb, deps, obj, clock, missed>>
        /\ oc'.phase = "link" /\ oc'.stack = oc.stack /\ oc'.entry = oc.entry
        /\ oc'.link = oc.link /\ oc'.done = oc.done /\ oc'.failed = oc.failed /\ oc'.visited = oc.visited
        /\ TypeOK'
    BY <1>2, FollowFacts
  <1>0. PICK m \in oc.queue \ oc.modules : \E lines \in SUBSET (Listed(m) \ oc.queue) :
            oc'.modules = oc.modules \cup {m} /\ oc'.queue = oc.queue \cup lines
    BY <1>2, FollowFacts
  <1>4. PICK lines \in SUBSET (Listed(m) \ oc.queue) :
            oc'.modules = oc.modules \cup {m} /\ oc'.queue = oc.queue \cup lines
    BY <1>0
  <1>5. FilesInv'
    BY <1>2, <1>3, SameFiles
  <1>6. CallsInv' /\ Finished' = Finished
    BY <1>1, <1>2, <1>3, SameCalls
  <1>7. Ready' = Ready
    BY <1>1, <1>3, <1>6 DEF Ready
  <1>8. FinishedInv' /\ DoneInv'
    BY <1>2, <1>3, <1>6, <1>7 DEF FinishedInv, DoneInv, Made, Exists
  <1>9. \A k : Listed(k)' = Listed(k)
    BY <1>3 DEF Listed, Scope
  <1>10. LinkInv'
    <2>1. /\ Made(oc.entry) /\ Range(Imports[oc.entry]) \subseteq Finished
          /\ oc.entry \in oc.queue /\ oc.modules \subseteq oc.queue
          /\ oc.queue \subseteq Ready
          /\ \A k \in oc.queue : k # oc.entry => \E j \in oc.modules : k \in Listed(j)
      BY <1>1, <1>2 DEF LinkInv
    <2>2. lines \subseteq Ready
      <3>1. Listed(m) \subseteq Finished
        BY <1>1, <1>2, <2>1, ScopeFinished
      <3> QED
        BY <3>1 DEF Ready
    <2>3. Made(oc.entry)'
      BY <1>3, <2>1 DEF Made, Exists
    <2>4. \A k \in oc'.queue : k # oc.entry => \E j \in oc'.modules : k \in Listed(j)
      BY <1>4, <2>1
    <2>5. \A k \in oc'.queue : k # oc'.entry => \E j \in oc'.modules : k \in Listed(j)'
      BY <1>3, <1>9, <2>4
    <2> QED
      BY <1>3, <1>4, <1>6, <1>7, <2>1, <2>2, <2>3, <2>5 DEF LinkInv
  <1> QED
    BY <1>2, <1>3, <1>5, <1>6, <1>8, <1>10 DEF DriverInv, RunInv

LEMMA EditInv ==
    ASSUME DriverInv, NEW m \in Module, NEW change \in BOOLEAN, NEW ok \in BOOLEAN,
           Edit(m, change, ok)
    PROVE  DriverInv'
  <1>1. TypeOK /\ FilesInv
    BY DEF DriverInv
  <1>2. /\ oc.phase = "idle" /\ UNCHANGED <<smb, deps, obj, oc>>
        /\ clock' \in {clock, clock + 1} /\ text'[m].time = clock'
        /\ \A k \in Module : k # m => text'[k] = text[k] /\ (k \in missed' <=> k \in missed)
        /\ Exists(obj[m]) /\ obj[m].time = clock' => m \in missed'
        /\ TypeOK'
    BY <1>1, EditFacts
  <1>3. FilesInv'
    <2> SUFFICES ASSUME NEW k \in Module
                 PROVE  /\ text'[k].time <= clock' /\ obj'[k].time <= clock'
                        /\ DOMAIN obj'[k].seen \subseteq Range(Imports[k])
                        /\ Exists(obj'[k]) => /\ \/ obj'[k].version = text'[k].version
                                                 \/ obj'[k].time < text'[k].time
                                                 \/ k \in missed'
                                              /\ k \in deps'
      BY DEF FilesInv
    <2>1. /\ text[k].time <= clock /\ obj[k].time <= clock
          /\ DOMAIN obj[k].seen \subseteq Range(Imports[k])
          /\ Exists(obj[k]) => /\ \/ obj[k].version = text[k].version
                                  \/ obj[k].time < text[k].time
                                  \/ k \in missed
                               /\ k \in deps
      BY <1>1 DEF FilesInv
    <2>2. text[k].time \in Nat /\ obj[k].time \in Nat /\ clock \in Nat /\ obj' = obj /\ deps' = deps
      BY <1>1, <1>2 DEF TypeOK
    <2>3. CASE k = m
      <3>1. obj[k].time <= clock' /\ text'[k].time = clock'
        BY <1>2, <2>1, <2>2, <2>3
      <3>2. Exists(obj[k]) => obj[k].time < text'[k].time \/ k \in missed'
        BY <1>2, <2>2, <2>3, <3>1
      <3> QED
        BY <1>2, <2>1, <2>2, <2>3, <3>1, <3>2
    <2>4. CASE k # m
      <3>1. text'[k] = text[k] /\ (k \in missed' <=> k \in missed)
        BY <1>2, <2>4
      <3>2. text[k].time <= clock' /\ obj[k].time <= clock'
        BY <1>2, <2>1, <2>2
      <3> QED
        BY <2>1, <2>2, <3>1, <3>2
    <2> QED
      BY <2>3, <2>4
  <1>4. RunInv'
    BY <1>2 DEF RunInv
  <1> QED
    BY <1>2, <1>3, <1>4 DEF DriverInv

LEMMA StartInv ==
    ASSUME DriverInv, NEW m \in Module, NEW force \in BOOLEAN, NEW link \in BOOLEAN,
           Run(m, force, link)
    PROVE  DriverInv'
  <1>1. TypeOK /\ FilesInv
    BY DEF DriverInv
  <1>2. /\ UNCHANGED <<text, smb, deps, obj, clock, missed>>
        /\ oc'.phase = IF link THEN "ensure" ELSE "import"
        /\ oc'.entry = m /\ oc'.link = link /\ oc'.done = {} /\ oc'.visited = {}
        /\ Len(oc'.stack) = 1 /\ oc'.stack[1] = Call(m)
        /\ TypeOK'
    BY <1>1, RunFacts
  <1>3. FilesInv'
    BY <1>1, <1>2, SameFiles
  <1>4. oc'.stack[1].unit = m /\ oc'.stack[1].next = 1 /\ oc'.phase # "link"
    BY <1>2 DEF Call
  <1>5. CallsInv'
    BY <1>2, <1>4 DEF CallsInv
  <1>6. Finished' = {}
    BY <1>2 DEF Finished
  <1>7. FinishedInv' /\ DoneInv' /\ LinkInv'
    BY <1>2, <1>4, <1>6 DEF FinishedInv, DoneInv, LinkInv
  <1> QED
    BY <1>2, <1>3, <1>5, <1>7 DEF DriverInv, RunInv

LEMMA StopInv ==
    ASSUME DriverInv, Link \/ Kill
    PROVE  DriverInv'
  <1>1. TypeOK /\ FilesInv
    BY DEF DriverInv
  <1>2. oc' = Idle /\ UNCHANGED <<text, smb, deps, obj, clock, missed>>
    BY DEF Link, Kill, Fail
  <1>3. TypeOK' /\ oc'.phase = "idle"
    BY <1>1, <1>2, IdleFacts
  <1>4. FilesInv'
    BY <1>1, <1>2, SameFiles
  <1> QED
    BY <1>3, <1>4 DEF DriverInv, RunInv

LEMMA StutterInv == DriverInv /\ UNCHANGED vars => DriverInv'
  <1> SUFFICES ASSUME DriverInv, UNCHANGED vars PROVE DriverInv'
    OBVIOUS
  <1>1. UNCHANGED <<text, smb, deps, obj, clock, oc, missed>>
    BY DEF vars
  <1>2. TypeOK' /\ FilesInv'
    BY <1>1 DEF DriverInv, TypeOK, FilesInv, Exists
  <1>3. RunInv'
    BY <1>1 DEF DriverInv, RunInv, CallsInv, FinishedInv, DoneInv, LinkInv, Ready, Finished,
                OnStack, Made, Exists, Listed, Scope, Unit
  <1> QED
    BY <1>2, <1>3 DEF DriverInv

LEMMA StepInv == Acyclic /\ DriverInv /\ [Next]_vars => DriverInv'
  <1> SUFFICES ASSUME Acyclic, DriverInv, [Next]_vars PROVE DriverInv'
    OBVIOUS
  <1>1. ASSUME NEW m \in Module, NEW change \in BOOLEAN, NEW ok \in BOOLEAN,
               Edit(m, change, ok)
        PROVE  DriverInv'
    BY <1>1, EditInv
  <1>2. ASSUME NEW m \in Entries, NEW force \in BOOLEAN, NEW link \in BOOLEAN,
               Run(m, force, link)
        PROVE  DriverInv'
    BY <1>2, StartInv, MakeAssumption
  <1>3. CASE Visit
    BY <1>3, VisitInv
  <1>4. CASE Ensure
    BY <1>4, EnsureInv
  <1>5. CASE Import
    BY <1>5, ImportInv
  <1>6. CASE Export
    BY <1>6, ExportInv
  <1>7. CASE Key
    BY <1>7, KeyInv
  <1>8. CASE Close
    BY <1>8, CloseInv
  <1>12. CASE Emit
    BY <1>12, EmitInv
  <1>9. CASE Follow
    BY <1>9, FollowInv
  <1>10. CASE Link \/ Kill
    BY <1>10, StopInv
  <1>11. CASE UNCHANGED vars
    BY <1>11, StutterInv
  <1> QED
    BY <1>1, <1>2, <1>3, <1>4, <1>5, <1>6, <1>7, <1>8, <1>9, <1>10, <1>11, <1>12 DEF Next
(* The driver's invariant holds for every import graph without a cycle,      *)
(* whatever is edited, refused or killed. *)
THEOREM DriverAlways == ASSUME Acyclic PROVE Spec => []DriverInv
  <1>1. DriverInv /\ [Next]_vars => DriverInv'
    BY StepInv
  <1> QED
    BY <1>1, InitInv, PTL DEF Spec
(* What is linked was made from the texts there are, whatever was refused or *)
(* killed before, but for what was saved in the second of its object, was    *)
(* killed while it was written or could not be opened: every module of the   *)
(* closure is finished or the entry. *)
THEOREM FreshAlways == ASSUME Acyclic PROVE Spec => []FreshObjects
  <1>1. DriverInv => FreshObjects
    <2> SUFFICES ASSUME DriverInv, Linking, NEW m \in oc.modules \ (missed \cup oc.failed)
                 PROVE  Exists(obj[m]) /\ obj[m].version = text[m].version
      BY DEF FreshObjects
    <2>1. oc.phase = "link"
      BY DEF Linking
    <2>2. TypeOK /\ FinishedInv /\ LinkInv /\ oc.entry \in Module
      BY <2>1, Busy
    <2>3. m \in Ready
      BY <2>1, <2>2 DEF LinkInv
    <2>4. Made(m)
      BY <2>1, <2>2, <2>3, ScopeFinished
    <2> QED
      BY <2>4 DEF Made
  <1> QED
    BY <1>1, DriverAlways, PTL

(* A module compiled by this run saw the interfaces its imports have when    *)
(* the run links: no import is compiled after its importer.                  *)
THEOREM InOrderAlways == ASSUME Acyclic PROVE Spec => []CompiledInOrder
  <1>1. DriverInv => CompiledInOrder
    <2>1. ASSUME DriverInv, Linking PROVE DoneInv
      BY <2>1, Busy DEF Linking
    <2> QED
      BY <2>1 DEF CompiledInOrder, DoneInv
  <1> QED
    BY <1>1, DriverAlways, PTL

-----------------------------------------------------------------------------
(* The closure. *)

(* No line is dropped when the queue has room for every module there is.     *)
LEMMA FollowedStep ==
    ASSUME Cardinality(Module) <= MaxLinkMods, DriverInv, Followed, [Next]_vars
    PROVE  Followed'
  <1>1. TypeOK
    BY DEF DriverInv
  <1>2. CASE Follow
    <2>1. oc.phase = "link"
      BY <1>2 DEF Follow
    <2>2. oc.entry \in Module
      BY <2>1, Busy
    <2>3. /\ UNCHANGED deps /\ oc'.phase = "link" /\ oc'.entry = oc.entry
          /\ TypeOK'
      BY <1>1, <1>2, <2>2, FollowFacts
    <2>4. PICK m \in oc.queue \ oc.modules : \E lines \in SUBSET (Listed(m) \ oc.queue) :
              /\ oc'.modules = oc.modules \cup {m} /\ oc'.queue = oc.queue \cup lines
              /\ Cardinality(oc.queue \cup lines) < MaxLinkMods
                    => lines = Listed(m) \ oc.queue
      BY <1>1, <1>2, <2>2, FollowFacts
    <2>5. PICK lines \in SUBSET (Listed(m) \ oc.queue) :
              /\ oc'.modules = oc.modules \cup {m} /\ oc'.queue = oc.queue \cup lines
              /\ Cardinality(oc.queue \cup lines) < MaxLinkMods
                    => lines = Listed(m) \ oc.queue
      BY <2>4
    <2>6. \A k : Listed(k)' = Listed(k)
      BY <2>3 DEF Listed, Scope
    <2>7. Listed(m) \subseteq oc'.queue
      <3>1. CASE Cardinality(oc.queue \cup lines) < MaxLinkMods
        BY <2>5, <3>1
      <3>2. CASE ~(Cardinality(oc.queue \cup lines) < MaxLinkMods)
        <4>1. IsFiniteSet(Module) /\ MaxLinkMods \in Nat
          BY MakeAssumption
        <4>2. oc'.queue \subseteq Module
          BY <2>3 DEF TypeOK
        <4>3. /\ IsFiniteSet(oc'.queue) /\ Cardinality(oc'.queue) \in Nat
              /\ Cardinality(Module) \in Nat
          BY <4>1, <4>2, FS_Subset, FS_CardinalityType
        <4>4. Cardinality(oc'.queue) >= Cardinality(Module)
          BY <2>5, <3>2, <4>1, <4>3
        <4>5. Cardinality(oc'.queue) <= Cardinality(Module)
              /\ (Cardinality(oc'.queue) = Cardinality(Module) => oc'.queue = Module)
          BY <4>1, <4>2, FS_Subset
        <4>6. oc'.queue = Module
          BY <4>3, <4>4, <4>5
        <4>7. Listed(m) \subseteq Module
          <5>1. m \in Module
            BY <1>1 DEF TypeOK
          <5> QED
            BY <5>1, ImportsType DEF Listed
        <4> QED
          BY <4>6, <4>7
      <3> QED
        BY <3>1, <3>2
    <2>8. \A k \in oc'.modules : Listed(k) \subseteq oc'.queue
      BY <2>1, <2>5, <2>7 DEF Followed
    <2> QED
      BY <2>6, <2>8 DEF Followed
  <1>3. CASE Close \/ Emit
    <2>1. oc.stack # << >>
      BY <1>3, Busy DEF Close, Emit
    <2>2. oc'.phase # "link" \/ oc'.modules = {}
      BY <1>1, <1>3, <2>1, CloseFacts, EmitFacts, IdleType DEF Finishes
    <2> QED
      BY <2>2 DEF Followed
  <1>4. CASE ~Follow /\ ~Close /\ ~Emit
    <2>1. oc'.phase # "link" \/ UNCHANGED vars
      <3>1. ASSUME NEW m \in Module, NEW change \in BOOLEAN, NEW ok \in BOOLEAN,
                   Edit(m, change, ok)
            PROVE  oc'.phase # "link"
        BY <3>1 DEF Edit
      <3>2. ASSUME NEW m \in Module, NEW force \in BOOLEAN, NEW link \in BOOLEAN,
                   Run(m, force, link)
            PROVE  oc'.phase # "link"
        <4>1. oc'.phase = IF link THEN "ensure" ELSE "import"
          BY <1>1, <3>2, RunFacts
        <4> QED
          BY <4>1
      <3>3. CASE Visit \/ Ensure \/ Import \/ Export \/ Key
        <4>1. oc.phase \in {"ensure", "import", "export", "key"}
          BY <3>3 DEF Visit, Ensure, Import, Export, Key
        <4>2. oc.stack # << >>
          BY <4>1, Busy
        <4>3. CASE Visit
          BY <1>1, <4>2, <4>3, VisitFacts, IdleType
        <4>4. CASE Ensure
          BY <1>1, <4>2, <4>4, EnsureFacts, IdleType
        <4>5. CASE Import
          BY <1>1, <4>2, <4>5, ImportFacts, IdleType
        <4>6. CASE Export
          BY <1>1, <4>2, <4>6, ExportFacts, IdleType
        <4>7. CASE Key
          BY <1>1, <4>2, <4>7, KeyFacts, IdleType
        <4> QED
          BY <3>3, <4>3, <4>4, <4>5, <4>6, <4>7
      <3>4. CASE Link \/ Kill
        BY <3>4, IdleType DEF Link, Kill, Fail
      <3> QED
        BY <1>4, <3>1, <3>2, <3>3, <3>4, MakeAssumption DEF Next
    <2>2. CASE UNCHANGED vars
      <3>1. UNCHANGED <<deps, oc>>
        BY <2>2 DEF vars
      <3> QED
        BY <3>1 DEF Followed, Listed, Scope
    <2> QED
      BY <2>1, <2>2 DEF Followed
  <1> QED
    BY <1>2, <1>3, <1>4
(* What lists a module of the closure lists all it imports: its own list, or *)
(* for a runtime module the one it was found in. *)
LEMMA ImportsListed ==
    ASSUME RuntimeInScope, TypeOK, FinishedInv, LinkInv, FilesInv, Followed,
           oc.phase = "link", oc.entry \in Module, oc.queue = oc.modules,
           NEW m \in oc.modules
    PROVE  (Exists(obj[m]) \/ m \in oc.failed) /\ DOMAIN obj[m].seen \subseteq oc.modules
  <1>1. /\ \A k \in oc.modules : Listed(k) \subseteq oc.modules
        /\ \A k \in oc.modules : k # oc.entry => \E j \in oc.modules : k \in Listed(j)
        /\ oc.modules \subseteq Ready
    BY DEF Followed, LinkInv
  <1>2. \A k \in oc.modules :
           /\ k \in Module /\ (Exists(obj[k]) \/ k \in oc.failed) /\ k \in deps
           /\ DOMAIN obj[k].seen \subseteq Range(Imports[k])
    <2> SUFFICES ASSUME NEW k \in oc.modules
                 PROVE  /\ k \in Module /\ (Exists(obj[k]) \/ k \in oc.failed)
                        /\ k \in deps /\ DOMAIN obj[k].seen \subseteq Range(Imports[k])
      OBVIOUS
    <2>1. k \in Module /\ Made(k)
      BY <1>1, ScopeFinished
    <2> QED
      BY <2>1 DEF FilesInv, Made
  <1>3. Range(Imports[m]) \subseteq Scope(m)
    BY DEF Scope
  <1>4. CASE m \in Runtime <=> oc.entry \in Runtime
    <2>1. Listed(m) = Scope(m)
      BY <1>2, <1>4 DEF Listed
    <2> QED
      BY <1>1, <1>2, <1>3, <2>1
  <1>5. CASE ~(m \in Runtime <=> oc.entry \in Runtime)
    <2>1. PICK j \in oc.modules : m \in Listed(j)
      BY <1>1, <1>5
    <2>2. Listed(j) = Scope(j) /\ (j \in Runtime <=> oc.entry \in Runtime)
      BY <2>1 DEF Listed
    <2>3. m \in Runtime
      <3>1. ASSUME j \in Runtime PROVE m \in Runtime
        <4>1. Range(Imports[j]) \subseteq Runtime
          BY <3>1, MakeAssumption
        <4>2. \A i \in Range(Imports[j]) : Exposes[i] \subseteq Range(Imports[i])
                                           /\ Range(Imports[i]) \subseteq Runtime
          BY <4>1, MakeAssumption
        <4> QED
          BY <2>1, <2>2, <4>1, <4>2 DEF Scope
      <3> QED
        BY <1>5, <2>2, <3>1
    <2>4. j \in Module \ Runtime /\ m \in Scope(j) \cap Runtime
      BY <1>2, <1>5, <2>1, <2>2, <2>3
    <2>5. Range(Imports[m]) \subseteq Scope(j)
      BY <2>4 DEF RuntimeInScope
    <2> QED
      BY <1>1, <1>2, <2>2, <2>5
  <1> QED
    BY <1>4, <1>5

(* When the queue has room for every module and the scope of a program holds *)
(* what its runtime modules import, the link finds every module that an      *)
(* object it links initialises, and every object but one that could not be   *)
(* opened for writing. *)
THEOREM ClosesAlways ==
    ASSUME Acyclic, RuntimeInScope, Cardinality(Module) <= MaxLinkMods
    PROVE  Spec => []LinkCloses
  <1>1. Init => Followed
    BY DEF Init, Idle, Followed
  <1>2. DriverInv /\ Followed /\ [Next]_vars => Followed'
    BY FollowedStep
  <1>3. DriverInv /\ Followed => LinkCloses
    <2> SUFFICES ASSUME DriverInv, Followed, Linking, NEW m \in oc.modules
                 PROVE  /\ Exists(obj[m]) \/ m \in oc.failed
                        /\ DOMAIN obj[m].seen \subseteq oc.modules
      BY DEF LinkCloses
    <2>1. oc.phase = "link" /\ oc.queue = oc.modules
      BY DEF Linking
    <2>2. /\ TypeOK /\ FinishedInv /\ LinkInv /\ FilesInv /\ oc.entry \in Module
      BY <2>1, Busy
    <2> QED
      BY <2>1, <2>2, ImportsListed
  <1> QED
    BY <1>1, <1>2, <1>3, DriverAlways, PTL DEF Spec

-----------------------------------------------------------------------------
(* The keys. *)

KeyTrue == \A m \in Module : smb[m].key \in {NONE, smb[m].content}

KeyStep == TypeOK /\ KeyTrue /\ (oc.phase # "idle" => oc.stack # << >>)

LEMMA NotEmpty == \A s : Len(s) > 0 => s # << >>
  <1>1. Len(<< >>) = 0
    OBVIOUS
  <1> QED
    BY <1>1

(* A driver at work is always in some call. *)
LEMMA CallsRemain ==
    ASSUME TypeOK, oc.stack # << >>, Visit \/ Ensure \/ Import \/ Export \/ Key \/ Close \/ Emit
    PROVE  /\ oc' = Idle \/ oc'.stack # << >>
           /\ TypeOK'
  <1>1. Len(oc.stack) \in Nat \ {0} /\ oc.stack \in Seq([unit : Module, next : Nat \ {0}])
    BY UnitType DEF TypeOK
  <1>2. CASE Visit
    <2>1. /\ TypeOK'
          /\ \/ oc' = Idle
             \/ \E m \in Module, past \in Seq([unit : Module, next : Nat \ {0}]) :
                   /\ past = [oc.stack EXCEPT ![Len(oc.stack)].next = @ + 1]
                   /\ oc'.stack = past \/ oc'.stack = Enter(past, m)
      BY <1>2, VisitFacts
    <2>2. ASSUME oc' # Idle PROVE oc'.stack # << >>
      <3>1. PICK m \in Module, past \in Seq([unit : Module, next : Nat \ {0}]) :
                   /\ past = [oc.stack EXCEPT ![Len(oc.stack)].next = @ + 1]
                   /\ oc'.stack = past \/ oc'.stack = Enter(past, m)
        BY <2>1, <2>2
      <3>2. Len(past) = Len(oc.stack)
        BY <3>1, PastType
      <3>3. Len(Enter(past, m)) = Len(past) + 1
        BY AppendProperties DEF Enter
      <3>4. Len(oc'.stack) > 0
        BY <1>1, <3>1, <3>2, <3>3
      <3> QED
        BY <3>4, NotEmpty
    <2> QED
      BY <2>1, <2>2
  <1>3. CASE Ensure
    <2>1. /\ TypeOK' /\ (oc'.stack = oc.stack
                         \/ (oc'.stack = Return(oc.stack) /\ Len(oc.stack) # 1))
      BY <1>3, EnsureFacts
    <2>2. CASE oc'.stack = Return(oc.stack) /\ Len(oc.stack) # 1
      <3>1. Len(oc.stack) > 1
        BY <1>1, <2>2, OneOrMore
      <3>2. Len(oc'.stack) > 0
        BY <1>1, <2>2, <3>1, ReturnType
      <3> QED
        BY <2>1, <3>2, NotEmpty
    <2> QED
      BY <2>1, <2>2
  <1>4. CASE Import
    BY <1>4, ImportFacts
  <1>5. CASE Export
    BY <1>5, ExportFacts
  <1>6. CASE Key
    BY <1>6, KeyFacts
  <1>7. CASE Close \/ Emit
    <2>1. /\ TypeOK'
          /\ oc' = Idle \/ oc'.stack = oc.stack
             \/ (oc'.stack = Return(oc.stack) /\ Len(oc.stack) > 1)
      BY <1>7, CloseFacts, EmitFacts DEF Finishes
    <2>2. CASE oc'.stack = Return(oc.stack) /\ Len(oc.stack) > 1
      <3>1. Len(oc'.stack) > 0
        BY <1>1, <2>2, ReturnType
      <3> QED
        BY <2>1, <3>1, NotEmpty
    <2> QED
      BY <2>1, <2>2
  <1> QED
    BY <1>2, <1>3, <1>4, <1>5, <1>6, <1>7

(* A key is the checksum of the file it stands in, or zero, for any import   *)
(* graph: Export writes no key, and Key writes that of what Export wrote.    *)
THEOREM KeyAlways == Spec => []KeyOfContent
  <1>1. Init => KeyStep
    <2> SUFFICES ASSUME Init PROVE KeyStep
      OBVIOUS
    <2>1. TypeOK
      BY TypeInit
    <2> QED
      BY <2>1 DEF Init, Idle, KeyStep, KeyTrue, NoSymbols
  <1>2. KeyStep /\ [Next]_vars => KeyStep'
    <2> SUFFICES ASSUME KeyStep, [Next]_vars PROVE KeyStep'
      OBVIOUS
    <2>0. TypeOK /\ KeyTrue /\ (oc.phase # "idle" => oc.stack # << >>)
      BY DEF KeyStep
    <2>1. ASSUME NEW m \in Module, NEW change \in BOOLEAN, NEW ok \in BOOLEAN,
                 Edit(m, change, ok)
          PROVE  KeyStep'
      <3>1. UNCHANGED <<smb, oc>> /\ TypeOK'
        BY <2>0, <2>1, EditFacts
      <3> QED
        BY <2>0, <3>1 DEF KeyStep, KeyTrue
    <2>2. ASSUME NEW m \in Module, NEW force \in BOOLEAN, NEW link \in BOOLEAN,
                 Run(m, force, link)
          PROVE  KeyStep'
      <3>1. UNCHANGED smb /\ TypeOK' /\ Len(oc'.stack) = 1
        BY <2>0, <2>2, RunFacts
      <3>2. Len(oc'.stack) > 0
        BY ONLY <3>1
      <3>3. oc'.stack # << >>
        BY ONLY <3>2, NotEmpty
      <3> QED
        BY <2>0, <3>1, <3>3 DEF KeyStep, KeyTrue
    <2>3. CASE Visit \/ Ensure \/ Import \/ Export \/ Key \/ Close \/ Emit
      <3>1. oc.stack # << >>
        BY <2>0, <2>3 DEF Visit, Ensure, Import, Export, Key, Close, Emit
      <3>2. TypeOK' /\ (oc' = Idle \/ oc'.stack # << >>)
        BY <2>0, <2>3, <3>1, CallsRemain
      <3>3. KeyTrue'
        <4>1. CASE Visit \/ Ensure \/ Import \/ Close \/ Emit
          <5>1. UNCHANGED smb
            BY <4>1 DEF Visit, Ensure, Import, Close, Emit
          <5> QED
            BY <2>0, <5>1 DEF KeyTrue
        <4>2. CASE Export
          <5>1. /\ \A m \in Module : m # Unit => smb'[m] = smb[m]
                /\ smb'[Unit].key = NONE
            BY <2>0, <3>1, <4>2, ExportFacts
          <5> QED
            BY <2>0, <5>1 DEF KeyTrue
        <4>3. CASE Key
          <5>1. /\ \A m \in Module : m # Unit \/ oc' = Idle => smb'[m] = smb[m]
                /\ oc' = Idle \/ smb'[Unit].key = smb'[Unit].content
            BY <2>0, <3>1, <4>3, KeyFacts
          <5> QED
            BY <2>0, <5>1 DEF KeyTrue
        <4> QED
          BY <2>3, <4>1, <4>2, <4>3
      <3> QED
        BY <3>2, <3>3, IdleType DEF KeyStep
    <2>4. CASE Follow
      <3>1. oc.phase = "link" /\ UNCHANGED smb
        BY <2>4 DEF Follow
      <3>2. TypeOK' /\ oc'.stack = oc.stack
        BY <2>0, <2>4, FollowFacts
      <3> QED
        BY <2>0, <3>1, <3>2 DEF KeyStep, KeyTrue
    <2>5. CASE Link \/ Kill
      <3>1. oc' = Idle /\ UNCHANGED <<text, smb, deps, obj, clock, missed>>
        BY <2>5 DEF Link, Kill, Fail
      <3>2. TypeOK' /\ oc'.phase = "idle"
        BY <2>0, <3>1, IdleFacts
      <3> QED
        BY <2>0, <3>1, <3>2 DEF KeyStep, KeyTrue
    <2>6. CASE UNCHANGED vars
      BY <2>0, <2>6 DEF KeyStep, KeyTrue, TypeOK, vars
    <2> QED
      BY <2>1, <2>2, <2>3, <2>4, <2>5, <2>6, MakeAssumption DEF Next
  <1>3. KeyStep => KeyOfContent
    BY DEF KeyStep, KeyTrue, KeyOfContent
  <1> QED
    BY <1>1, <1>2, <1>3, PTL DEF Spec
=============================================================================
