-------------------------------- MODULE Make --------------------------------
(* The driver `oc` (ORP.c) on a directory of modules: `oc M.Mod` compiles one *)
(* module, `oc -o prog M.Mod` compiles the imports whose text is newer than   *)
(* what was made from it, then M, and links the closure.  Every compilation   *)
(* is a process of its own that rewrites the symbol file before it decides    *)
(* whether the new interface is allowed (Export in ORB.c) and writes the      *)
(* object file last (ORG_Close); any process may be killed between.           *)
EXTENDS Integers, Sequences, FiniteSets, Functions

CONSTANTS
    Module,
    Imports,    \* module -> the modules its text imports, in order
    Exposes,    \* module -> those whose types its own interface mentions
    Runtime,    \* modules that live in the runtime directory
    Entries,    \* bound: modules that are compiled by hand
    MaxLinkMods,  \* MAX_LINK_MODS, 256 in ORP.c:3050
    MaxEdits,   \* bound: changes made to the texts
    NONE

ASSUME MakeAssumption ==
    /\ IsFiniteSet(Module) /\ NONE \notin Module
    /\ Runtime \subseteq Module /\ Entries \subseteq Module
    /\ MaxLinkMods \in Nat \ {0} /\ MaxEdits \in Nat
    /\ Imports \in [Module -> Seq(Module)]
    /\ \A m \in Module : Exposes[m] \subseteq Range(Imports[m])
    /\ \A m \in Runtime : Range(Imports[m]) \subseteq Runtime

VARIABLES
    text,       \* module -> its source: the version, the interface, when saved
    smb,        \* module -> its symbol file: the interface, the key, when written
    deps,       \* the modules that have a .deps file
    obj,        \* module -> its object file: from which version and interfaces
    clock,      \* seconds
    oc,         \* the driver: what it is doing
    missed      \* the modules with an object that is not made from their text
                \* and is not older: saved or killed in the second of the object

vars == <<text, smb, deps, obj, clock, oc, missed>>

Idle == [phase |-> "idle", entry |-> NONE, force |-> FALSE, link |-> FALSE,
         stack |-> << >>, visited |-> {}, done |-> {}, failed |-> {},
         old |-> NONE, queue |-> {}, modules |-> {}]

--------------------------------------------------------------------------
(* What the driver computes. *)

(* Files that are not there.  *)
NoSymbols == [content |-> NONE, key |-> NONE, time |-> 0]
NoObject  == [version |-> 0, content |-> NONE, seen |-> << >>, time |-> 0]
Exists(file) == file.time > 0

(* The names after IMPORT in the text of a module, aliases resolved. *)
scan_imports(m) == Imports[m]

(* The symbol file of an import, beside the text or in the runtime. *)
FindSymbolFile(m) == smb[m]

(* A call of ensure_compiled: the module, and the import it looks at next.   *)
Call(m) == [unit |-> m, next |-> 1]

Return(calls) == SubSeq(calls, 1, Len(calls) - 1)

(* A mutant: the imports of an import come after it. *)
EnterLater(calls, m) == IF Len(calls) = 1 THEN Append(calls, Call(m))
                        ELSE Return(calls) \o << Call(m), calls[Len(calls)] >>

(* The call for an import runs before its caller goes on. *)
Enter(calls, m) == Append(calls, Call(m))

Unit == oc.stack[Len(oc.stack)].unit

(* A mutant: a symbol file that is up to date is enough. *)
needs_compile_no_object(m) == ~Exists(smb[m]) \/ text[m].time > smb[m].time

needs_compile(m) ==
    \/ ~Exists(smb[m]) \/ ~Exists(obj[m])
    \/ text[m].time > smb[m].time
    \/ text[m].time > obj[m].time

(* A mutant: only what the text imports is listed. *)
ScopeOfText(m) == Range(Imports[m])

(* The modules in the scope of m when it has been compiled: what it imports  *)
(* and what the interfaces of those mention.  ORG_Close lists them.          *)
Scope(m) == Range(Imports[m]) \cup UNION { Exposes[i] : i \in Range(Imports[m]) }

(* The linker looks for .deps files in the directory of the entry module. *)
Listed(m) == IF m \in deps /\ (m \in Runtime <=> oc.entry \in Runtime)
             THEN Scope(m) ELSE {}

(* What a symbol file says: the interface in the text and the keys of the    *)
(* modules it mentions.  The checksum tells different contents apart.        *)
Content(m) == [iface |-> text[m].iface,
               keys  |-> [i \in Exposes[m] |-> smb[i].key]]

(* A mutant: the key of the old file is copied. *)
PlaceholderOld(old) == old

(* The key in a file that is being written. *)
Placeholder(old) == NONE

(* How often a text has been saved. *)
Saves == FoldFunction(LAMBDA t, n : t.version - 1 + n, 0, text)

--------------------------------------------------------------------------
Init == /\ text = [m \in Module |-> [version |-> 1, iface |-> 1, ok |-> TRUE, time |-> 1]]
        /\ smb  = [m \in Module |-> NoSymbols]
        /\ obj  = [m \in Module |-> NoObject]
        /\ deps = {} /\ clock = 1 /\ oc = Idle /\ missed = {}

(* The programmer saves a text, in this second or a later one: another        *)
(* interface or not, with an error in it or not. *)
Edit(m, change, ok) ==
    /\ oc.phase = "idle" /\ Saves < MaxEdits
    /\ clock' \in {clock, clock + 1}
    /\ LET version == text[m].version + 1 IN
       text' = [text EXCEPT ![m] =
                  [version |-> version, iface |-> IF change THEN version ELSE @.iface,
                   ok |-> ok, time |-> clock']]
    /\ missed' = IF Exists(obj[m]) /\ obj[m].time = clock'
                 THEN missed \cup {m} ELSE missed \ {m}
    /\ UNCHANGED <<smb, deps, obj, oc>>

Run(m, force, link) ==
    /\ oc.phase = "idle"
    /\ oc' = [Idle EXCEPT !.phase = IF link THEN "ensure" ELSE "import",
                          !.entry = m, !.force = force, !.link = link,
                          !.stack = << Call(m) >>]
    /\ UNCHANGED <<text, smb, deps, obj, clock, missed>>

(* Any error ends the compilation, and the driver with it. *)
Fail == oc' = Idle

(* The next import of the innermost call, or of the entry module: each is    *)
(* visited once. *)
Visit ==
    /\ oc.phase = "ensure"
    /\ LET top  == oc.stack[Len(oc.stack)]
           past == [oc.stack EXCEPT ![Len(oc.stack)].next = @ + 1]
           m    == scan_imports(top.unit)[top.next]
       IN /\ top.next <= Len(scan_imports(top.unit))
          /\ IF m \in oc.visited THEN oc' = [oc EXCEPT !.stack = past]
             ELSE IF Cardinality(oc.visited) >= MaxLinkMods THEN Fail
             ELSE oc' = [oc EXCEPT !.stack = Enter(past, m), !.visited = @ \cup {m}]
    /\ UNCHANGED <<text, smb, deps, obj, clock, missed>>

(* When its imports are there a module is compiled if it has to be, the      *)
(* entry module always. *)
Ensure ==
    /\ oc.phase = "ensure"
    /\ oc.stack[Len(oc.stack)].next > Len(scan_imports(Unit))
    /\ oc' = IF Len(oc.stack) = 1 \/ needs_compile(Unit)
             THEN [oc EXCEPT !.phase = "import"]
             ELSE [oc EXCEPT !.stack = Return(@)]
    /\ UNCHANGED <<text, smb, deps, obj, clock, missed>>

Import ==
    /\ oc.phase = "import"
    /\ IF text[Unit].ok /\ \A i \in Range(Imports[Unit]) : Exists(FindSymbolFile(i))
       THEN oc' = [oc EXCEPT !.phase = "export",
                             !.old = IF Exists(smb[Unit]) THEN smb[Unit].key ELSE NONE]
       ELSE Fail
    /\ UNCHANGED <<text, smb, deps, obj, clock, missed>>

Export ==
    /\ oc.phase = "export"
    /\ smb' = [smb EXCEPT ![Unit] = [content |-> Content(Unit),
                                        key |-> Placeholder(oc.old), time |-> clock]]
    /\ oc' = [oc EXCEPT !.phase = "key"]
    /\ UNCHANGED <<text, deps, obj, clock, missed>>

(* Only the module on the command line has the -s of the command line. *)
Forced == oc.force /\ Len(oc.stack) = 1

Key ==
    /\ oc.phase = "key"
    /\ LET sum == smb[Unit].content IN
       IF sum = oc.old \/ Forced \/ oc.old = NONE
       THEN /\ smb' = [smb EXCEPT ![Unit].key = sum]
            /\ oc' = [oc EXCEPT !.phase = "close"]
       ELSE Fail /\ UNCHANGED smb       \* "new symbol file inhibited"
    /\ UNCHANGED <<text, deps, obj, clock, missed>>

(* The unit has been compiled: back to its caller, on to the link, or done.  *)
Finish(calls) ==
    oc' = IF Len(oc.stack) > 1
          THEN [calls EXCEPT !.phase = "ensure", !.stack = Return(@)]
          ELSE IF oc.link
          THEN [calls EXCEPT !.phase = "link", !.queue = {Unit}, !.modules = {}]
          ELSE Idle

(* The .deps file is written and the object file opened, which empties it.   *)
(* If it cannot be opened the compilation goes on to succeed.                *)
Close ==
    /\ oc.phase = "close"
    /\ deps' = deps \cup {Unit}
    /\ \/ /\ obj' = [obj EXCEPT ![Unit] = [NoObject EXCEPT !.time = clock]]
          /\ missed' = missed \cup {Unit}
          /\ oc' = [oc EXCEPT !.phase = "emit"]
       \/ /\ Finish([oc EXCEPT !.failed = @ \cup {Unit}])
          /\ UNCHANGED <<obj, missed>>
    /\ UNCHANGED <<text, smb, clock>>

Emit ==
    /\ oc.phase = "emit"
    /\ obj' = [obj EXCEPT ![Unit] =
                 [version |-> text[Unit].version, content |-> smb[Unit].content,
                  seen |-> [i \in Range(Imports[Unit]) |-> smb[i].content],
                  time |-> clock]]
    /\ missed' = missed \ {Unit}
    /\ Finish([oc EXCEPT !.done = @ \cup {Unit}])
    /\ UNCHANGED <<text, smb, deps, clock>>

(* The closure, module by module; lines for which the queue has no room are  *)
(* dropped. *)
Follow ==
    /\ oc.phase = "link"
    /\ \E m \in oc.queue \ oc.modules : \E lines \in SUBSET (Listed(m) \ oc.queue) :
          /\ Cardinality(oc.queue \cup lines) <= MaxLinkMods
          /\ Cardinality(oc.queue \cup lines) < MaxLinkMods => lines = Listed(m) \ oc.queue
          /\ oc' = [oc EXCEPT !.modules = @ \cup {m}, !.queue = @ \cup lines]
    /\ UNCHANGED <<text, smb, deps, obj, clock, missed>>

Linking == oc.phase = "link" /\ oc.queue = oc.modules

(* The linker makes a program of the objects of the closure, or fails. *)
Link == /\ Linking
        /\ oc' = Idle
        /\ UNCHANGED <<text, smb, deps, obj, clock, missed>>

Kill == oc.phase # "idle" /\ Fail /\ UNCHANGED <<text, smb, deps, obj, clock, missed>>

Next == \/ \E m \in Module, change, ok \in BOOLEAN : Edit(m, change, ok)
        \/ \E m \in Entries, force, link \in BOOLEAN : Run(m, force, link)
        \/ Visit \/ Ensure \/ Import \/ Export \/ Key \/ Close \/ Emit
        \/ Follow \/ Link \/ Kill

Spec == Init /\ [][Next]_vars
--------------------------------------------------------------------------
(* What is linked was compiled from the texts as they are, whatever runs     *)
(* failed, were refused or were killed before (needs_compile), with three    *)
(* exceptions: a text saved in the second in which its object was written,   *)
(* an object whose writing was killed, and one that could not be opened.     *)
FreshObjects ==
    Linking =>
        \A m \in oc.modules \ (missed \cup oc.failed) :
            Exists(obj[m]) /\ obj[m].version = text[m].version

(* A module compiled by this run saw the interfaces its imports have at the  *)
(* end of the run: no import is compiled after its importer.                 *)
CompiledInOrder ==
    Linking =>
        \A m \in oc.done : \A i \in DOMAIN obj[m].seen : obj[m].seen[i] = smb[i].content

(* A key is the checksum of the file it stands in, or zero: never that of an *)
(* interface the file no longer has, though a compilation that is refused or *)
(* killed leaves the new interface in place (Export).                        *)
KeyOfContent == \A m \in Module : Exists(smb[m]) => smb[m].key \in {NONE, smb[m].content}

(* Without the exceptions: needs_compile compares whole seconds with >, and   *)
(* does not look at what is in the object. *)
LinksTexts ==
    Linking =>
        \A m \in oc.modules : Exists(obj[m]) /\ obj[m].version = text[m].version

(* When everything has been compiled, the link finds every module that a     *)
(* linked object initialises, but for an object that could not be opened     *)
(* (ORG_Close, oc_link). *)
LinkCloses ==
    Linking =>
        \A m \in oc.modules :
            (Exists(obj[m]) \/ m \in oc.failed) /\ DOMAIN obj[m].seen \subseteq oc.modules

(* "The user only has to keep the .Mod files up to date" (ORP.c, above       *)
(* ensure_compiled): a program is linked from objects that were compiled     *)
(* against each other's interfaces. *)
LinkedAgree ==
    Linking =>
        \A m \in oc.modules :
            \A i \in DOMAIN obj[m].seen : obj[m].seen[i] = obj[i].content
=============================================================================
