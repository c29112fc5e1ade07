# Verification of the Oberon-07 compiler, its runtime and its hosts

This directory holds TLA+ models of the program in this repository, TLC
configurations that model-check them, and TLAPS proofs about them.  Source
paths are relative to the repository.

1. The system
2. The models
   2.1 Reference counting
   2.2 The module loader
   2.3 Files
   2.4 The web file store
   2.5 The terminal of the event-driven hosts
   2.6 Control structures
   2.7 Methods, initialisers and interfaces
   2.8 Symbol files
   2.9 The driver
3. The runs
4. The proofs
5. Where the code disagrees with what it says
6. What is not modelled
7. Running the tools


## 1. The system

The repository is a compiler for an extended Oberon-07 with an LLVM back end
(`src/`), the run-time library the compiled programs link (`runtime/`, one
directory per target), a second copy of the compiler in Oberon (`self/`), and
hosts for terminal programs: a browser (`web/`, with the file server in
`server/`), Android (`android/`) and iOS (`ios/`).

| Component | State | Operations | Interacts with |
|---|---|---|---|
| ARC runtime `runtime/*/runtime.c` | a count and a type tag in each heap object, `oc_live` | `oc_alloc`, `oc_retain`, `oc_release`, `oc_record_assign`, release of fields and arrays | called by every compiled procedure and by the C halves of Files and Modules |
| ARC emission `src/ORG.c`, `src/ORP.c` | per expression: the item and whether it owns its +1; per procedure: the slots to release | NEW, assignment, comparison, call, construction, procedure entry, RETURN | fixes the order of the runtime calls |
| Module loader `runtime/*/Modules_rt.c`, `Modules.Mod` | the list of descriptors, a side table, use counts, ARC counts kept by hand | Load, Free, ThisCommand, exports | the bodies of the modules it loads, which run inside Load; `dlopen` |
| Files `runtime/posix/Files_rt.c` | per open file a buffer with length, dirty and registered flags; riders; eight directory cursors | Old, New, Register, Close, Purge, Set, Read*, Write*, Rename, Delete, OpenDir | the host file system, ARC |
| Web files `runtime/wasm/Files_rt.c`, `web/src/files-shim.ts` | the same buffers in the browser, a table of directory cursors | the same, each as an HTTP request | `server/main.go` |
| File server `server/main.go` | the directory tree, temporary files | GET, HEAD, PUT, POST (rename, mkdir), DELETE, list | several browsers at once |
| Terminal hosts (`TerminalState.kt`, `TerminalState.swift`, `tui-shim.ts`), `TUI_rt.c` | a pending and a displayed grid, cursor, key queue, the key handler | put character, flush, clear, resize, key dispatch, quit | UI thread against program thread |
| Net `Net.Mod`, `Net_rt.c` | a descriptor number per connection and listener | Dial, Listen, Accept, Read, Write, Close, Serve | sockets |
| Scanner, symbol table, parser `src/ORS.c`, `ORB.c`, `ORP.c` | current symbol; scopes, type graph, method lists, export numbering | one pass over the source; Import, Export | symbol files on disk, `ORG.c` |
| Driver `src/ORP.c` | texts, symbol files, `.deps` files and objects on disk with their times | compile one module, compile what is out of date, link | a compilation per module, the linker |
| LLVM code generator `src/ORG.c` | items, basic blocks, labels, call stack, descriptors, interface tables | one procedure per construct | LLVM |
| Kernel `Kernel.Mod` | a sector bitmap | Mark, Free, Alloc sector | none |
| Streams, Errors, Out, Env, Controls | small | interfaces, formatting, forwarding | the host |

What is hard in it, and what makes each part correct:

* *Reference counting.*  Each statement is balanced only together with what
  other statements and procedures do.  Values and addresses are loaded before a
  call and used after it.  Releases recurse through structures that are being
  taken apart.  Correct means: a count is the number of words that own a
  reference, at every instruction; nothing freed is touched; only cycles leak.
* *The loader* runs program code in the middle of Load, and keeps ARC counts by
  hand in C.  Correct means: list, side table and counts agree at every point
  at which a module body can look, and a handle answers exactly while its
  module is in use.
* *Files* hold contents in several places, and a save is not one step.  Correct
  means: what a file believes saved is saved; a crash harms at most what was
  being saved.
* *The web file store* adds several browsers on one tree, handlers that
  overlap, connections that break and a server that may stop.  Correct means:
  every request has its effect at once or not at all.
* *Terminal hosts* change the grid's size between the program's handlers.
  Correct means: what is shown is a frame the program has flushed, inside the
  window, and the program learns of the window's last size.
* *The compiler* works in a single pass: branches are emitted before their
  targets, calls before the overriding methods, tables before the end of the
  declarations, a type reaches it over several files.  Correct means: emitted
  blocks do what the text says, a call reaches the method it should, one
  declared type is one object in every importer.
* *The driver* rebuilds from file times after runs that failed or were killed.

`Arc` composes compiled code with the runtime, `WebStore` browsers, shim and
server, `Terminal` program, runtime and host, `Modules` the loader and the
bodies it runs, `Make` the driver and the compilations.  The parts of the
compiler are modelled each by itself.

`PROJECT.json` lists the hazards at their lines with the properties that would
catch each.


## 2. The models

### 2.1 Reference counting

`ArcHeap` is `runtime.c`.  The heap is the objects alive, the count of each,
and what each *slot* holds: a slot is any word that can hold a pointer, a root
(variable, parameter, register of compiled code) or a field of an object.
Fields in the type descriptor's `ptr_offsets` list are strong, the others weak
(`ORG.c:387`).  The C recursion of `oc_release` is the sequence `cascade`, one
step per call on one pointer, so that the order of releases and frees is that
of the code.  `stale` is the set of slots that own nothing: frames not in use,
memory not allocated, a slot whose reference was released and that has not been
stored to since.  Touching freed memory sets `fault` and stops the machine.

`Arc` is the code `ORG.c` emits, run one instruction at a time.  The program is
any program: at each statement boundary it may start any statement whose
designators are in scope (one dereference away from a variable).  What the
compiler fixes is the code of each statement (the `...Code` operators) and when
a value or an address is loaded.  Expressions under evaluation are the stack
`ctx`: arguments are loaded left to right, an owned one (`ORG_Item` flag `b`)
into a register, a borrowed one as a bare value that waits, unretained, while
later operands call other procedures.  A designator on the left of `:=`, or as
first operand of `=` and `#`, waits as an address; a relation loads through it
only after the second operand (`ORP.c:953`, `ORG.c:1496`).

| Actions | Code |
|---|---|
| `New`, `RecordAssign`, `ArrayAssign` | `StandProc`/`ORG_New`, `ORG_StoreStruct`, `oc_record_assign` |
| `BeginStore` ... `Store` | assignment: `StatSequence`, `ORG_Store` |
| `BeginCall`, `Borrow`, `TakeResult`, `Enter` | actual parameters, `ORG_PrepCall`, `ORG_Call`, `ORG_Enter` |
| `BeginReturn`, `ReturnValue`, `ReturnPlain` | `ORG_Return` |
| `BeginConstruct` | constructors: `ORG_InitItem` |
| `BeginRelate`, `BeginCompare`, `Compare`, `CompareFaults` | relations whose first operand is a designator, or not: `expression0`, `ORG_IntRelation`, `consume_arc` |
| `RunRetain` ... `RunForget`, `RunCascade` | the emitted instructions and runtime calls |

`TakeStatic` is a static record handed in by a C procedure (`runtime.c:66`): its
count is negative, so it is taken like an owned result and nothing is counted.

All pointers have one record type; integers, branches and loops are left out,
since they decide only which statement comes next, and every choice is allowed.

The constant `Forms` switches on the statement forms that the emitted code does
not balance or in which a borrowed value is unprotected, so that each can be
looked at alone and everything else be checked and proved without them:
`RETURN F()` (`ORG.c:2168`), assignment of arrays of pointers (`ORG.c:1592`,
copied without counting), NEW of a weak pointer (`ORG.c:2310`), a weak variable
assigned a call result (`ORG.c:1549`), reading a weak pointer whose object is
gone, or whose memory was taken for an object that nothing owns yet (its count
is 0: to retain and release it would free it), a call after a borrowed argument
(`late argument`), a call while the address of a heap field waits on the left of
an assignment or a relation (`late target`), a field of a heap record as VAR
parameter (`ORG.c:2043`), and record assignment whose source is reached through
the destination (`runtime.c:125`).  In the same way
`MaxLocalPtrs` is the compiler's table size (`ORG.c:133`), beyond which slots
are not tracked (`ORG.c:2047`).

`NilAssumption` says that NIL is not one of the words that hold pointers.
`ArcInv` has the inductive invariants, section 4.  `MCArc` instantiates.

### 2.2 The module loader

`Modules` is `Modules_rt.c` over the records of `Modules.Mod`: descriptors with
name, use count, `next` and ARC count; the list from `Modules.root`; the side
table; the program's Module variables; and the stack `loading` of Loads whose
module body is running.  A Load of a module whose body has run, or that is on
the list, is one step (`LoadListed`, `LoadAgain`).  Otherwise `LoadStarts`
links and remembers the descriptor and starts the body; every other action may
then happen, from the body, nested Loads and a Free of the very module
included; `LoadReturns` is what follows the call of `init_fn`: retain the
result, release what the variable holds *by then*, assign.  `Import` is a body
that is reached through an import instead.  `oc_release` is here the set of
records the C recursion frees and the one it stops at.

`ModuleUse` is what the loader promises: a use count per name, and handles that
are fresh from the Load that made them to the Free that brings the count to
zero, and never after.  `Modules` implements it (`KeepsUse`), the count being
the `refcnt` of the listed descriptor and a handle being fresh while its
descriptor is listed.

Names are compared by 32 characters and stored with 31; the scanner cuts
identifiers to 31 (`include/ORS.h:28`), so names here are just distinct values.
A program could write the exported fields of a descriptor; the model's does not.

### 2.3 Files

`Files` is the buffer and the save path of `Files_rt.c` (the Android and iOS
copies are identical): a `FileDesc` with its buffer for each open file, riders,
and the host's files.  The program calls one procedure at a time; a save is
`Register` or `Close` (the host's file is emptied by `fopen`), then any number
of `Flush`, then `Finish`, `GiveUp` (short `fwrite`), or `LoseTail` (`fclose`
fails and nobody looks).  `Crash` may come anywhere and leaves only the host's
files.  Two files may have one name; Delete and Rename work under open files.
A failed `fopen` changes nothing and needs no action.  The bytes of a buffer
above the file's length stay what they were, as in the code.  Two history
variables say which files a promise is made for: `foreign`, those whose host
file was emptied, deleted or renamed through somebody else since they last
opened it, and `cut`, those that are clean although their last save did not
write their end: `fclose` failed, or `Register` of a clean file met a short
`fwrite`, which leaves the flag as it was.


### 2.4 The web file store

`WebStore` composes three programs: the buffer of a file in
`runtime/wasm/Files_rt.c` (`New`, `put_byte`, `Purge`, `Register`, `Close`),
the shim that turns loads and saves into synchronous requests
(`files-shim.ts`), and the handlers of `server/main.go`.  A browser is blocked
while its request is on its way.  Each step of a handler is one system call
on one tree of entries and inodes, and handlers of different requests
interleave: `Stat`, `ReadOpen`, `ReadCopy` for a download;
`WriteCreate`, `WriteCopy`, `WriteFails`, `WriteRename` for a save, which goes
through a temporary file; `Remove`; `Stat` and `Move` for a rename.  An open
descriptor keeps its inode when the entry goes.  `Lose` breaks a connection:
the shim answers status 0, the handler goes on.  `Crash` stops the server and
starts it again on the same tree.

`FileService` is what the server promises: a map from paths to texts on which
every request takes effect at once, or fails and has none.  `AtomicStore` says
that `WebStore` implements it; a download takes effect when it opens the file.
`Inode` bounds the bodies there are at once: a save that finds none free does not
start.

### 2.5 The terminal of the event-driven hosts

`Terminal` is one grid with three implementations that differ where the code
does: `tui-shim.ts` (rows that grow when written to, a dirty flag, a size
measured at Init and Resize, one frame callback for several changes of the
window), `TerminalState.swift` and `TerminalState.kt` (a pending and a shown
array, a resize by the view), with `TUI_rt.c` in front.  The program runs in
handlers (`mode` "running"), each of which makes up to `MaxOps` calls: `Clear`,
`Write`, `LineFeed`, `MoveTo`, `Flush`, `SetKeyHandler`, `Quit` and so on.
Between handlers come `KeyDown`, `Window`, `Layout` and `Frame`.  On Android
`Draw` writes through to what is shown, since `flush` shares the rows.
In the browser `lines` is the set of rows that have an array.  `ensureCell`
pushes rows only behind the last one (`Pushed`), so a row that `clear_line` left
out is a `Hole`, and a write to it throws (`WriteThrows`): the event ends there.
A string is drawn character by character (`inString`) and marks the grid dirty
at its end only.  `flushed` and `drew` are history variables: the grid at the
last flush, and whether anything was drawn since; `broken` says what holes have
led to: that some were left (`row`), that a string broke off unmarked (`frame`),
that Ctrl-L was not answered (`size`).  Styles are part of the `Cell` drawn.

### 2.6 Control structures

`Control` has two halves.  The first is the emission of statements in
`StatSequence` of `ORP.c` and the procedures of `ORG.c` it calls: the
generator's state `e` goes through `CFJump`, `FJump`, `Fixup`, `FixOne`,
`FixLink`, `Here`, `BJump`, `CBJump`, `And1` ... `Or2`, `For0` ... `For2` and
`CaseRange` in the order of the code, and comes out as basic blocks with
labels resolved.  Forward branches wait in blocks of their own, chained through
the label table.  The second half runs the blocks (`Run`) beside the text they
came from (`Read`), whose meaning is given separately: a statement is replaced
by what is left of it.  The two meet (`Both`) where a procedure is called or a
condition is asked for, whose answer is open.  Conditions are trees of `~`,
`&`, `OR` over atoms; integers have `Width` bits and BYTE and CHAR
`ByteWidth`, compared with their sign as the code does.

### 2.7 Methods, initialisers and interfaces

`Classes` compiles any program of a few units, declaration by declaration:
`RecordType`, interfaces item by item (`InterfaceType`, `IncludeInterface`,
`Require`, `EndInterface`), type-bound procedures (`BindMethod`, which is
`Override` or `NewMethod`, and `BindInit`), `Begin` with the check of
conformance, then the body with `ORG_PtrToIface`, `New` and `ConstructorCall`,
and `Close`, which lays out the descriptors.  A declaration the compiler would
mark is not a step.  Types and procedures are numbered as they are declared: an
extension has a greater number than its bases, so the code's walks from a record
to its bases, each list in its order, are the choice of the nearest among a set
(`Chain`, `Nearest`).  `ORB_FindMeth`, `Inherited` and `Governing` (of
`thisinit` and its like) are such choices; they differ in what the unit may see
of others (`Visible`).  What emitted code does with the tables is
`ORG_MethodItem`, `ORG_IfaceMethodItem` and `ORG_TypeTest`.  `InOrder` says that
members are declared before they are used, and initialisers before an extension
has a member of their name; section 5 has what happens otherwise.  Methods and
initialisers share one set of names, and `Inherited` finds both, as `BindMethod`
does: a method may override an initialiser and has its slot, -1.  `Virtual` is a
method that does not go back to one.  `BindInit` records with `over` that the
text calls the base type's initialiser, which is all that the code knows
(`SuperInitCalled` is set when the call is parsed, on whatever branch).

### 2.8 Symbol files

`SymFile` is `Export` and `Import` of `ORB.c`: `OutType` writes a graph of
types as a sequence of tokens, with references to what has been written, and
`InType` builds it again in another process; `InHome` is the lookup that makes
a type read over two files one object, and `PointersTo` and `InObjects` the
repair of pointers read before their record.  A behaviour compiles the modules
of one program in any order, each in a fresh process (`Start`, `Import`,
`Declare`, `Export`), and any module may be refused.  A declaration may give a
type another name: in the unit it leaves the type's name alone (`Declared`), but
reading an exported one renames the type (`InObjects`), as the code does in
`Import`.  `Renamed` is the set of types to which that may happen.  Sizes, lengths and slots
travel as one value that names the declaration they come from.

### 2.9 The driver

`Make` is the driver on a directory: texts, symbol files, `.deps` files and
objects, with times.  The recursion of `ensure_compiled` is a stack of calls,
each a module and the import it looks at next: `Visit` is one round of a call's
loop (`oc.visited` is its table), `Ensure` what follows the loop, where
`needs_compile` decides.  Each compilation is a process (`Import`, `Export`,
`Key`, `Close`, `Emit`) that writes the symbol file before it decides whether the
new interface is allowed and the object last, and any process may be killed
(`Kill`) or fail.  `Close` writes the list and opens the object, which empties it;
that it cannot be opened is only printed, and the compilation goes on to report
success (`oc.failed`).  Texts change between runs only (`Edit`), with and without
a change of interface, in the second of the last write or a later one; what a
module imports stays the same.  The history variable `missed` has the modules
whose object is not made from their text and not older than it either.  `Follow` is one round of `oc_link`, which reads the list of one more
module of the queue, if there is one in the directory of the entry module; both
tables have `MAX_LINK_MODS` places, and lines that find the queue full are
dropped.  Import lists longer than that are not modelled.


## 3. The runs

| Run | Instance | Shows |
|---|---|---|
| `arc_core` | 2 objects, one global, one procedure with a parameter, depth 1, 3 nested expressions, no unbalanced form; weak fairness | `TypeOK`, `NoFault`, the invariants `IInv`, `ZeroClaimed` and `Sound` of section 4, `FreesUnheld` (free only what no word owns), `StatementsEnd` (every statement and every cascade, through cycles too, ends); no deadlock |
| `arc_heap` | 3 objects, one immortal, a strong and a weak field, one global; weak reads and aliased record assignment | `RefcountExact`; `OnlyCyclesLeak`: between statements garbage is kept only by cycles |
| `arc_forms` | 1 object, a procedure with a parameter and a local, depth 2, 4 nested expressions, `RETURN F()`, late arguments and targets, VAR fields | `CountCovers`: these forms lose references only upwards; `NoDangling` |
| `arc_return_call` | smallest that shows it | section 5 |
| `loader` | 3 names (one in the manifest and also a library, one only a library, one neither), 3 descriptors, 2 variables, 2 unmatched Loads of a module | `TypeOK` (no pointer to a freed descriptor), `TableIsList`, `CountsHold`, `KeepsUse` |
| `files` | 2 files, 2 names, one rider, length 2, bytes 0 and 1 | `TypeOK`; `CleanIsStored`: the host has what a clean file has, or its beginning where a save ended badly and the code left it clean |
| `web` | 2 browsers, one of which edits, 2 names, texts of 0 and 2 blocks, 3 requests, 1 connection lost or crash | `AtomicStore`; `CleanIsSaved`: a clean buffer is a text the server has had; `NoLeftovers`: a temporary file is left over only by a crash |
| `terminal` | 3 hosts, 2 sizes of the window, 3 calls in an event, 2 events, 1 kind of cell | `FrameKept` (not for Android, section 5); `CellsInGrid`: no cell outside, no row left out unless one was cleared ahead of the others; `SizeSeen`; the first and the last but for what an exception broke off |
| `control` | 846 programs: every statement with conditions of 7 shapes, and every nesting of the statements to 3 levels; 3 starts; 5-bit INTEGER, 4-bit BYTE | `Agree`: blocks and text call the same procedures and ask the same conditions; `IRVerifies`: every block ends in its only branch, a merge lists its predecessors; `GetsOn`: neither loops alone |
| `classes` | 2 units, 3 types, 5 types and type-bound procedures together, 3 names for methods and initialisers alike, 1 use, 2 ancestor levels, members declared before their use | `CallsOverride`: a call reaches the nearest override of what was found at compile time; `InterfaceCalls`: one through an interface a method of the member's name and signature, both unless the method goes back to an initialiser; `TypeTests`: IS answers by extension; `NoBareObject`: nothing that has an initialiser is made without; `ChainedInits`: the text of an initialiser calls the base type's |
| `symfile` | 4 modules, 2016 programs with a cyclic pair of types, 1152 of them with a second name for a type, private or exported | `OneType`, `SameLayout`, `HomeName`, the first and the last but for types an exported alias renames; `Returns` (writing ends) |
| `make` | 3 modules, 2 of them in the runtime directory, tables of 3 places, 1 edit | `FreshObjects`, `CompiledInOrder`, `KeyOfContent`, `LinkCloses` |

*Why the bounds are enough.*  In `Arc` a fault of counting needs an object, a
second one that owns it or displaces it, and a call between loading and use:
two objects, one activation besides the module body and three nested
expressions give all orders of these.  Cycles and shared structures of the
cascade want two objects besides the immortal one, whose fields serve as further
variables: with one global, cycles of both objects that nothing leads to come
about.  The proofs have any number.  Nested activations matter
only where a result passes through two returns, hence depth 2 in `arc_forms`
and `arc_return_call`.  For the classes without unbalanced forms the proofs
remove the bounds altogether.  In `Modules` the descriptors are never freed
(section 5), so three of them give three attachments: a module loaded, freed
and loaded again beside another one, and the exhaustion of memory.  In `Files`
two files of one name, or of two, are all the pairs there are; length 2 has an
overwritten byte, an appended one, a gap, and a save cut short in the middle.
In `WebStore` two requests are on their way together and a third comes after:
every pair of handlers interleaves, and what a broken one leaves behind meets
one more; a text of two blocks can be half written.  No second save of a path
is sent while one is under way (`SharedSave`, section 5).  In `Terminal` two
sizes that each exceed the other in one direction, three calls after a resize
(a clear ahead of the rows, a move up, a write),
and a change of the window before and after the handler's installation are what
the properties can tell apart.  In `Control` every branch instruction is a
choice of two answers, so loops need no bound; three levels have every statement
inside and beside every other, and the variables' values 0, 2 and 3 take a FOR
around its bounds in steps of 1, 2 and -1.  Loops over a BYTE stay below the
half of its range (section 5).  In `Classes` three types are a base, an
extension and an extension of that in another unit, or one of them an
interface; with two type-bound procedures beside them a method and what it
overrides, or two members of one interface, and with fewer types more (`MaxDecl`
counts both); the third of a chain is deeper than the descriptors' two levels.  The programs of `SymFile` are the hand-overs of one cyclic pair by
zero, one or two modules between, in every order of import, and those with a
second name for one of its types or for a record in the home module or the first
importer; cycles of types none of which is exported are left to section 5.  In `Make` one edit at any
place between, and any run cut short, leaves every combination of old and new
files that two generations allow.

*Fairness.*  `arc_core`: weak fairness of `Run`, the next emitted instruction;
the machine executes the program sequentially, and which statement comes next,
and whether one comes, is left open.  `terminal`: a handler returns, a string comes to its end, a callback
that is due is made by the host, and a program that is sent Ctrl-L calls
`TUI.Resize`, as the hosts expect of it (`tui-shim.ts:208`).  `control`: the
emitted blocks run, and so does the text that stands for what they should do;
procedures need not return and conditions need not be answered.  The other
specifications assume none.

*Deadlock* is checked in `arc_core` and `control`.  Elsewhere the system may
simply stop: the machine after undefined behaviour, the others at their bounds.

Every property of a passing run is paired in `PROJECT.json` with a changed
definition (a dropped retain, a swapped order, a missing reset, a wrong
comparison) under which TLC finds it violated.


## 4. The proofs

**Reference counting** (`ArcCount`, `ArcSafe`), for any set of
objects, any record layout, any procedure frame and any bounds:

* `TypeCorrect`: `Spec => []TypeOK`, without further assumptions.
* `Inductive`: `Spec => []IInv`, and from it `CountsCover` (`CountCovers`),
  `OwnersAlive` (`NoDangling`) and `FreesOnlyUnheld` (`FreesUnheld`).  Two
  assumptions: the program uses neither of the forms that let an owner go
  uncounted (copying arrays of pointers, NEW of a weak pointer), and a procedure
  has at most `MAX_LOCAL_PTRS` pointer parameters and locals.  Each is
  necessary: dropping it gives a counterexample.  `RETURN F()` and a weak target
  of a call result stay in: they lose references upwards only.  The forms with
  unprotected borrows stay in as well: they may end in a fault, but the counts
  hold up to it.
* `CountsExact` (`RefcountExact`) and `OnlyCycles` (`OnlyCyclesLeak`), for
  programs that use no leaking form either (`Exact`).  `NoneForgotten` is what
  the second rests on.
* `NeverFaults` (`NoFault`), from `SoundAlways` (`Spec => []Sound`): compiled
  code touches no freed memory and releases no reference twice.  Assumed are at
  most `MAX_LOCAL_PTRS` pointers and `Forms \subseteq LeakingForms`: the program
  uses `RETURN F()` and weak targets of calls as it likes, and no form that
  leaves a value or an address unprotected or miscounts.  For `late argument`,
  `late target`, `var field` and `rec alias` section 5 shows what happens
  otherwise.

These invariants are not inductive: counts are kept at every instruction, while a
statement empties and fills words along its way.  `IInv` therefore says what
the code still to run will do.  `Counts`: counts cover the owners and equal them
if no form leaks, owned objects are alive, fields of free memory own nothing.
`CodeSafe`: every instruction that fills a word finds it empty when its turn
comes, every move finds its source still holding a reference; `EmptyBy` and
`HeldBy` say this of position *i* in terms of the instructions before it.
`CascadeSafe`: what the running release has still to free is unheld, has count
zero, is freed once, and has its fields released first.  `UnusedEmpty`:
registers and frames out of use are empty once the code has run.  `CtxOK`: a
waiting target lies in a frame that outlives the expression.  `ArcCount` proves
that each statement's code is safe and how safety passes from a code to its
tail, then that each instruction, each step of a cascade and each statement
keeps the invariant.

For `OnlyCyclesLeak`, `ZeroClaimed`: an object whose count is zero is about to be
freed, about to be retained, or under construction.  Between statements nothing
of the first two is pending, so a piece of garbage has a positive count and an
owner; the owner is no variable, for the garbage would be anchored, so it is a
field of an object, and that object is garbage, because any closed set without
the owned object can be closed without its owner.  Garbage is defined by closed
sets rather than by following pointers, which is what lets it be reasoned about.

For `NoFault`, `Sound` says of the words what `IInv` says of the counts.
`VariablesHeld` and `FieldsHeld`: when a statement's code has run, every variable
and every field of a live object holds a reference again, whatever was
displaced on the way.  `CodeSound`: retains come before releases, so a value is
counted while what it was read from still holds it; a word is released at most
once; a field is touched only while a variable holds its object (`Guarded`),
which is what the restriction to one dereference and the order retain, release,
store give.  `CascadeSound`: a field is released before its object is freed.
`OperandsSound`: an operand that waits is NIL, owned by its register, the fresh
receiver of a construction, or borrowed, and then nothing runs before it is
used; nor does anything while the address of a heap field waits for a store or
for the load of a relation, and a variable holds the field's object.  `RegistersWiped`: a register is wiped after its release and not read
again.  `ArcSafe` proves this for each instruction and each step of a release
(`RunSound`), then for the code each statement emits (`EmitSound` and the lemmas
on `Orderly` and `Kept` code) and for the expressions it pushes or pops
(`StatementSound`).  It rests on `IInv`, which knows that a word holding a
reference is counted, and on `ZeroClaimed`, which knows who claims an object
that is not counted.

**The loader** (`ModulesProofs`), for any names, descriptors, variables and
nesting of Loads: `LoaderTypes` (`TypeOK`), `TableMatches` (`TableIsList`),
`DescriptorCounts` (`CountsHold`), all from `LoaderInductive`, and
`LoaderImplementsUse` (`KeepsUse`).

**Files** (`FilesProofs`), for any names, files, riders, bytes and length:
`FilesTypeCorrect` (`TypeOK`) and `CleanFilesStored` (`CleanIsStored`).
`StoredInv` adds `SaveOwns`: while a save runs, the host's file has a beginning of
the buffer being written and is `foreign` to every other file of the name, so
that no step of `write_file` takes anything from a file the promise is made for.
What the theorem does not promise, because the code does not, is the end of a
file whose `fclose` failed (section 5).

**The web file store** (`WebStoreProofs`), for any browsers, directories, names,
texts, places for requests, inodes, crashes and lost connections, if no two saves
of one path are on their way together (`SharedSave = FALSE`, without which TLC
has a counterexample, section 5): `EffectsAreAtomic` (`Spec => AtomicStore`),
`SavedWhenClean` (`CleanIsSaved`) and `NothingLeft` (`NoLeftovers`).  The
invariant of the tree, `StoreInv`: no two entries share an inode; what a reader
has sent is the beginning of a body that no temporary file has; what a save has
written is the beginning of its text, in its own temporary file.  A handler's
step is described once, by `Allowed`: it leaves the other handlers what they
read and write, and what can be seen of it is nothing or the whole effect of its
request with the answer that says so (`Atomic`).  Each of the nine system calls
is shown to be such a step, and the invariants and the refinement follow from
`Allowed` alone.  `SaveInv` adds that a browser waits for a request with the
text of its file, which is saved by the time the request is answered "ok";
`TmpInv` that a temporary file has a save that is copying.

**The terminal** (`TerminalProofs`), for any sizes, cells and bounds, on all
hosts: `GridStaysInside` (`CellsInGrid`) and `WholeFrames` (`FrameKept`).
`GridInv` adds that window and grid have one of the `Sizes` and that the cursor is
a pair of integers, whatever numbers the program asks for.  `FrameInv` adds what
makes a flush right: in the browser what was drawn since the last flush is marked,
except in the middle of a string and after one that broke off, and on the others
the grid is the flushed one when nothing was drawn.

**The driver** (`MakeProofs`), for any modules, lists of imports, entries, number
of edits and size of the tables.  `KeyAlways` (`KeyOfContent`) holds for every
import graph.  The others assume `Acyclic`: every set of modules has one that
imports none of the set.  A program with a cycle of imports cannot be compiled
from its texts alone, but old symbol files can carry the driver through one, in
an order that is then nobody's.  `FreshAlways` (`FreshObjects`) and
`InOrderAlways` (`CompiledInOrder`) rest on `DriverInv`:
* an object was made from the present text, or is older than it, or its module
  is in `missed`, so one that is not out of date is fresh or in `missed`, whatever
  was refused or killed (`FilesInv`);
* each call of `ensure_compiled` stands for an import of its caller, and what a
  call has passed was visited (`CallsInv`).  What was visited and is not on the
  stack is `Finished`.  Without a cycle nothing on the stack is an import of the
  innermost call (`NoCycle`), so when that has passed all its imports they are
  finished;
* what is finished is not out of date, with all that it imports (`FinishedInv`),
  or its object could not be opened (`oc.failed`); it is never visited again in
  this run, and what has been compiled goes on agreeing with its imports' symbol
  files (`DoneInv`);
* what the link has queued is the entry or stands in the list of a module it has
  followed, and is finished (`LinkInv`).

`ClosesAlways` (`LinkCloses`) needs two hypotheses more, and section 5 shows both
to be necessary: `Cardinality(Module) <= MaxLinkMods`, and `RuntimeInScope`, that
a module has in its own scope what the runtime modules in it import, because
their lists are not looked for where they are.  `Followed` is its invariant: no
line was dropped.  The run `make` is an instance where the tables are just
large enough.

**Methods, initialisers and interfaces** (`ClassesProofs`), for programs of any
number of units, types, interfaces, members and uses.

* `CallsAlways` (`CallsOverride`) and `TestsAlways` (`TypeTests`) hold of every
  program the compiler accepts; the first speaks of methods that do not go back
  to an initialiser (`Virtual`), which are exactly those that have a slot
  (`VirtualHasSlot`); section 5 has the others.  `SlotsInv` is their invariant.  `Tree`: the
  bases of a record are a chain, with levels that grow along it.  `Declared`:
  what is overridden was declared before, for a base type, under the same name
  and with the same slot and signature.  `Slots`: two methods that override
  nothing and whose records are in one chain have different slots.  That is not
  inductive by itself, since a base type declared methods late would be given
  the extension's slot; it needs that the bases of a record that has taken a
  slot are `mfixed`.  `Descriptors`: those of finished units say what the
  declarations say, which no later step changes.  `Overridden` is a least set,
  so the first method of each is found by the least number, and two methods of
  a chain share a slot exactly when they share that (`SlotsAreOverrides`).
* `NoBareAlways` (`NoBareObject`) and `ChainedAlways` (`ChainedInits`) assume
  `InOrder`.  `Constructions`: what has been allocated or constructed will get
  no more initialisers, because its declarations are over, and an initialiser whose text
  calls none of the base type's saw none; a base type cannot gain one after its
  extension has.  That the call in the text is reached is not said: the code does
  not ensure it (section 5).
* `InterfaceAlways` (`InterfaceCalls`) assumes `InOrder`, and that interfaces ask
  for no name that may be private; section 5 shows both to be necessary.
  `InterfaceInv` adds `SameName`: methods of one name that every unit can see,
  in one chain, have one slot and signature, in whatever order they were
  declared, and if one has none, none has; `Indexed`: the members of an interface have an index each and cover
  those of the interfaces it includes; `Fresh`: an interface that is being read
  is not in use; `Conformant`: a record whose declarations are over has what its
  list asks for; `Converted`: the tables that have been emitted have the slot of
  such a method at each member's index, from which the descriptor finds the
  nearest method of that slot, which has that name.  A method that goes back to an
  initialiser is left out, as in `CallsAlways`.

**Only model-checked**: all of `Control` and `SymFile`.  Their emission, reading
and writing are recursive operators over syntax trees and type graphs, and what
they compute is proved by induction over these, which the provers cannot do.
`StatementsEnd`, `SizeSeen` and `GetsOn` are liveness under fairness and stay
with TLC.


## 5. Where the code disagrees with what it says

The run `arc_return_call` expects its violation.  The other configurations
named here are run in the same way and end in one too.

*Reference counting*
* `arc_return_call`: `ORG_Return` retains a result that is a call result and
  owned already, so `RETURN F()` leaks a reference (`ORG.c:2168`).
* `MCArcLateArgument.cfg` (`NoFault`): `m(p, F())` loads `p` unretained, and `F`
  may drop the last reference to it (`ORG.c:1937`).
* The same with `Forms = {"late target"}`: `p.next := F()` and `p.next = F()`
  compute the address of `p.next` before the call; if `F` drops the last reference
  to the record, the store or the load of the comparison (`ORG.c:1496`) touches
  freed memory.  With `Forms = {"var field"}`: `P(p.next)` passes the address of a
  field of a record that nothing keeps alive.
* `IS` does not release what it tests: a call result tested for its type leaks if
  it is an interface, and if it is a pointer the record is taken for the variable
  that holds its address (`ORG.c:1154`, against the comment of `consume_arc` at
  631, which counts type tests among the consumers).  Not modelled.
* `MCArcRecAlias.cfg` (`NoFault`): `p^ := p.next^` releases the destination's
  fields before it copies; if `p` holds the only reference to `p.next`, the
  source is freed first (`runtime.c:125`).
* In forms set aside in section 2.1: arrays of pointers copied without counting,
  NEW of a weak pointer, tracked locals beyond the table's size.

*Loader and files*
* `MCModulesFirstReference.cfg` (`RuntimeTakesFirst`): `Modules.Mod` says
  `NewModDesc` leaves the count at zero; it returns a counted reference, the
  runtime retains again, and no descriptor is ever freed.  `CountsHold` says it
  is exactly this one count.  The surplus also hides a hazard: with a count of
  zero, a module body that frees its own module would leave Load returning a
  freed descriptor.
* `MCFilesReplace.cfg` (`RegisterReplaces`): `Files.Mod` says Register renames
  into place; it truncates the target and writes into it.
* `MCFilesCloseError.cfg` (`CleanIsFlushed`): a failing `fclose` is ignored and
  the file is marked clean, so no later Close writes what was lost
  (`Files_rt.c:122`).
* A `Register` of a clean file that a short `fwrite` cuts off leaves the host's
  file short and the file clean, so that Close does not write it again
  (`Files_rt.c:167` and 176).

*Web*
* `MCWebStoreRename.cfg` (`StaysInProject`): rename prefixes the project
  directory to the old name only (`files-shim.ts:133`).
* `MCWebStore.cfg` with `SharedSave = TRUE` (`AtomicStore`): a save whose
  connection broke is repeated while its handler still runs; both use one
  temporary file, and after the second has renamed it the first goes on writing
  into the live file (`main.go:251`).

*Terminal*
* On Android what is drawn shows before it is flushed, because `flush` hands
  over an array that shares its rows (`TerminalState.kt:130`; its comment at 42
  says that two buffers avoid partial frames).
* On iOS and Android `KeyQueue` is never filled: every key goes to
  `oc_dispatch_key`, which always exists, so a program that polls `ReadKey`
  waits for ever (`runtime/ios/TUI_rt.c:12` says keys are queued).  In the
  browser `tui-shim.ts:235` does the same.
* In the browser a line feed may leave the cursor below the last row, where
  `clear_line` does nothing.
* `MCTerminalHole.cfg` (`WritesLand`): `clear_line` assigns `cells[curRow]` behind
  the last row and leaves holes (`tui-shim.ts:266`); `ensureCell` fills only up to
  `cells.length` (118), so a write to an earlier row throws in the middle of the
  program's handler.  What the handler had still to do is not done (the answer to
  Ctrl-L, say), and the part of a string drawn before is not marked dirty.

*Compiler and driver*
* `MCControlByte.cfg` (`Agree`): BYTE is unsigned (`ORG.c:643`), but `ORG_For1`
  and `ORG_CaseRange` compare with its sign: `FOR b := 0 TO 200` does not run,
  and a range of labels across 127 matches nothing.
* `MCClassesEarly.cfg` (`InterfaceCalls`): an interface table is emitted at the
  first conversion of a pointer, with slot zero for a method declared later; the
  check at the end of the module finds nothing missing (`ORG.c:1036`, whose
  comment says conformance checking already reported it).
* `MCClassesInit.cfg` (`CallsReach`): `BindMethod` looks for an inherited member
  without asking whether it is an initialiser (`ORP.c:2350`), so `OVERRIDE` of one
  is accepted and takes its slot, -1.  No vtable has it (`ORG.c:541`); a call loads
  the word before the vtable (`ORG.c:950`), and a table for an interface holds -1
  (`ORG.c:1036`).
* `IF c THEN SUPER.Create() END` satisfies the check that an initialiser calls the
  base type's: `SuperInitCalled` is set when the call is parsed, on whatever branch
  (`ORP.c:314`, 2713), and the base's initialiser may not run.
* `MCClassesPrivate.cfg` (`InterfaceCalls`): a private method may satisfy an
  interface, and `ORB_FindMeth` looks for names only.  Where an importer's
  extension, which does not see it, declares a method of that name with another
  signature, an interface call on the extension reaches the latter with the
  interface's arguments (`ORB.c:244`); `CheckConformance` reads the record's own
  list and is not asked.
* `MCSymFileHidden.cfg` (`Returns`): `OutType` does not stop on a cycle of types
  none of which has a reference (`ORB.c:836`).
* `MCSymFile.cfg` with the invariant `OneTypeEver`: reading an exported second name
  of an imported type, `U* = A.Node`, renames the type (`ORB.c:753`).  What the
  importer exports then names it `A.U`, which module A does not declare: a third
  module that also knows `A.Node` has two types (`record_td` says a descriptor has
  exactly one definition, `ORG.c:440`), and an object of the importer refers to a
  descriptor `A__U__td` that is defined nowhere (`ORG.c:459`).
* `MCMakeMissed.cfg` (`LinksTexts`): what is linked is not always compiled from the
  present texts.  Three ways lead there.  A text saved in the second in which its
  object was written is not newer and is never compiled (`ORP.c:3181`).  An object
  that cannot be written is only reported (`ORG.c:2813`); the driver says
  "Compilation successful" (`ORP.c:3579`) and links the old one, or none.  A process
  killed while it writes an object leaves a broken one that is up to date.  TLC
  shows the second first, even with `MaxEdits = 0`.
* A refused interface stays in the symbol file with key zero, and the next
  compilation, which finds no old key, accepts it without `-s` (`ORB.c:1088`).
  `KeyOfContent` says only that no old key stays with it.
* `MCMakeStale.cfg` (`LinkedAgree`): the driver compares a module's text with
  what was made from it, not with the interfaces it was compiled against, so a
  changed interface is linked with importers compiled against the old one
  (`ORP.c:3181`, against the comment above `ensure_compiled`).
* `MCMakeHidden.cfg` (`LinkCloses`): the `.deps` files are written so that the
  link can compute the closure (`ORG.c:2778`), but those of runtime modules lie
  in the runtime's directory and are looked for beside the entry module
  (`ORP.c:3285`).  What a runtime module imports is linked only if its interface
  mentions a type of it, as `Files` does of `Errors`; `Controls` uses `TUI` in its
  bodies only, and a program that imports `Controls` and not `TUI` lacks it.
* `MCMakeFull.cfg` (`LinkCloses`): `ensure_compiled` counts imports and not the
  entry, so `MAX_LINK_MODS` + 1 modules pass; `oc_link` then drops the last from
  its queue in silence (`ORP.c:3292`).  Its message about too many modules
  (`ORP.c:3276`) cannot be reached, as no more come out of the queue than fit.


## 6. What is not modelled

* *Net, directory cursors, the sector map*: a few short procedures each, whose
  difficulty is in the host (sockets, `readdir`) or that nothing calls.  Two
  things to know: `Serve` leaves its loop at the first failed accept
  (`Net.Mod:245`), and `AllocSector` does not return on a full map
  (`Kernel.Mod:40`).
* *`ReadNum` and `WriteNum`*, the scanner, arithmetic, strings and sets: sequential
  functions of data, for tests.
* *Scopes, type compatibility, constant expressions, CASE by type* in the parser;
  *constants, variables and procedures* in symbol files, which are written and
  read field by field.
* *Limits of tables*: 64 types in a symbol file, 8 ancestors in a descriptor, 63
  pointer words in a record, 4096 labels, `MAX_CALL_ARGS`.  The models have the
  tables without the limit, except `MaxLocalPtrs`, `MaxLinkMods` and
  `TD_LEVELS`.
* *The posix terminal*, which writes escape sequences; views, palettes, key
  codes; directory listings and MKCOL of the server, its static pages.
* *The decoder, the self-hosted compiler* (a port of the one modelled), the Project
  Oberon texts, interfaces without state.
* In modelled parts: failed allocation (except of module descriptors), dates,
  MakeDir, the C stack (`oc_release` recurses along a list), threads in compiled
  programs (the language has none), pointers in `Control` and integers in `Arc`.


## 7. Running the tools

Each run is an `MC...` module and a `.cfg` of the same prefix: for instance
`tlc -config MCFilesSave.cfg MCFiles`.  The slowest takes a few minutes.  The
proofs are checked by `tlapm` on `ArcCount`, `ArcSafe`, `ModulesProofs`,
`FilesProofs`, `TerminalProofs`, `WebStoreProofs`, `MakeProofs` and
`ClassesProofs`.
