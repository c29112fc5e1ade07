------------------------------ MODULE WebStore ------------------------------
(* Files in the browser: the buffers of runtime/wasm/Files_rt.c, the shim    *)
(* that turns their loads and saves into synchronous requests, and the Go    *)
(* server whose handlers run at the same time over one directory tree, one   *)
(* system call after the other.  A connection may be lost, which leaves the  *)
(* handler running, and the server may be stopped and started again.         *)
EXTENDS Integers, Sequences, FiniteSets

CONSTANTS
    Browser,
    Editor,     \* those whose program opens files, the others' only name them
    Base,       \* browser -> its project directory
    Dir,        \* directories; "" is the root of the store
    Name,
    Text,       \* what programs write: sequences of blocks, numbers here
    Id,         \* places for requests on their way
    Inode,      \* bound: bodies of files at once
    SharedSave, \* two saves of one path may be on their way together
    MaxRequest, \* bound: requests sent
    MaxFault,   \* bound: connections lost and crashes
    NONE

Path  == Dir \X Name
Entry == Path \X {"", ".oc-tmp"}
Abs(p) == << p, "" >>
Tmp(p) == << p, ".oc-tmp" >>

Body    == Seq(Int)
File    == [name : Name, text : Body, dirty : BOOLEAN, registered : BOOLEAN]
Wait    == [id : Id, then : {"Old", "Register", "Close", ""}]
Request == [op : {"GET", "HEAD", "PUT", "DELETE", "POST"}, path : Path, to : Path \cup {NONE},
            text : Body, pc : {"start", "open", "move", "copy", "done"},
            ino : Inode \cup {NONE}, n : Nat, got : Body,
            ans : {"ok", "missing", "failed", NONE}, cut : BOOLEAN]
Report  == [op : {"GET", "HEAD", "PUT", "DELETE", "POST"}, path : Path, to : Path \cup {NONE}, text : Body,
            ans : Body \cup {"ok", "missing", "failed", NONE}]

ASSUME WebStoreAssumption ==
    /\ Editor \subseteq Browser
    /\ Base \in [Browser -> Dir] /\ "" \in Dir
    /\ << >> \in Text /\ Text \subseteq Body
    /\ SharedSave \in BOOLEAN
    /\ NONE \notin File /\ NONE \notin Wait /\ NONE \notin Request /\ NONE \notin Report
    /\ NONE \notin Inode /\ NONE \notin Path /\ NONE \notin Body
    /\ NONE \notin {"ok", "missing", "failed"}
    /\ MaxRequest \in Nat /\ MaxFault \in Nat

VARIABLES
    file,       \* browser -> the file its program has open, or NONE
    wait,       \* browser -> the request that blocks it, or NONE
    req,        \* the requests, each with its handler
    dir,        \* entry -> inode, or NONE
    data,       \* inode -> blocks
    sent, lost, crashes,  \* counters
    saved       \* history: those whose file has a text the server has had

vars == <<file, wait, req, dir, data, sent, lost, crashes, saved>>

(* An inode lives while an entry or an open descriptor refers to it. *)
Live(d, r) ==
    ({ d[e] : e \in Entry } \cup { r[q].ino : q \in { k \in Id : r[k] # NONE } }) \ {NONE}

Restricted(x, S) == [i \in DOMAIN x \cap S |-> x[i]]

Content(p) == IF dir[Abs(p)] = NONE THEN NONE ELSE data[dir[Abs(p)]]

Init ==
    /\ file = [b \in Browser |-> NONE]
    /\ wait = [b \in Browser |-> NONE]
    /\ req = [q \in Id |-> NONE]
    /\ \E F \in SUBSET { p \in Path : \E b \in Browser : Base[b] = p[1] } : \E t \in [F -> Text] :
          LET at == CHOOSE g \in [F -> Inode] : \A p, o \in F : g[p] = g[o] => p = o
          IN /\ at \in [F -> Inode] /\ \A p, o \in F : at[p] = at[o] => p = o
             /\ dir = [e \in Entry |-> IF e[1] \in F /\ e = Abs(e[1]) THEN at[e[1]] ELSE NONE]
             /\ data = [i \in { at[p] : p \in F } |-> t[CHOOSE p \in F : at[p] = i]]
    /\ sent = 0 /\ lost = 0 /\ crashes = 0
    /\ saved = {}

--------------------------------------------------------------------------
(* The program and the shim. *)

urlFor(b, n) == << Base[b], n >>

(* Those whose text is at the server in the new state, or is still the one   *)
(* that was. *)
Saved(f, Stored(_)) ==
    { b \in Browser : f[b] # NONE /\
        \/ Stored(urlFor(b, f[b].name)) = f[b].text
        \/ b \in saved /\ file[b] # NONE /\ f[b].text = file[b].text
        \/ file[b] = NONE /\ f[b].registered }

(* The program is blocked until the answer is there. *)
syncRequest(b, op, path, to, text, then) ==
    /\ wait[b] = NONE /\ sent < MaxRequest
    /\ sent' = sent + 1
    /\ op = "PUT" /\ ~SharedSave =>
          \A q \in Id : req[q] # NONE /\ req[q].op = "PUT" => req[q].path # path
    /\ \E q \in Id :
          /\ req[q] = NONE
          /\ req' = [req EXCEPT ![q] =
                       [op |-> op, path |-> path, to |-> to, text |-> text, pc |-> "start",
                        ino |-> NONE, n |-> 0, got |-> << >>, ans |-> NONE, cut |-> FALSE]]
          /\ wait' = [wait EXCEPT ![b] = [id |-> q, then |-> then]]
    /\ UNCHANGED <<file, dir, data, lost, crashes, saved>>

Old(b, n) ==
    /\ b \in Editor /\ file[b] = NONE
    /\ syncRequest(b, "GET", urlFor(b, n), NONE, << >>, "Old")

Buffer(b, f) == /\ wait[b] = NONE
                /\ file' = [file EXCEPT ![b] = f]
                /\ saved' = Saved(file', Content)
                /\ UNCHANGED <<wait, req, dir, data, sent, lost, crashes>>

New(b, n) ==
    /\ b \in Editor /\ file[b] = NONE
    /\ Buffer(b, [name |-> n, text |-> << >>, dirty |-> FALSE, registered |-> FALSE])

put_byte(b, t) ==
    /\ file[b] # NONE /\ file[b].text # t
    /\ Buffer(b, [file[b] EXCEPT !.text = t, !.dirty = TRUE])

Purge(b) ==
    /\ file[b] # NONE
    /\ Buffer(b, [file[b] EXCEPT !.text = << >>, !.dirty = TRUE])

Drop(b) == file[b] # NONE /\ Buffer(b, NONE)

Save(b, then) ==
    syncRequest(b, "PUT", urlFor(b, file[b].name), NONE, file[b].text, then)

Register(b) == file[b] # NONE /\ Save(b, "Register")

Close(b) == /\ file[b] # NONE /\ file[b].registered /\ file[b].dirty
            /\ Save(b, "Close")

Delete(b, n) == syncRequest(b, "DELETE", urlFor(b, n), NONE, << >>, "")

Exists(b, n) == syncRequest(b, "HEAD", urlFor(b, n), NONE, << >>, "")

(* The new name goes into the query as it is. *)
Rename(b, n, new) == syncRequest(b, "POST", urlFor(b, n), << "", new >>, << >>, "")

(* A mutant: the buffer is clean whatever became of the save. *)
CleanAnyway(f, then, ans, got) ==
    CASE then = "Old" /\ ans = "ok" ->
            [name |-> f, text |-> got, dirty |-> FALSE, registered |-> TRUE]
      [] then = "Old" /\ ans # "ok" -> NONE
      [] then \in {"Register", "Close"} -> [f EXCEPT !.dirty = FALSE, !.registered = TRUE]
      [] OTHER -> f

(* What the program's call does with the answer; for Old, f is the name. *)
Returned(f, then, ans, got) ==
    CASE then = "Old" /\ ans = "ok" ->
            [name |-> f, text |-> got, dirty |-> FALSE, registered |-> TRUE]
      [] then = "Old" /\ ans # "ok" -> NONE
      [] then = "Register" /\ ans = "ok" -> [f EXCEPT !.dirty = FALSE, !.registered = TRUE]
      [] then = "Close" /\ ans = "ok" -> [f EXCEPT !.dirty = FALSE]
      [] OTHER -> f

Resume(b, ans) ==
    LET w == wait[b] IN
    Returned(IF w.then = "Old" THEN req[w.id].path[2] ELSE file[b], w.then, ans, req[w.id].got)

--------------------------------------------------------------------------
(* The server.  Each step of a handler is a system call. *)

Step(q, r, d, x) ==
    /\ req' = [req EXCEPT ![q] = r]
    /\ dir' = d
    /\ data' = Restricted(x, Live(d, req'))
    /\ saved' = Saved(file, LAMBDA p : IF d[Abs(p)] = NONE THEN NONE ELSE x[d[Abs(p)]])
    /\ UNCHANGED <<file, wait, sent, lost, crashes>>

Answer(q, a) == [req[q] EXCEPT !.pc = "done", !.ino = NONE, !.ans = a]

At(q, op, pc) == req[q] # NONE /\ req[q].op = op /\ req[q].pc = pc

(* read, head and rename look at the file first. *)
Stat(q) ==
    LET r == req[q] IN
    /\ r # NONE /\ r.op \in {"GET", "HEAD", "POST"} /\ r.pc = "start"
    /\ Step(q, IF dir[Abs(r.path)] = NONE THEN Answer(q, "missing")
               ELSE IF r.op = "HEAD" THEN Answer(q, "ok")
               ELSE [r EXCEPT !.pc = IF r.op = "GET" THEN "open" ELSE "move"],
            dir, data)

(* ServeFile opens the file and sends what the descriptor gives it. *)
ReadOpen(q) ==
    LET r == req[q]  i == dir[Abs(req[q].path)] IN
    /\ At(q, "GET", "open")
    /\ Step(q, IF i = NONE THEN Answer(q, "missing")
               ELSE [r EXCEPT !.pc = "copy", !.ino = i], dir, data)

ReadCopy(q) ==
    LET r == req[q] IN
    /\ At(q, "GET", "copy")
    /\ Step(q, IF r.n < Len(data[r.ino])
               THEN [r EXCEPT !.n = @ + 1, !.got = Append(@, data[r.ino][r.n + 1])]
               ELSE Answer(q, "ok"), dir, data)

(* A mutant: the text is written where readers find it. *)
WriteInPlace(q) == Abs(req[q].path)

WriteTo(q) == Tmp(req[q].path)

(* os.Create empties the file if there is one. *)
WriteCreate(q) ==
    LET i == IF dir[WriteTo(q)] # NONE THEN dir[WriteTo(q)]
             ELSE CHOOSE k \in Inode : k \notin DOMAIN data
    IN /\ At(q, "PUT", "start") /\ i \in Inode
       /\ dir[WriteTo(q)] = NONE => i \notin DOMAIN data
       /\ Step(q, [req[q] EXCEPT !.pc = "copy", !.ino = i],
               [dir EXCEPT ![WriteTo(q)] = i],
               [k \in DOMAIN data \cup {i} |-> IF k = i THEN << >> ELSE data[k]])

(* One more block; those another writer has cut off read as zero. *)
WriteCopy(q) ==
    LET r == req[q]  k == req[q].n + 1  old == data[req[q].ino] IN
    /\ At(q, "PUT", "copy") /\ r.n < Len(r.text)
    /\ Step(q, [r EXCEPT !.n = k], dir,
            [data EXCEPT ![r.ino] =
               [j \in 1 .. IF Len(old) > k THEN Len(old) ELSE k |->
                   IF j = k THEN r.text[k] ELSE IF j <= Len(old) THEN old[j] ELSE 0]])

(* A mutant: a save that breaks off leaves what it has written. *)
WriteLeft(q) ==
    /\ At(q, "PUT", "copy") /\ req[q].cut
    /\ Step(q, Answer(q, "failed"), dir, data)

(* The body breaks off. *)
WriteFails(q) ==
    /\ At(q, "PUT", "copy") /\ req[q].cut
    /\ Step(q, Answer(q, "failed"), [dir EXCEPT ![WriteTo(q)] = NONE], data)

WriteRename(q) ==
    LET r == req[q]  i == dir[WriteTo(q)] IN
    /\ At(q, "PUT", "copy") /\ r.n = Len(r.text)
    /\ IF i = NONE THEN Step(q, Answer(q, "failed"), dir, data)
       ELSE Step(q, Answer(q, "ok"),
                 [dir EXCEPT ![Tmp(r.path)] = NONE, ![Abs(r.path)] = i], data)

Remove(q) ==
    LET p == req[q].path IN
    /\ At(q, "DELETE", "start")
    /\ Step(q, Answer(q, IF dir[Abs(p)] = NONE THEN "missing" ELSE "ok"),
            [dir EXCEPT ![Abs(p)] = NONE], data)

Move(q) ==
    LET r == req[q]  i == dir[Abs(req[q].path)] IN
    /\ At(q, "POST", "move")
    /\ IF i = NONE THEN Step(q, Answer(q, "failed"), dir, data)
       ELSE Step(q, Answer(q, "ok"),
                 [dir EXCEPT ![Abs(r.path)] = NONE, ![Abs(r.to)] = i], data)

Waiting(q) == { b \in Browser : wait[b] # NONE /\ wait[b].id = q }

Reply(q) ==
    /\ req[q] # NONE /\ req[q].pc = "done"
    /\ file' = [b \in Browser |-> IF b \in Waiting(q) THEN Resume(b, req[q].ans) ELSE file[b]]
    /\ wait' = [b \in Browser |-> IF b \in Waiting(q) THEN NONE ELSE wait[b]]
    /\ req' = [req EXCEPT ![q] = NONE]
    /\ saved' = Saved(file', Content)
    /\ UNCHANGED <<dir, data, sent, lost, crashes>>

(* The connection breaks: the shim answers status 0, the handler goes on. *)
Lose(b) ==
    /\ wait[b] # NONE /\ lost + crashes < MaxFault
    /\ lost' = lost + 1
    /\ file' = [file EXCEPT ![b] = Resume(b, "failed")]
    /\ wait' = [wait EXCEPT ![b] = NONE]
    /\ req' = [req EXCEPT ![wait[b].id].cut = TRUE]
    /\ saved' = Saved(file', Content)
    /\ UNCHANGED <<dir, data, sent, crashes>>

(* The server stops and is started again on the same tree. *)
Crash ==
    /\ lost + crashes < MaxFault
    /\ crashes' = crashes + 1
    /\ file' = [b \in Browser |-> IF wait[b] # NONE THEN Resume(b, "failed") ELSE file[b]]
    /\ wait' = [b \in Browser |-> NONE]
    /\ req' = [q \in Id |-> NONE]
    /\ data' = Restricted(data, Live(dir, req'))
    /\ saved' = Saved(file', Content)
    /\ UNCHANGED <<dir, sent, lost>>

Next ==
    \/ \E b \in Browser :
          \/ \E n \in Name : Old(b, n) \/ New(b, n) \/ Delete(b, n) \/ Exists(b, n)
          \/ \E n, new \in Name : Rename(b, n, new)
          \/ \E t \in Text : put_byte(b, t)
          \/ Purge(b) \/ Drop(b) \/ Register(b) \/ Close(b) \/ Lose(b)
    \/ \E q \in Id :
          \/ Stat(q) \/ ReadOpen(q) \/ ReadCopy(q)
          \/ WriteCreate(q) \/ WriteCopy(q) \/ WriteFails(q) \/ WriteRename(q)
          \/ Remove(q) \/ Move(q) \/ Reply(q)
    \/ Crash

Spec == Init /\ [][Next]_vars
--------------------------------------------------------------------------
(* Every request has its effect at once or none, however the handlers' steps *)
(* interleave, connections break and the server stops: a file is always one  *)
(* text that was saved, a read gets the text that was there when it was      *)
(* opened, and an answer says what happened (main.go: read, write, delete,   *)
(* rename). *)
Ans(r) == IF r.op = "GET" /\ r.pc = "copy" THEN data[r.ino]
          ELSE IF r.op = "GET" /\ r.ans = "ok" THEN r.got ELSE r.ans

Files == [p \in Path |-> Content(p)]
Calls == [q \in Id |-> IF req[q] = NONE THEN NONE
                       ELSE [op |-> req[q].op, path |-> req[q].path, to |-> req[q].to,
                             text |-> req[q].text, ans |-> Ans(req[q])]]

Service == INSTANCE FileService WITH files <- Files, call <- Calls

AtomicStore == Service!Spec

(* A file that is registered and not dirty holds a text that was at the      *)
(* server under its name, whatever answer was lost (Files__Register,         *)
(* Files__Close). *)
CleanIsSaved ==
    \A b \in Browser : file[b] # NONE /\ file[b].registered /\ ~file[b].dirty =>
        b \in saved

(* A save that fails takes its temporary file away: one is left over only    *)
(* where the server was stopped in the middle (write). *)
NoLeftovers ==
    crashes = 0 => \A p \in Path : dir[Tmp(p)] # NONE =>
        \E q \in Id : req[q] # NONE /\ req[q].op = "PUT" /\ req[q].path = p

(* "For the server's URL convention /api/files/<projectBase>/<path>": what   *)
(* programs do in their projects stays there (files-shim.ts, rename). *)
StaysInProject ==
    \A p \in Path : Content(p) # NONE => \E b \in Browser : Base[b] = p[1]
=============================================================================
