--------------------------- MODULE WebStoreProofs ---------------------------
(* What the file server does in many system calls it does as if at once, a   *)
(* clean buffer is a saved one, and a save leaves no temporary file behind:  *)
(* for any number of browsers, requests, files and texts, as long as no two  *)
(* saves of one path are on their way together.                              *)
EXTENDS WebStore, SequenceTheorems, TLAPS

TypeOK ==
    /\ file \in [Browser -> File \cup {NONE}]
    /\ wait \in [Browser -> Wait \cup {NONE}]
    /\ req \in [Id -> Request \cup {NONE}]
    /\ dir \in [Entry -> Inode \cup {NONE}]
    /\ DOMAIN data \subseteq Inode /\ data \in [DOMAIN data -> Body]
    /\ lost \in Nat /\ crashes \in Nat
    /\ saved \subseteq Browser

(* A tree d over the bodies x: no two entries share a body. *)
Tree(d, x) ==
    /\ d \in [Entry -> Inode \cup {NONE}]
    /\ DOMAIN x \subseteq Inode /\ x \in [DOMAIN x -> Body]
    /\ \A e \in Entry : d[e] # NONE => d[e] \in DOMAIN x
    /\ \A e, o \in Entry : d[e] = d[o] /\ d[e] # NONE => e = o

(* What a reader has sent is the beginning of a body that no save writes to. *)
Reading(r, d, x) ==
    r.op = "GET" /\ r.pc = "copy" =>
        /\ r.ino \in DOMAIN x
        /\ \A p \in Path : d[Tmp(p)] # r.ino
        /\ r.n <= Len(x[r.ino]) /\ r.got = SubSeq(x[r.ino], 1, r.n)

(* What a save has written is the beginning of its text, in its temporary    *)
(* file. *)
Writing(r, d, x) ==
    r.op = "PUT" /\ r.pc = "copy" =>
        /\ r.ino = d[Tmp(r.path)] /\ r.ino # NONE
        /\ r.n <= Len(r.text) /\ x[r.ino] = SubSeq(r.text, 1, r.n)

Sane(r) ==
    /\ r.pc = "copy" => r.op \in {"GET", "PUT"}
    /\ r.pc = "done" <=> r.ans # NONE
    /\ r.op = "POST" => r.to \in Path
    /\ r.pc \in {"start", "open", "move"} => r.n = 0 /\ r.got = << >> /\ r.ino = NONE

Handler(r, d, x) == Sane(r) /\ Reading(r, d, x) /\ Writing(r, d, x)

OneSave == \A q, k \in Id :
    req[q] # NONE /\ req[k] # NONE /\ req[q].op = "PUT" /\ req[k].op = "PUT"
        /\ req[q].path = req[k].path => q = k

StoreInv ==
    /\ Tree(dir, data)
    /\ \A q \in Id : req[q] # NONE => Handler(req[q], dir, data)
    /\ OneSave

(* A browser waits for a request that is there, with the text of its file,   *)
(* which is saved once the server says so. *)
Blocked(b) ==
    wait[b] # NONE =>
        /\ req[wait[b].id] # NONE
        /\ wait[b].then = "Old" => file[b] = NONE
        /\ wait[b].then \in {"Register", "Close"} =>
              /\ file[b] # NONE
              /\ LET r == req[wait[b].id]
                 IN /\ r.op = "PUT" /\ r.path = urlFor(b, file[b].name) /\ r.text = file[b].text
                    /\ r.ans = "ok" => b \in saved

SaveInv == CleanIsSaved /\ \A b \in Browser : Blocked(b)

(* A temporary file has its save. *)
TmpInv == crashes = 0 => \A p \in Path : dir[Tmp(p)] # NONE =>
              \E q \in Id : /\ req[q] # NONE /\ req[q].op = "PUT" /\ req[q].pc = "copy"
                            /\ req[q].path = p

(* What a request has been told, and the text under a name. *)
Said(r, x) == IF r.op = "GET" /\ r.pc = "copy" THEN x[r.ino]
              ELSE IF r.op = "GET" /\ r.ans = "ok" THEN r.got ELSE r.ans
Stored(d, x, p) == IF d[Abs(p)] = NONE THEN NONE ELSE x[d[Abs(p)]]

(* The step of handler q that makes it r, the tree d and the bodies x does   *)
(* nothing to be seen, or all the request asks for and says so. *)
Same(d, x)    == \A p \in Path : Stored(d, x, p) = Stored(dir, data, p)
Atomic(q, r, d, x) ==
    LET c == req[q]
        a == Said(r, x)
        here == Stored(dir, data, c.path)
    IN  \/ a = Said(c, data) /\ Same(d, x)
        \/ /\ Said(c, data) = NONE
           /\ \/ a = "failed" /\ Same(d, x)
              \/ a = "missing" /\ here = NONE /\ c.op # "PUT" /\ Same(d, x)
              \/ a = here /\ here # NONE /\ c.op = "GET" /\ Same(d, x)
              \/ a = "ok" /\ here # NONE /\ c.op = "HEAD" /\ Same(d, x)
              \/ /\ a = "ok" /\ here # NONE /\ c.op = "DELETE"
                 /\ \A p \in Path : Stored(d, x, p) =
                       IF p = c.path THEN NONE ELSE Stored(dir, data, p)
              \/ /\ a = "ok" /\ here # NONE /\ c.op = "POST"
                 /\ \A p \in Path : Stored(d, x, p) =
                       IF p = c.to THEN here
                       ELSE IF p = c.path THEN NONE ELSE Stored(dir, data, p)
              \/ /\ a = "ok" /\ c.op = "PUT"
                 /\ \A p \in Path : Stored(d, x, p) =
                       IF p = c.path THEN c.text ELSE Stored(dir, data, p)

(* Such a step leaves the other handlers what they read and write, and no    *)
(* temporary file without a save. *)
Allowed(q, r, d, x) ==
    /\ r \in Request /\ r.op = req[q].op /\ r.path = req[q].path
    /\ r.to = req[q].to /\ r.text = req[q].text
    /\ Tree(d, x) /\ Handler(r, d, x)
    /\ \A k \in Id : k # q /\ req[k] # NONE =>
          /\ Handler(req[k], d, x)
          /\ req[k].op = "GET" /\ req[k].pc = "copy" => x[req[k].ino] = data[req[k].ino]
    /\ \A p \in Path : d[Tmp(p)] # NONE =>
          IF r.op = "PUT" /\ p = r.path THEN r.pc = "copy" ELSE dir[Tmp(p)] # NONE
    /\ Atomic(q, r, d, x)

Taken(q) == \E r, d, x : Step(q, r, d, x) /\ Allowed(q, r, d, x)

-----------------------------------------------------------------------------
(* Entries and texts. *)

LEMMA EntryFacts ==
    /\ \A p \in Path : Abs(p) \in Entry /\ Tmp(p) \in Entry /\ Abs(p) # Tmp(p)
    /\ \A p, o \in Path : /\ (Abs(p) = Abs(o) => p = o)
                          /\ (Tmp(p) = Tmp(o) => p = o)
                          /\ Abs(p) # Tmp(o) /\ Tmp(p) # Abs(o)
  BY DEF Abs, Tmp, Entry

(* One more block copied from s. *)
LEMMA PrefixGrows ==
    ASSUME NEW s \in Body, NEW n \in Nat, n < Len(s)
    PROVE  /\ SubSeq(s, 1, n + 1) = Append(SubSeq(s, 1, n), s[n + 1])
           /\ SubSeq(s, 1, n + 1) \in Body /\ Len(SubSeq(s, 1, n)) = n
           /\ n + 1 \in Nat /\ n + 1 <= Len(s)
           /\ SubSeq(s, 1, n + 1) = [j \in 1 .. n + 1 |-> s[j]]
           /\ SubSeq(s, 1, n) = [j \in 1 .. n |-> s[j]]
  <1>1. Len(s) \in Nat /\ \A j \in 1 .. Len(s) : s[j] \in Int
    BY DEF Body
  <1>2. /\ SubSeq(s, 1, n) = [j \in 1 .. n |-> s[j]]
        /\ SubSeq(s, 1, n + 1) = [j \in 1 .. n + 1 |-> s[j]]
    BY <1>1 DEF Body
  <1>3. \A j \in 1 .. n + 1 : s[j] \in Int
    BY <1>1
  <1>4. /\ SubSeq(s, 1, n) \in Seq(Int) /\ SubSeq(s, 1, n + 1) \in Seq(Int)
        /\ Len(SubSeq(s, 1, n)) = n /\ Len(SubSeq(s, 1, n + 1)) = n + 1
    BY <1>1, <1>2, <1>3
  <1>5. SubSeq(s, 1, n + 1) = Append(SubSeq(s, 1, n), s[n + 1])
    BY <1>1, <1>2, <1>4
  <1> QED
    BY <1>1, <1>2, <1>4, <1>5 DEF Body

LEMMA PrefixEnds ==
    ASSUME NEW s \in Body
    PROVE  SubSeq(s, 1, Len(s)) = s /\ SubSeq(s, 1, 0) = << >> /\ << >> \in Body
           /\ Len(s) \in Nat /\ Len(<< >>) = 0
  BY DEF Body

LEMMA NoneFacts ==
    /\ NONE \notin {"ok", "missing", "failed"}
    /\ NONE \notin Request /\ NONE \notin Inode /\ NONE \notin Body /\ NONE \notin File
    /\ NONE \notin Path /\ NONE \notin Wait
  BY WebStoreAssumption

-----------------------------------------------------------------------------
(* A step of a handler. *)

(* The bodies that are still referred to stay as the step left them. *)
LEMMA StepFacts ==
    ASSUME TypeOK, NEW q \in Id, NEW r \in Request, NEW d, NEW x, Step(q, r, d, x), Tree(d, x)
    PROVE  /\ req' \in [Id -> Request \cup {NONE}] /\ dir' = d
           /\ \A k \in Id : req'[k] = IF k = q THEN r ELSE req[k]
           /\ UNCHANGED <<file, wait, sent, lost, crashes>>
           /\ DOMAIN data' \subseteq DOMAIN x
           /\ \A i \in DOMAIN data' : data'[i] = x[i]
           /\ \A e \in Entry : d[e] # NONE => d[e] \in DOMAIN data'
           /\ \A k \in Id : req'[k] # NONE /\ req'[k].ino # NONE /\ req'[k].ino \in DOMAIN x
                 => req'[k].ino \in DOMAIN data'
           /\ Tree(dir', data')
  <1>1. /\ req' = [req EXCEPT ![q] = r] /\ dir' = d /\ data' = Restricted(x, Live(d, req'))
        /\ UNCHANGED <<file, wait, sent, lost, crashes>>
        /\ req \in [Id -> Request \cup {NONE}]
    BY DEF Step, TypeOK
  <1>2. /\ req' \in [Id -> Request \cup {NONE}]
        /\ \A k \in Id : req'[k] = IF k = q THEN r ELSE req[k]
    BY <1>1
  <1> DEFINE L == Live(d, req')
  <1>3. \A e \in Entry : d[e] # NONE => d[e] \in L
    BY DEF Live
  <1>4. \A k \in Id : req'[k] # NONE /\ req'[k].ino # NONE => req'[k].ino \in L
    BY DEF Live
  <1> HIDE DEF L
  <1>5. /\ DOMAIN data' = DOMAIN x \cap L
        /\ \A i \in DOMAIN data' : data'[i] = x[i]
    BY <1>1 DEF Restricted, L
  <1>6. data' \in [DOMAIN data' -> Body]
    BY <1>1, <1>5 DEF Tree, Restricted
  <1>7. Tree(dir', data')
    BY <1>1, <1>3, <1>5, <1>6 DEF Tree
  <1> QED
    BY <1>1, <1>2, <1>3, <1>4, <1>5, <1>7 DEF Tree

(* What is known of a handler stays known when its body and its entries do. *)
LEMMA SameHandler ==
    ASSUME NEW r, NEW d, NEW x, NEW e, NEW y, Handler(r, d, x),
           r.pc = "copy" /\ r.op \in {"GET", "PUT"} => y[r.ino] = x[r.ino],
           r.pc = "copy" /\ r.op = "GET" =>
              r.ino \in DOMAIN y /\ \A p \in Path : e[Tmp(p)] # r.ino,
           r.pc = "copy" /\ r.op = "PUT" => e[Tmp(r.path)] = d[Tmp(r.path)]
    PROVE  Handler(r, e, y)
  BY DEF Handler, Reading, Writing

(* Such a step keeps the invariant. *)
LEMMA StepKeeps ==
    ASSUME TypeOK, StoreInv, NEW q \in Id, req[q] # NONE, NEW r, NEW d, NEW x,
           Step(q, r, d, x), Allowed(q, r, d, x)
    PROVE  StoreInv'
  <1>0. /\ r \in Request /\ Tree(d, x) /\ r.op = req[q].op /\ r.path = req[q].path
        /\ Handler(r, d, x) /\ \A k \in Id : k # q /\ req[k] # NONE => Handler(req[k], d, x)
    BY DEF Allowed
  <1>1. /\ req' \in [Id -> Request \cup {NONE}] /\ dir' = d
        /\ \A k \in Id : req'[k] = IF k = q THEN r ELSE req[k]
        /\ DOMAIN data' \subseteq DOMAIN x
        /\ \A i \in DOMAIN data' : data'[i] = x[i]
        /\ \A e \in Entry : d[e] # NONE => d[e] \in DOMAIN data'
        /\ \A k \in Id : req'[k] # NONE /\ req'[k].ino # NONE /\ req'[k].ino \in DOMAIN x
              => req'[k].ino \in DOMAIN data'
        /\ Tree(dir', data')
    BY <1>0, StepFacts
  <1>2. ASSUME NEW k \in Id, req'[k] # NONE
        PROVE  Handler(req'[k], dir', data')
    <2> DEFINE s == req'[k]
    <2>1. Handler(s, d, x) /\ s \in Request
      BY <1>0, <1>1, <1>2
    <2> HIDE DEF s
    <2>2. CASE s.pc = "copy" /\ s.op \in {"GET", "PUT"}
      <3>1. s.ino # NONE /\ s.ino \in DOMAIN x
        <4>1. CASE s.op = "GET"
          BY <1>0, <2>1, <2>2, <4>1, NoneFacts DEF Handler, Reading, Tree
        <4>2. CASE s.op = "PUT"
          <5>1. s.ino = d[Tmp(s.path)] /\ s.ino # NONE /\ s.path \in Path
            BY <2>1, <2>2, <4>2 DEF Handler, Writing, Request
          <5> QED
            BY <1>0, <5>1, EntryFacts DEF Tree
        <4> QED
          BY <2>2, <4>1, <4>2
      <3>2. s.ino \in DOMAIN data' /\ data'[s.ino] = x[s.ino]
        BY <1>1, <1>2, <3>1 DEF s
      <3>3. s.op = "GET" => \A p \in Path : d[Tmp(p)] # s.ino
        BY <2>1, <2>2 DEF Handler, Reading
      <3>4. Handler(s, d, data')
        BY <2>1, <2>2, <3>2, <3>3, SameHandler
      <3> QED
        BY <1>1, <3>4 DEF s
    <2>3. CASE ~(s.pc = "copy" /\ s.op \in {"GET", "PUT"})
      BY <2>1, <2>3 DEF s, Handler, Reading, Writing
    <2> QED
      BY <2>2, <2>3
  <1>3. OneSave'
    BY <1>0, <1>1 DEF StoreInv, OneSave
  <1> QED
    BY <1>1, <1>2, <1>3 DEF StoreInv

(* Answers end the handler. *)
LEMMA AnswerFacts ==
    ASSUME TypeOK, NEW q \in Id, req[q] # NONE, NEW a \in {"ok", "missing", "failed"},
           Sane(req[q])
    PROVE  /\ Answer(q, a) \in Request
           /\ Answer(q, a).op = req[q].op /\ Answer(q, a).path = req[q].path
           /\ Answer(q, a).to = req[q].to /\ Answer(q, a).text = req[q].text
           /\ Answer(q, a).got = req[q].got
           /\ Answer(q, a).pc = "done" /\ Answer(q, a).ans = a
           /\ \A d, x : Handler(Answer(q, a), d, x)
  <1> DEFINE r == req[q]
             s == Answer(q, a)
  <1>1. r \in Request
    BY DEF TypeOK
  <1> HIDE DEF r
  <1>2. s = [r EXCEPT !.pc = "done", !.ino = NONE, !.ans = a]
    BY DEF Answer, r
  <1>3. /\ s \in Request /\ s.op = r.op /\ s.path = r.path /\ s.to = r.to /\ s.text = r.text
        /\ s.got = r.got /\ s.pc = "done" /\ s.ans = a
    BY <1>1, <1>2 DEF Request
  <1> HIDE DEF s
  <1>4. Sane(s)
    BY <1>3, NoneFacts DEF Sane, r
  <1>5. \A d, x : Handler(s, d, x)
    BY <1>3, <1>4 DEF Handler, Reading, Writing
  <1> QED
    BY <1>3, <1>5 DEF s, r

-----------------------------------------------------------------------------
(* The handlers keep the invariant. *)

\* What is known of request q.
LEMMA ReqFacts ==
    ASSUME TypeOK, StoreInv, NEW q \in Id, req[q] # NONE
    PROVE  /\ req[q] \in Request /\ Handler(req[q], dir, data) /\ Sane(req[q])
           /\ req[q].path \in Path /\ req[q].text \in Body /\ req[q].got \in Body
           /\ req[q].n \in Nat /\ Len(req[q].text) \in Nat
           /\ Abs(req[q].path) \in Entry /\ Tmp(req[q].path) \in Entry
           /\ Tree(dir, data)
  <1>1. req[q] \in Request /\ Handler(req[q], dir, data) /\ Tree(dir, data)
    BY DEF TypeOK, StoreInv
  <1> QED
    BY <1>1, EntryFacts DEF Request, Handler, Body

\* A step that looks only.
LEMMA Looks ==
    ASSUME TypeOK, StoreInv, NEW q \in Id, req[q] # NONE, NEW r \in Request,
           Step(q, r, dir, data), r.op = req[q].op, r.path = req[q].path,
           r.to = req[q].to, r.text = req[q].text, r.op # "PUT",
           Handler(r, dir, data), Atomic(q, r, dir, data)
    PROVE  Taken(q)
  <1>1. Allowed(q, r, dir, data)
    BY DEF StoreInv, Allowed
  <1> QED
    BY <1>1 DEF Taken

\* A step that answers and takes bodies away from names, of the temporary ones
\* that of a save.
LEMMA Answers ==
    ASSUME TypeOK, StoreInv, NEW q \in Id, req[q] # NONE, NEW a \in {"ok", "missing", "failed"},
           NEW d, Step(q, Answer(q, a), d, data), Tree(d, data),
           \A p \in Path : IF req[q].op = "PUT" /\ p = req[q].path THEN d[Tmp(p)] = NONE
                           ELSE d[Tmp(p)] = dir[Tmp(p)],
           Atomic(q, Answer(q, a), d, data)
    PROVE  Taken(q)
  <1>1. ASSUME NEW k \in Id, k # q, req[k] # NONE
        PROVE  Handler(req[k], d, data)
    <2>1. req[k] \in Request /\ Handler(req[k], dir, data) /\ req[k].path \in Path
      BY <1>1, ReqFacts
    <2>2. req[k].op = "PUT" => d[Tmp(req[k].path)] = dir[Tmp(req[k].path)]
      BY <1>1, <2>1 DEF StoreInv, OneSave
    <2>3. req[k].pc = "copy" /\ req[k].op = "GET" =>
              req[k].ino \in DOMAIN data /\ \A p \in Path : d[Tmp(p)] # req[k].ino
      <3>1. SUFFICES ASSUME req[k].pc = "copy", req[k].op = "GET"
                     PROVE  req[k].ino \in DOMAIN data /\ \A p \in Path : d[Tmp(p)] # req[k].ino
        OBVIOUS
      <3>2. req[k].ino \in DOMAIN data /\ \A p \in Path : dir[Tmp(p)] # req[k].ino
        BY <2>1, <3>1 DEF Handler, Reading
      <3>3. req[k].ino # NONE
        BY <3>2, NoneFacts DEF TypeOK
      <3> QED
        BY <3>2, <3>3
    <2> QED
      BY <2>1, <2>2, <2>3, SameHandler
  <1>2. /\ Answer(q, a) \in Request /\ Answer(q, a).op = req[q].op
        /\ Answer(q, a).path = req[q].path /\ Handler(Answer(q, a), d, data)
        /\ Answer(q, a).to = req[q].to /\ Answer(q, a).text = req[q].text
    BY AnswerFacts, ReqFacts
  <1>3. Allowed(q, Answer(q, a), d, data)
    BY <1>1, <1>2 DEF Allowed
  <1> QED
    BY <1>3 DEF Taken

\* Answers that come with no effect.
LEMMA Refusals ==
    ASSUME TypeOK, StoreInv, NEW q \in Id, req[q] # NONE, req[q].op # "PUT", req[q].pc # "done",
           ~(req[q].op = "GET" /\ req[q].pc = "copy"),
           NEW a, Step(q, Answer(q, a), dir, data),
           \/ a = "missing" /\ dir[Abs(req[q].path)] = NONE
           \/ a = "ok" /\ req[q].op = "HEAD" /\ dir[Abs(req[q].path)] # NONE
           \/ a = "failed"
    PROVE  Taken(q)
  <1> DEFINE r == req[q]
             s == Answer(q, a)
  <1>1. /\ Sane(r) /\ Tree(dir, data) /\ r.path \in Path /\ Abs(r.path) \in Entry
    BY ReqFacts
  <1>2. s.op = r.op /\ s.pc = "done" /\ s.ans = a /\ a \in {"ok", "missing", "failed"}
    BY <1>1, AnswerFacts
  <1> HIDE DEF s
  <1>3. Said(s, data) = a /\ Said(r, data) = NONE
    BY <1>1, <1>2, NoneFacts DEF Said, Sane
  <1>4. dir[Abs(r.path)] # NONE => Stored(dir, data, r.path) # NONE
    BY <1>1, NoneFacts DEF Tree, Stored
  <1>5. Atomic(q, s, dir, data)
    BY <1>2, <1>3, <1>4 DEF Atomic, Same, Stored
  <1> QED
    BY <1>1, <1>2, <1>5, Answers DEF s

LEMMA StatTaken ==
    ASSUME TypeOK, StoreInv, NEW q \in Id, Stat(q)
    PROVE  Taken(q)
  <1> DEFINE r == req[q]
             s == [r EXCEPT !.pc = IF r.op = "GET" THEN "open" ELSE "move"]
  <1>1. /\ req[q] # NONE /\ r.op \in {"GET", "HEAD", "POST"} /\ r.pc = "start"
    BY DEF Stat
  <1>2. r \in Request /\ Sane(r) /\ Tree(dir, data)
    BY <1>1, ReqFacts
  <1>3. CASE dir[Abs(r.path)] = NONE
    BY <1>1, <1>3, Refusals DEF Stat
  <1>4. CASE dir[Abs(r.path)] # NONE /\ r.op = "HEAD"
    BY <1>1, <1>4, Refusals DEF Stat
  <1>5. CASE dir[Abs(r.path)] # NONE /\ r.op # "HEAD"
    <2>1. /\ s \in Request /\ s.op = r.op /\ s.path = r.path /\ s.pc \in {"open", "move"}
          /\ s.ans = r.ans /\ s.to = r.to /\ s.n = r.n /\ s.got = r.got /\ s.ino = r.ino
          /\ s.text = r.text
      BY <1>2 DEF Request
    <2>2. Step(q, s, dir, data)
      BY <1>5 DEF Stat
    <2> HIDE DEF s
    <2>3. Handler(s, dir, data)
      BY <1>1, <1>2, <2>1, NoneFacts DEF Handler, Sane, Reading, Writing
    <2>4. Atomic(q, s, dir, data)
      BY <1>1, <2>1 DEF Atomic, Same, Said
    <2> QED
      BY <1>1, <2>1, <2>2, <2>3, <2>4, Looks
  <1> QED
    BY <1>1, <1>3, <1>4, <1>5

LEMMA ReadOpenTaken ==
    ASSUME TypeOK, StoreInv, NEW q \in Id, ReadOpen(q)
    PROVE  Taken(q)
  <1> DEFINE r == req[q]
             i == dir[Abs(r.path)]
             s == [r EXCEPT !.pc = "copy", !.ino = i]
  <1>1. req[q] # NONE /\ r.op = "GET" /\ r.pc = "open"
    BY DEF ReadOpen, At
  <1>2. r \in Request /\ Sane(r) /\ Tree(dir, data) /\ Abs(r.path) \in Entry /\ r.path \in Path
    BY <1>1, ReqFacts
  <1>3. CASE i = NONE
    BY <1>1, <1>3, Refusals DEF ReadOpen
  <1>4. CASE i # NONE
    <2>1. i \in Inode /\ i \in DOMAIN data
      BY <1>2, <1>4 DEF Tree
    <2>2. \A p \in Path : dir[Tmp(p)] # i
      BY <1>2, <1>4, EntryFacts DEF Tree
    <2>3. Step(q, s, dir, data)
      BY <1>4 DEF ReadOpen
    <2>4. Stored(dir, data, r.path) = data[i]
      BY <1>4 DEF Stored
    <2> HIDE DEF i
    <2>5. /\ s \in Request /\ s.op = r.op /\ s.path = r.path /\ s.pc = "copy" /\ s.ino = i
          /\ s.ans = r.ans /\ s.n = r.n /\ s.got = r.got /\ s.to = r.to /\ s.text = r.text
      BY <1>2, <2>1 DEF Request
    <2>6. r.n = 0 /\ r.got = << >> /\ r.ans = NONE
      BY <1>1, <1>2 DEF Sane
    <2>7. data[i] \in Body /\ data[i] # NONE
      BY <1>2, <2>1, NoneFacts DEF Tree
    <2>8. Handler(s, dir, data)
      <3>1. s.n <= Len(data[i]) /\ s.got = SubSeq(data[i], 1, s.n)
        BY <2>5, <2>6, <2>7, PrefixEnds
      <3>2. Sane(s)
        BY <1>1, <2>5, <2>6 DEF Sane
      <3> QED
        BY <1>1, <2>1, <2>2, <2>5, <3>1, <3>2 DEF Handler, Reading, Writing
    <2> HIDE DEF s
    <2>9. Atomic(q, s, dir, data)
      <3>1. Said(s, data) = data[i] /\ Said(r, data) = NONE
        BY <1>1, <2>5, <2>6, NoneFacts DEF Said
      <3> QED
        BY <1>1, <2>4, <2>7, <3>1 DEF Atomic, Same
    <2> QED
      BY <1>1, <2>3, <2>5, <2>8, <2>9, Looks
  <1> QED
    BY <1>3, <1>4

LEMMA ReadCopyTaken ==
    ASSUME TypeOK, StoreInv, NEW q \in Id, ReadCopy(q)
    PROVE  Taken(q)
  <1> DEFINE r == req[q]
             t == data[r.ino]
             s == [r EXCEPT !.n = @ + 1, !.got = Append(@, t[r.n + 1])]
  <1>1. req[q] # NONE /\ r.op = "GET" /\ r.pc = "copy"
    BY DEF ReadCopy, At
  <1>2. r \in Request /\ Sane(r) /\ Tree(dir, data) /\ Handler(r, dir, data) /\ r.n \in Nat
    BY <1>1, ReqFacts
  <1>3. /\ r.ino \in DOMAIN data /\ t \in Body /\ r.n <= Len(t) /\ r.got = SubSeq(t, 1, r.n)
        /\ \A p \in Path : dir[Tmp(p)] # r.ino
    BY <1>1, <1>2 DEF Handler, Reading, Tree
  <1>4. CASE r.n < Len(t)
    <2>1. Step(q, s, dir, data)
      BY <1>4 DEF ReadCopy
    <2> HIDE DEF t
    <2>2. /\ SubSeq(t, 1, r.n + 1) = Append(r.got, t[r.n + 1]) /\ SubSeq(t, 1, r.n + 1) \in Body
          /\ r.n + 1 \in Nat /\ r.n + 1 <= Len(t)
      <3>1. /\ SubSeq(t, 1, r.n + 1) = Append(SubSeq(t, 1, r.n), t[r.n + 1])
            /\ SubSeq(t, 1, r.n + 1) \in Body /\ r.n + 1 \in Nat /\ r.n + 1 <= Len(t)
        BY <1>2, <1>3, <1>4, PrefixGrows
      <3> QED
        BY <1>3, <3>1
    <2>3. /\ s \in Request /\ s.op = r.op /\ s.path = r.path /\ s.pc = r.pc /\ s.ino = r.ino
          /\ s.n = r.n + 1 /\ s.got = SubSeq(t, 1, r.n + 1) /\ s.ans = r.ans /\ s.to = r.to
          /\ s.text = r.text
      BY <1>2, <2>2 DEF Request
    <2> HIDE DEF s
    <2>4. Handler(s, dir, data)
      BY <1>1, <1>2, <1>3, <2>2, <2>3 DEF Handler, Sane, Reading, Writing, t
    <2>5. Atomic(q, s, dir, data)
      BY <1>1, <2>3 DEF Atomic, Same, Said
    <2> QED
      BY <1>1, <2>1, <2>3, <2>4, <2>5, Looks
  <1>5. CASE ~(r.n < Len(t))
    <2> DEFINE a == Answer(q, "ok")
    <2>1. Step(q, a, dir, data)
      BY <1>5 DEF ReadCopy
    <2>2. a.op = r.op /\ a.pc = "done" /\ a.ans = "ok" /\ a.got = r.got
      BY <1>1, <1>2, AnswerFacts
    <2> HIDE DEF a, t
    <2>3. r.got = t
      <3>1. r.n = Len(t)
        BY <1>2, <1>3, <1>5, PrefixEnds
      <3> QED
        BY <1>3, <3>1, PrefixEnds
    <2>4. Said(a, data) = Said(r, data)
      BY <1>1, <2>2, <2>3 DEF Said, t
    <2>5. Atomic(q, a, dir, data)
      BY <2>4 DEF Atomic, Same
    <2> QED
      BY <1>1, <1>2, <2>1, <2>5, Answers DEF a
  <1> QED
    BY <1>4, <1>5

(* The new temporary file is empty and no reader has it. *)
LEMMA WriteCreateTaken ==
    ASSUME TypeOK, StoreInv, NEW q \in Id, WriteCreate(q)
    PROVE  Taken(q)
  <1> DEFINE r == req[q]
             t == Tmp(r.path)
             i == IF dir[t] # NONE THEN dir[t] ELSE CHOOSE k \in Inode : k \notin DOMAIN data
             d == [dir EXCEPT ![t] = i]
             x == [k \in DOMAIN data \cup {i} |-> IF k = i THEN << >> ELSE data[k]]
             s == [r EXCEPT !.pc = "copy", !.ino = i]
  <1>1. /\ req[q] # NONE /\ r.op = "PUT" /\ r.pc = "start" /\ i \in Inode
        /\ dir[t] = NONE => i \notin DOMAIN data
        /\ Step(q, s, d, x)
    BY DEF WriteCreate, At, WriteTo
  <1>2. /\ r \in Request /\ Sane(r) /\ Tree(dir, data) /\ t \in Entry /\ r.path \in Path
        /\ r.text \in Body
    BY <1>1, ReqFacts
  <1>3. dir[t] # NONE => i = dir[t] /\ i \in DOMAIN data
    BY <1>2 DEF Tree
  <1> HIDE DEF i
  <1>4. i # NONE
    BY <1>1, NoneFacts
  <1>5. /\ DOMAIN x = DOMAIN data \cup {i} /\ x[i] = << >>
        /\ \A k \in DOMAIN data : k # i => x[k] = data[k]
        /\ \A k \in DOMAIN x : x[k] \in Body
    BY <1>2, PrefixEnds DEF Tree
  <1>6. /\ d \in [Entry -> Inode \cup {NONE}] /\ d[t] = i
        /\ \A e \in Entry : e # t => d[e] = dir[e]
    BY <1>1, <1>2 DEF Tree
  <1>7. \A e \in Entry : e # t => dir[e] # i
    BY <1>1, <1>2, <1>3, <1>4 DEF Tree
  <1>8. /\ s \in Request /\ s.op = r.op /\ s.path = r.path /\ s.pc = "copy" /\ s.ino = i
        /\ s.n = r.n /\ s.text = r.text /\ s.ans = r.ans /\ s.to = r.to
    BY <1>1, <1>2 DEF Request
  <1>9. Tree(d, x)
    <2>1. DOMAIN x \subseteq Inode /\ x \in [DOMAIN x -> Body]
      BY <1>1, <1>2, <1>5 DEF Tree
    <2> HIDE DEF x, d
    <2>2. \A e \in Entry : d[e] # NONE => d[e] \in DOMAIN x
      BY <1>2, <1>5, <1>6 DEF Tree
    <2>3. \A e, o \in Entry : d[e] = d[o] /\ d[e] # NONE => e = o
      BY <1>2, <1>6, <1>7 DEF Tree
    <2> QED
      BY <1>6, <2>1, <2>2, <2>3 DEF Tree
  <1>10. Handler(s, d, x)
    <2>1. r.n = 0 /\ r.ans = NONE
      BY <1>1, <1>2 DEF Sane
    <2>2. SubSeq(r.text, 1, 0) = << >> /\ 0 <= Len(r.text)
      BY <1>2, PrefixEnds
    <2> HIDE DEF s, x, d
    <2> QED
      BY <1>1, <1>4, <1>5, <1>6, <1>8, <2>1, <2>2 DEF Handler, Sane, Reading, Writing
  <1>11. ASSUME NEW k \in Id, k # q, req[k] # NONE
         PROVE  /\ Handler(req[k], d, x)
                /\ req[k].op = "GET" /\ req[k].pc = "copy" => x[req[k].ino] = data[req[k].ino]
    <2>1. /\ req[k] \in Request /\ Handler(req[k], dir, data) /\ req[k].path \in Path
          /\ Tmp(req[k].path) \in Entry
      BY <1>11, ReqFacts
    <2> HIDE DEF x, d, s
    <2>2. CASE req[k].op = "PUT" /\ req[k].pc = "copy"
      <3>1. req[k].path # r.path
        BY <1>1, <1>11, <2>2 DEF StoreInv, OneSave
      <3>2. Tmp(req[k].path) # t
        BY <1>2, <2>1, <3>1, EntryFacts
      <3>3. req[k].ino = dir[Tmp(req[k].path)] /\ req[k].ino # NONE
        BY <2>1, <2>2 DEF Handler, Writing
      <3>4. d[Tmp(req[k].path)] = dir[Tmp(req[k].path)] /\ x[req[k].ino] = data[req[k].ino]
        BY <1>2, <1>5, <1>6, <1>7, <2>1, <3>2, <3>3 DEF Tree
      <3> QED
        BY <2>1, <2>2, <3>4, SameHandler
    <2>3. CASE req[k].op = "GET" /\ req[k].pc = "copy"
      <3>1. req[k].ino \in DOMAIN data /\ \A p \in Path : dir[Tmp(p)] # req[k].ino
        BY <2>1, <2>3 DEF Handler, Reading
      <3>2. req[k].ino # i
        BY <1>1, <1>2, <1>3, <3>1
      <3>3. \A p \in Path : d[Tmp(p)] # req[k].ino
        BY <1>6, <3>1, <3>2, EntryFacts
      <3>4. req[k].ino \in DOMAIN x /\ x[req[k].ino] = data[req[k].ino]
        BY <1>5, <3>1, <3>2
      <3> QED
        BY <2>1, <2>3, <3>3, <3>4, SameHandler
    <2>4. CASE ~(req[k].op \in {"GET", "PUT"} /\ req[k].pc = "copy")
      BY <2>1, <2>4 DEF Handler, Reading, Writing
    <2> QED
      BY <2>2, <2>3, <2>4
  <1> HIDE DEF s, d, x
  <1>12. Atomic(q, s, d, x)
    <2>1. ASSUME NEW p \in Path
          PROVE  Stored(d, x, p) = Stored(dir, data, p)
      <3>1. Abs(p) \in Entry /\ Abs(p) # t
        BY <1>2, EntryFacts
      <3>2. d[Abs(p)] = dir[Abs(p)] /\ dir[Abs(p)] # i
        BY <1>6, <1>7, <3>1
      <3>3. dir[Abs(p)] # NONE => x[dir[Abs(p)]] = data[dir[Abs(p)]]
        BY <1>2, <1>5, <3>1, <3>2 DEF Tree
      <3> QED
        BY <3>2, <3>3 DEF Stored
    <2>2. Said(s, x) = Said(r, data)
      BY <1>1, <1>8 DEF Said
    <2> QED
      BY <2>1, <2>2 DEF Atomic, Same
  <1>13. \A p \in Path : d[Tmp(p)] # NONE =>
            IF s.op = "PUT" /\ p = s.path THEN s.pc = "copy" ELSE dir[Tmp(p)] # NONE
    BY <1>1, <1>2, <1>6, <1>8, EntryFacts
  <1>14. Allowed(q, s, d, x)
    BY <1>8, <1>9, <1>10, <1>11, <1>12, <1>13 DEF Allowed
  <1> QED
    BY <1>1, <1>14 DEF Taken

(* One block more in a body that only this handler writes. *)
LEMMA WriteCopyTaken ==
    ASSUME TypeOK, StoreInv, NEW q \in Id, WriteCopy(q)
    PROVE  Taken(q)
  <1> DEFINE r == req[q]
             i == r.ino
             t == r.text
             k == r.n + 1
             old == data[i]
             new == [j \in 1 .. IF Len(old) > k THEN Len(old) ELSE k |->
                       IF j = k THEN t[k] ELSE IF j <= Len(old) THEN old[j] ELSE 0]
             x == [data EXCEPT ![i] = new]
             s == [r EXCEPT !.n = k]
  <1>1. /\ req[q] # NONE /\ r.op = "PUT" /\ r.pc = "copy" /\ r.n < Len(t)
        /\ Step(q, s, dir, x)
    BY DEF WriteCopy, At
  <1>2. /\ r \in Request /\ Sane(r) /\ Tree(dir, data) /\ r.path \in Path /\ t \in Body
        /\ r.n \in Nat /\ Handler(r, dir, data) /\ Tmp(r.path) \in Entry
    BY <1>1, ReqFacts
  <1>3. /\ i = dir[Tmp(r.path)] /\ i # NONE /\ i \in DOMAIN data /\ old = SubSeq(t, 1, r.n)
    BY <1>1, <1>2 DEF Handler, Writing, Tree
  <1>4. /\ new = SubSeq(t, 1, k) /\ new \in Body /\ k \in Nat /\ k <= Len(t)
    <2>1. /\ SubSeq(t, 1, k) = [j \in 1 .. k |-> t[j]] /\ old = [j \in 1 .. r.n |-> t[j]]
          /\ Len(old) = r.n /\ SubSeq(t, 1, k) \in Body /\ k \in Nat /\ k <= Len(t)
      BY <1>1, <1>2, <1>3, PrefixGrows
    <2> HIDE DEF t, old, i
    <2>2. (IF Len(old) > k THEN Len(old) ELSE k) = k
      BY <1>2, <2>1
    <2>3. \A j \in 1 .. k : (IF j = k THEN t[k] ELSE IF j <= Len(old) THEN old[j] ELSE 0) = t[j]
      BY <1>2, <2>1
    <2>4. new = [j \in 1 .. k |-> t[j]]
      BY <2>2, <2>3
    <2> QED
      BY <2>1, <2>4
  <1> HIDE DEF new
  <1>5. /\ DOMAIN x = DOMAIN data /\ x[i] = new
        /\ \A j \in DOMAIN data : j # i => x[j] = data[j]
        /\ x \in [DOMAIN x -> Body]
    BY <1>2, <1>3, <1>4 DEF Tree
  <1>6. /\ s \in Request /\ s.op = r.op /\ s.path = r.path /\ s.pc = r.pc /\ s.ino = i
        /\ s.n = k /\ s.text = t /\ s.ans = r.ans /\ s.to = r.to
    BY <1>2, <1>4 DEF Request
  <1> HIDE DEF s, x
  <1>7. Tree(dir, x)
    BY <1>2, <1>5 DEF Tree
  <1>8. Handler(s, dir, x)
    BY <1>1, <1>2, <1>3, <1>4, <1>5, <1>6 DEF Handler, Sane, Reading, Writing
  <1>9. ASSUME NEW c \in Id, c # q, req[c] # NONE
        PROVE  /\ Handler(req[c], dir, x)
               /\ req[c].op = "GET" /\ req[c].pc = "copy" => x[req[c].ino] = data[req[c].ino]
    <2>1. /\ req[c] \in Request /\ Handler(req[c], dir, data) /\ req[c].path \in Path
          /\ Tmp(req[c].path) \in Entry
      BY <1>9, ReqFacts
    <2>2. CASE req[c].op = "PUT" /\ req[c].pc = "copy"
      <3>1. req[c].path # r.path
        BY <1>1, <1>9, <2>2 DEF StoreInv, OneSave
      <3>2. req[c].ino = dir[Tmp(req[c].path)] /\ req[c].ino # NONE
        BY <2>1, <2>2 DEF Handler, Writing
      <3>3. req[c].ino # i
        BY <1>2, <1>3, <2>1, <3>1, <3>2, EntryFacts DEF Tree
      <3>4. x[req[c].ino] = data[req[c].ino]
        BY <1>2, <1>5, <2>1, <3>2, <3>3 DEF Tree
      <3> QED
        BY <2>1, <2>2, <3>4, SameHandler
    <2>3. CASE req[c].op = "GET" /\ req[c].pc = "copy"
      <3>1. req[c].ino \in DOMAIN data /\ \A p \in Path : dir[Tmp(p)] # req[c].ino
        BY <2>1, <2>3 DEF Handler, Reading
      <3>2. req[c].ino # i
        BY <1>2, <1>3, <3>1
      <3>3. req[c].ino \in DOMAIN x /\ x[req[c].ino] = data[req[c].ino]
        BY <1>5, <3>1, <3>2
      <3> QED
        BY <2>1, <2>3, <3>1, <3>3, SameHandler
    <2>4. CASE ~(req[c].op \in {"GET", "PUT"} /\ req[c].pc = "copy")
      BY <2>1, <2>4 DEF Handler, Reading, Writing
    <2> QED
      BY <2>2, <2>3, <2>4
  <1>10. Atomic(q, s, dir, x)
    <2>1. ASSUME NEW p \in Path
          PROVE  Stored(dir, x, p) = Stored(dir, data, p)
      <3>1. Abs(p) \in Entry /\ Abs(p) # Tmp(r.path)
        BY <1>2, EntryFacts
      <3>2. dir[Abs(p)] # i
        BY <1>2, <1>3, <3>1 DEF Tree
      <3>3. dir[Abs(p)] # NONE => x[dir[Abs(p)]] = data[dir[Abs(p)]]
        BY <1>2, <1>5, <3>1, <3>2 DEF Tree
      <3> QED
        BY <3>3 DEF Stored
    <2>2. Said(s, x) = Said(r, data)
      BY <1>1, <1>6 DEF Said
    <2> QED
      BY <2>1, <2>2 DEF Atomic, Same
  <1> QED
    BY <1>1, <1>6, <1>7, <1>8, <1>9, <1>10 DEF Allowed, Taken

\* Names change, bodies do not.
LEMMA TreeDrop ==
    ASSUME Tree(dir, data), NEW e \in Entry
    PROVE  Tree([dir EXCEPT ![e] = NONE], data)
  <1> DEFINE d == [dir EXCEPT ![e] = NONE]
  <1>1. /\ d \in [Entry -> Inode \cup {NONE}]
        /\ \A o \in Entry : d[o] = IF o = e THEN NONE ELSE dir[o]
    BY DEF Tree
  <1> HIDE DEF d
  <1> QED
    BY <1>1 DEF Tree, d

LEMMA TreeMove ==
    ASSUME Tree(dir, data), NEW e \in Entry, NEW f \in Entry, dir[e] # NONE
    PROVE  /\ Tree([dir EXCEPT ![e] = NONE, ![f] = dir[e]], data)
           /\ \A o \in Entry : [dir EXCEPT ![e] = NONE, ![f] = dir[e]][o] =
                 IF o = f THEN dir[e] ELSE IF o = e THEN NONE ELSE dir[o]
  <1> DEFINE d == [dir EXCEPT ![e] = NONE, ![f] = dir[e]]
  <1>1. /\ d \in [Entry -> Inode \cup {NONE}]
        /\ \A o \in Entry : d[o] = IF o = f THEN dir[e] ELSE IF o = e THEN NONE ELSE dir[o]
    BY DEF Tree
  <1> HIDE DEF d
  <1>2. Tree(d, data)
    <2>1. \A o \in Entry : d[o] # NONE => d[o] \in DOMAIN data
      BY <1>1 DEF Tree
    <2>2. \A o, u \in Entry : d[o] = d[u] /\ d[o] # NONE => o = u
      BY <1>1 DEF Tree
    <2> QED
      BY <1>1, <2>1, <2>2 DEF Tree
  <1> QED
    BY <1>1, <1>2 DEF d

(* What is needed of an answer with an effect on the tree. *)
LEMMA Effects ==
    ASSUME TypeOK, StoreInv, NEW q \in Id, req[q] # NONE, req[q].op # "GET", req[q].pc # "done",
           NEW a \in {"ok", "missing", "failed"}
    PROVE  /\ Said(req[q], data) = NONE /\ Said(Answer(q, a), data) = a
           /\ dir[Abs(req[q].path)] # NONE => Stored(dir, data, req[q].path) # NONE
  <1>1. /\ Sane(req[q]) /\ Tree(dir, data) /\ req[q].path \in Path
        /\ Abs(req[q].path) \in Entry
    BY ReqFacts
  <1>2. Answer(q, a).op = req[q].op /\ Answer(q, a).ans = a
    BY <1>1, AnswerFacts
  <1> QED
    BY <1>1, <1>2, NoneFacts DEF Said, Sane, Tree, Stored

LEMMA WriteFailsTaken ==
    ASSUME TypeOK, StoreInv, NEW q \in Id, WriteFails(q)
    PROVE  Taken(q)
  <1> DEFINE r == req[q]
             d == [dir EXCEPT ![Tmp(r.path)] = NONE]
  <1>1. /\ req[q] # NONE /\ r.op = "PUT" /\ r.pc = "copy"
        /\ Step(q, Answer(q, "failed"), d, data)
    BY DEF WriteFails, At, WriteTo
  <1>2. Tree(dir, data) /\ Tmp(r.path) \in Entry /\ r.path \in Path
    BY <1>1, ReqFacts
  <1>3. Tree(d, data)
    BY <1>2, TreeDrop
  <1>4. \A e \in Entry : d[e] = IF e = Tmp(r.path) THEN NONE ELSE dir[e]
    BY <1>2 DEF Tree
  <1> HIDE DEF d
  <1>5. \A p \in Path : Stored(d, data, p) = Stored(dir, data, p)
    BY <1>2, <1>4, EntryFacts DEF Stored
  <1>6. \A p \in Path : IF r.op = "PUT" /\ p = r.path THEN d[Tmp(p)] = NONE
                         ELSE d[Tmp(p)] = dir[Tmp(p)]
    BY <1>1, <1>2, <1>4, EntryFacts
  <1>7. Atomic(q, Answer(q, "failed"), d, data)
    BY <1>1, <1>5, Effects DEF Atomic, Same
  <1> QED
    BY <1>1, <1>3, <1>6, <1>7, Answers

(* The text appears under its name with the rename, whole. *)
LEMMA WriteRenameTaken ==
    ASSUME TypeOK, StoreInv, NEW q \in Id, WriteRename(q)
    PROVE  Taken(q)
  <1> DEFINE r == req[q]
             t == Tmp(r.path)
             i == dir[t]
             d == [dir EXCEPT ![t] = NONE, ![Abs(r.path)] = i]
  <1>1. /\ req[q] # NONE /\ r.op = "PUT" /\ r.pc = "copy" /\ r.n = Len(r.text)
        /\ i # NONE => Step(q, Answer(q, "ok"), d, data)
    BY DEF WriteRename, At, WriteTo
  <1>2. /\ Tree(dir, data) /\ t \in Entry /\ r.path \in Path /\ Handler(r, dir, data)
        /\ Abs(r.path) \in Entry /\ r.text \in Body
    BY <1>1, ReqFacts
  <1>3. i # NONE /\ data[i] = r.text
    <2>1. i # NONE /\ data[i] = SubSeq(r.text, 1, r.n)
      BY <1>1, <1>2 DEF Handler, Writing
    <2> QED
      BY <1>1, <1>2, <2>1, PrefixEnds
  <1>4. /\ Tree(d, data)
        /\ \A e \in Entry : d[e] = IF e = Abs(r.path) THEN i ELSE IF e = t THEN NONE ELSE dir[e]
    BY <1>2, <1>3, TreeMove
  <1> HIDE DEF d, i
  <1>5. \A p \in Path : Stored(d, data, p) =
            IF p = r.path THEN r.text ELSE Stored(dir, data, p)
    BY <1>2, <1>3, <1>4, EntryFacts DEF Stored
  <1>6. \A p \in Path : IF r.op = "PUT" /\ p = r.path THEN d[Tmp(p)] = NONE
                         ELSE d[Tmp(p)] = dir[Tmp(p)]
    BY <1>1, <1>2, <1>4, EntryFacts
  <1>7. Atomic(q, Answer(q, "ok"), d, data)
    BY <1>1, <1>5, Effects DEF Atomic
  <1> QED
    BY <1>1, <1>3, <1>4, <1>6, <1>7, Answers

LEMMA RemoveTaken ==
    ASSUME TypeOK, StoreInv, NEW q \in Id, Remove(q)
    PROVE  Taken(q)
  <1> DEFINE r == req[q]
             i == dir[Abs(r.path)]
             d == [dir EXCEPT ![Abs(r.path)] = NONE]
  <1>1. /\ req[q] # NONE /\ r.op = "DELETE" /\ r.pc = "start"
        /\ Step(q, Answer(q, IF i = NONE THEN "missing" ELSE "ok"), d, data)
    BY DEF Remove, At
  <1>2. Tree(dir, data) /\ Abs(r.path) \in Entry /\ r.path \in Path
    BY <1>1, ReqFacts
  <1>3. Tree(d, data)
    BY <1>2, TreeDrop
  <1>4. \A e \in Entry : d[e] = IF e = Abs(r.path) THEN NONE ELSE dir[e]
    BY <1>2 DEF Tree
  <1> HIDE DEF d
  <1>5. \A p \in Path : Stored(d, data, p) =
            IF p = r.path THEN NONE ELSE Stored(dir, data, p)
    BY <1>2, <1>4, EntryFacts DEF Stored
  <1>6. \A p \in Path : IF r.op = "PUT" /\ p = r.path THEN d[Tmp(p)] = NONE
                         ELSE d[Tmp(p)] = dir[Tmp(p)]
    BY <1>1, <1>2, <1>4, EntryFacts
  <1>7. CASE i = NONE
    <2>1. \A p \in Path : Stored(d, data, p) = Stored(dir, data, p)
      BY <1>5, <1>7 DEF Stored
    <2>2. Stored(dir, data, r.path) = NONE
      BY <1>7 DEF Stored
    <2>3. Atomic(q, Answer(q, "missing"), d, data)
      BY <1>1, <2>1, <2>2, Effects DEF Atomic, Same
    <2> QED
      BY <1>1, <1>3, <1>6, <1>7, <2>3, Answers
  <1>8. CASE i # NONE
    <2>1. Atomic(q, Answer(q, "ok"), d, data)
      BY <1>1, <1>5, <1>8, Effects DEF Atomic
    <2> QED
      BY <1>1, <1>3, <1>6, <1>8, <2>1, Answers
  <1> QED
    BY <1>7, <1>8

LEMMA MoveTaken ==
    ASSUME TypeOK, StoreInv, NEW q \in Id, Move(q)
    PROVE  Taken(q)
  <1> DEFINE r == req[q]
             i == dir[Abs(r.path)]
             d == [dir EXCEPT ![Abs(r.path)] = NONE, ![Abs(r.to)] = i]
  <1>1. /\ req[q] # NONE /\ r.op = "POST" /\ r.pc = "move"
        /\ i = NONE => Step(q, Answer(q, "failed"), dir, data)
        /\ i # NONE => Step(q, Answer(q, "ok"), d, data)
    BY DEF Move, At
  <1>2. /\ Tree(dir, data) /\ Abs(r.path) \in Entry /\ r.path \in Path /\ Sane(r)
    BY <1>1, ReqFacts
  <1>3. r.to \in Path /\ Abs(r.to) \in Entry
    BY <1>1, <1>2, EntryFacts DEF Sane
  <1>4. CASE i = NONE
    BY <1>1, <1>4, Refusals
  <1>5. CASE i # NONE
    <2>1. /\ Tree(d, data)
          /\ \A e \in Entry : d[e] = IF e = Abs(r.to) THEN i
                                     ELSE IF e = Abs(r.path) THEN NONE ELSE dir[e]
      <3> DEFINE f == Abs(r.path)
                 g == Abs(r.to)
      <3>1. f \in Entry /\ g \in Entry /\ dir[f] # NONE /\ Tree(dir, data)
        BY <1>2, <1>3, <1>5
      <3>2. i = dir[f] /\ d = [dir EXCEPT ![f] = NONE, ![g] = dir[f]]
        OBVIOUS
      <3> HIDE DEF f, g, i, d
      <3>3. /\ Tree(d, data)
            /\ \A e \in Entry : d[e] = IF e = g THEN i ELSE IF e = f THEN NONE ELSE dir[e]
        <4>1. /\ Tree([dir EXCEPT ![f] = NONE, ![g] = dir[f]], data)
              /\ \A e \in Entry : [dir EXCEPT ![f] = NONE, ![g] = dir[f]][e] =
                    IF e = g THEN dir[f] ELSE IF e = f THEN NONE ELSE dir[e]
          BY <3>1, TreeMove
        <4> QED
          BY <3>2, <4>1
      <3> QED
        BY <3>3 DEF f, g
    <2>2. Stored(dir, data, r.path) = data[i]
      BY <1>5 DEF Stored
    <2> HIDE DEF d, i
    <2>3. \A p \in Path : Stored(d, data, p) =
              IF p = r.to THEN data[i]
              ELSE IF p = r.path THEN NONE ELSE Stored(dir, data, p)
      BY <1>2, <1>3, <1>5, <2>1, EntryFacts DEF Stored
    <2>4. \A p \in Path : IF r.op = "PUT" /\ p = r.path THEN d[Tmp(p)] = NONE
                           ELSE d[Tmp(p)] = dir[Tmp(p)]
      BY <1>1, <1>2, <1>3, <2>1, EntryFacts
    <2>5. Stored(dir, data, r.path) # NONE
      BY <1>1, <1>5, Effects DEF i
    <2>6. Atomic(q, Answer(q, "ok"), d, data)
      BY <1>1, <2>2, <2>3, <2>5, Effects DEF Atomic
    <2> QED
      BY <1>1, <1>5, <2>1, <2>4, <2>6, Answers DEF i, d
  <1> QED
    BY <1>4, <1>5

-----------------------------------------------------------------------------
(* What such a step keeps. *)

HandlerStep(q) ==
    \/ Stat(q) \/ ReadOpen(q) \/ ReadCopy(q)
    \/ WriteCreate(q) \/ WriteCopy(q) \/ WriteFails(q) \/ WriteRename(q)
    \/ Remove(q) \/ Move(q)

LEMMA HandlerTaken ==
    ASSUME TypeOK, StoreInv, NEW q \in Id, HandlerStep(q)
    PROVE  req[q] # NONE /\ Taken(q)
  <1>1. req[q] # NONE
    BY DEF HandlerStep, Stat, ReadOpen, ReadCopy, WriteCreate, WriteCopy, WriteFails, WriteRename,
       Remove, Move, At
  <1>2. Taken(q)
    BY StatTaken, ReadOpenTaken, ReadCopyTaken, WriteCreateTaken, WriteCopyTaken, WriteFailsTaken,
       WriteRenameTaken, RemoveTaken, MoveTaken DEF HandlerStep
  <1> QED
    BY <1>1, <1>2

LEMMA StepType ==
    ASSUME TypeOK, NEW q \in Id, NEW r, NEW d, NEW x, Step(q, r, d, x), Allowed(q, r, d, x)
    PROVE  TypeOK'
  <1>1. r \in Request /\ Tree(d, x)
    BY DEF Allowed
  <1>2. /\ req' \in [Id -> Request \cup {NONE}]
        /\ UNCHANGED <<file, wait, sent, lost, crashes>> /\ Tree(dir', data')
    BY <1>1, StepFacts
  <1>3. saved' \subseteq Browser
    BY DEF Step, Saved
  <1> QED
    BY <1>2, <1>3 DEF TypeOK, Tree

(* A saved file stays saved while the program does not change it. *)
LEMMA StaysSaved ==
    ASSUME NEW b \in Browser, b \in saved, file[b] # NONE, NEW f, NEW Has(_),
           f[b] # NONE, f[b].text = file[b].text
    PROVE  b \in Saved(f, Has)
  BY DEF Saved

LEMMA StepSaves ==
    ASSUME TypeOK, SaveInv, NEW q \in Id, req[q] # NONE, NEW r, NEW d, NEW x,
           Step(q, r, d, x), Allowed(q, r, d, x)
    PROVE  SaveInv'
  <1>1. /\ r \in Request /\ Tree(d, x) /\ r.op = req[q].op /\ r.path = req[q].path
        /\ r.text = req[q].text /\ Atomic(q, r, d, x)
    BY DEF Allowed
  <1>2. /\ \A k \in Id : req'[k] = IF k = q THEN r ELSE req[k]
        /\ UNCHANGED <<file, wait>>
    BY <1>1, StepFacts
  <1>3. \A b \in Browser : b \in saved /\ file[b] # NONE => b \in saved'
    BY StaysSaved DEF Step
  <1>4. CleanIsSaved'
    BY <1>2, <1>3 DEF SaveInv, CleanIsSaved
  <1>5. ASSUME NEW b \in Browser
        PROVE  Blocked(b)'
    <2>1. SUFFICES ASSUME wait[b] # NONE PROVE Blocked(b)'
      BY <1>2 DEF Blocked
    <2> DEFINE k == wait[b].id
    <2>2. k \in Id /\ Blocked(b)
      BY <2>1 DEF TypeOK, Wait, SaveInv
    <2>3. /\ req[k] # NONE /\ req'[k] # NONE /\ req'[k].op = req[k].op
          /\ req'[k].path = req[k].path /\ req'[k].text = req[k].text
      BY <1>1, <1>2, <2>1, <2>2, NoneFacts DEF Blocked
    <2>4. ASSUME wait[b].then \in {"Register", "Close"}, req'[k].ans = "ok"
          PROVE  b \in saved'
      <3>1. /\ file[b] # NONE /\ req[k].op = "PUT" /\ req[k].path = urlFor(b, file[b].name)
            /\ req[k].text = file[b].text /\ (req[k].ans = "ok" => b \in saved)
        BY <2>1, <2>2, <2>4 DEF Blocked
      <3>2. CASE req[k].ans = "ok"
        BY <1>3, <3>1, <3>2
      <3>3. CASE req[k].ans # "ok"
        <4>1. k = q /\ r.ans = "ok" /\ r.op = "PUT" /\ req[q].ans # "ok"
          BY <1>1, <1>2, <2>2, <2>4, <3>1, <3>3
        <4>2. Said(r, x) = "ok" /\ Said(req[q], data) # "ok"
          BY <1>1, <4>1 DEF Said
        <4>3. req[q].path \in Path /\ req[q].path = r.path
          BY <1>1 DEF Request
        <4>4. Stored(d, x, req[q].path) = req[q].text
          BY <1>1, <4>1, <4>2, <4>3, NoneFacts DEF Atomic
        <4>5. (IF d[Abs(urlFor(b, file[b].name))] = NONE THEN NONE
               ELSE x[d[Abs(urlFor(b, file[b].name))]]) = file[b].text
          BY <3>1, <4>1, <4>4 DEF Stored
        <4> QED
          BY <3>1, <4>5 DEF Step, Saved
      <3> QED
        BY <3>2, <3>3
    <2> QED
      BY <1>2, <2>1, <2>2, <2>3, <2>4 DEF Blocked, urlFor
  <1> QED
    BY <1>4, <1>5 DEF SaveInv

LEMMA StepTmp ==
    ASSUME TypeOK, TmpInv, NEW q \in Id, req[q] # NONE, NEW r, NEW d, NEW x,
           Step(q, r, d, x), Allowed(q, r, d, x)
    PROVE  TmpInv'
  <1>1. /\ r \in Request /\ Tree(d, x) /\ r.op = req[q].op /\ r.path = req[q].path
        /\ \A p \in Path : d[Tmp(p)] # NONE =>
              IF r.op = "PUT" /\ p = r.path THEN r.pc = "copy" ELSE dir[Tmp(p)] # NONE
    BY DEF Allowed
  <1>2. /\ \A k \in Id : req'[k] = IF k = q THEN r ELSE req[k]
        /\ dir' = d /\ crashes' = crashes
    BY <1>1, StepFacts
  <1>3. ASSUME NEW p \in Path, crashes = 0, d[Tmp(p)] # NONE
        PROVE  \E k \in Id : /\ req'[k] # NONE /\ req'[k].op = "PUT" /\ req'[k].pc = "copy"
                             /\ req'[k].path = p
    <2>1. CASE r.op = "PUT" /\ p = r.path
      BY <1>1, <1>2, <1>3, <2>1, NoneFacts
    <2>2. CASE ~(r.op = "PUT" /\ p = r.path)
      <3>1. PICK k \in Id : /\ req[k] # NONE /\ req[k].op = "PUT" /\ req[k].pc = "copy"
                            /\ req[k].path = p
        BY <1>1, <1>3, <2>2 DEF TmpInv
      <3>2. k # q
        BY <1>1, <2>2, <3>1
      <3> QED
        BY <1>2, <3>1, <3>2
    <2> QED
      BY <2>1, <2>2
  <1> QED
    BY <1>2, <1>3 DEF TmpInv

-----------------------------------------------------------------------------
(* The program's own steps, and what the answers do to its files. *)

\* What the files become on the way to the new state.
Kept(b) ==
    \/ file'[b] = file[b]
    \/ file'[b] = NONE
    \/ file[b] = NONE /\ (file'[b].registered => b \in saved' \/ file'[b].dirty)
    \/ /\ file[b] # NONE
       /\ file'[b].registered /\ ~file'[b].dirty => b \in saved'

LEMMA KeptClean ==
    ASSUME SaveInv, saved' = Saved(file', Content), \A b \in Browser : Kept(b)
    PROVE  CleanIsSaved'
  <1> SUFFICES ASSUME NEW b \in Browser, file'[b] # NONE, file'[b].registered, ~file'[b].dirty
               PROVE  b \in saved'
    BY DEF CleanIsSaved
  <1>1. CASE file'[b] = file[b]
    BY <1>1 DEF SaveInv, CleanIsSaved, Saved
  <1>2. CASE file'[b] # file[b]
    BY <1>2 DEF Kept
  <1> QED
    BY <1>1, <1>2

\* What a call gets back.
LEMMA Returns ==
    ASSUME TypeOK, SaveInv, NEW b \in Browser, wait[b] # NONE,
           NEW ans \in {"ok", "missing", "failed"},
           ans = "ok" => req[wait[b].id].ans = "ok"
    PROVE  /\ wait[b].id \in Id /\ req[wait[b].id] # NONE
           /\ Resume(b, ans) \in File \cup {NONE}
           /\ file[b] = NONE /\ Resume(b, ans) # NONE => Resume(b, ans).registered
           /\ file[b] # NONE =>
                 /\ Resume(b, ans) # NONE /\ Resume(b, ans).text = file[b].text
                 /\ Resume(b, ans).registered /\ ~Resume(b, ans).dirty => b \in saved
  <1> DEFINE w == wait[b]
             r == req[w.id]
  <1>1. w \in Wait /\ Blocked(b) /\ w.id \in Id /\ w.then \in {"Old", "Register", "Close", ""}
    BY DEF TypeOK, SaveInv, Wait
  <1>2. r # NONE /\ r \in Request /\ r.path[2] \in Name /\ r.got \in Body
    BY <1>1, NoneFacts DEF TypeOK, Blocked, Request, Path
  <1>3. file[b] \in File \cup {NONE}
    BY DEF TypeOK
  <1>4. CASE w.then = "Old"
    <2>1. Resume(b, ans) = IF ans = "ok"
                           THEN [name |-> r.path[2], text |-> r.got, dirty |-> FALSE,
                                 registered |-> TRUE]
                           ELSE NONE
      BY <1>4 DEF Resume, Returned
    <2>2. file[b] = NONE
      BY <1>1, <1>4 DEF Blocked
    <2> DEFINE f == [name |-> r.path[2], text |-> r.got, dirty |-> FALSE, registered |-> TRUE]
    <2>3. f \in File /\ f.registered
      BY <1>2 DEF File
    <2> QED
      BY <1>1, <1>2, <2>1, <2>2, <2>3
  <1>5. CASE w.then = "Register"
    <2>1. Resume(b, ans) = IF ans = "ok" THEN [file[b] EXCEPT !.dirty = FALSE, !.registered = TRUE]
                           ELSE file[b]
      BY <1>5 DEF Resume, Returned
    <2>2. file[b] # NONE /\ file[b] \in File /\ (ans = "ok" => b \in saved)
      BY <1>1, <1>3, <1>5 DEF Blocked
    <2>3. file[b].registered /\ ~file[b].dirty => b \in saved
      BY <2>2 DEF SaveInv, CleanIsSaved
    <2>4. Resume(b, ans) \in File /\ Resume(b, ans).text = file[b].text
      BY <2>1, <2>2 DEF File
    <2> QED
      BY <1>1, <1>2, <2>1, <2>2, <2>3, <2>4, NoneFacts
  <1>6. CASE w.then = "Close"
    <2>1. Resume(b, ans) = IF ans = "ok" THEN [file[b] EXCEPT !.dirty = FALSE] ELSE file[b]
      BY <1>6 DEF Resume, Returned
    <2>2. file[b] # NONE /\ file[b] \in File /\ (ans = "ok" => b \in saved)
      BY <1>1, <1>3, <1>6 DEF Blocked
    <2>3. file[b].registered /\ ~file[b].dirty => b \in saved
      BY <2>2 DEF SaveInv, CleanIsSaved
    <2>4. Resume(b, ans) \in File /\ Resume(b, ans).text = file[b].text
      BY <2>1, <2>2 DEF File
    <2> QED
      BY <1>1, <1>2, <2>1, <2>2, <2>3, <2>4, NoneFacts
  <1>7. CASE w.then = ""
    <2>1. Resume(b, ans) = file[b]
      BY <1>7 DEF Resume, Returned
    <2> QED
      BY <1>1, <1>2, <1>3, <2>1 DEF SaveInv, CleanIsSaved
  <1> QED
    BY <1>1, <1>4, <1>5, <1>6, <1>7

\* A file that an answer changes.
LEMMA ReturnsKept ==
    ASSUME TypeOK, SaveInv, NEW b \in Browser, wait[b] # NONE,
           NEW ans \in {"ok", "missing", "failed"},
           ans = "ok" => req[wait[b].id].ans = "ok",
           file'[b] = Resume(b, ans), saved' = Saved(file', Content)
    PROVE  Kept(b)
  <1> DEFINE f == Resume(b, ans)
  <1>1. /\ f \in File \cup {NONE}
        /\ file[b] = NONE /\ f # NONE => f.registered
        /\ file[b] # NONE => f # NONE /\ f.text = file[b].text
                             /\ (f.registered /\ ~f.dirty => b \in saved)
    BY Returns
  <1> HIDE DEF f
  <1>2. file'[b] = f
    BY DEF f
  <1>3. CASE file[b] = NONE /\ f # NONE
    <2>1. b \in saved'
      BY <1>1, <1>2, <1>3 DEF Saved
    <2> QED
      BY <1>3, <2>1 DEF Kept
  <1>4. CASE file[b] # NONE
    <2>1. b \in saved => b \in saved'
      BY <1>1, <1>2, <1>4 DEF Saved
    <2> QED
      BY <1>1, <1>2, <1>4, <2>1 DEF Kept
  <1>5. CASE f = NONE
    BY <1>2, <1>5 DEF Kept
  <1> QED
    BY <1>3, <1>4, <1>5

\* The tree and the requests stay.
LEMMA StoreSame ==
    ASSUME StoreInv, UNCHANGED <<req, dir, data>>
    PROVE  StoreInv'
  BY DEF StoreInv, OneSave, Tree, Handler, Sane, Reading, Writing, Abs, Tmp

(* New, put_byte, Purge and Drop. *)
BufferStep(b) ==
    \/ \E n \in Name : New(b, n)
    \/ \E t \in Text : put_byte(b, t)
    \/ Purge(b) \/ Drop(b)

LEMMA BufferFacts ==
    ASSUME TypeOK, NEW b \in Browser, BufferStep(b)
    PROVE  \E f \in File \cup {NONE} :
               Buffer(b, f) /\ (f # NONE => f.dirty \/ ~f.registered)
  <1>0. file[b] \in File \cup {NONE}
    BY DEF TypeOK
  <1>1. ASSUME NEW n \in Name, New(b, n)
        PROVE  \E f \in File \cup {NONE} :
                  Buffer(b, f) /\ (f # NONE => f.dirty \/ ~f.registered)
    <2> DEFINE f == [name |-> n, text |-> << >>, dirty |-> FALSE, registered |-> FALSE]
    <2>1. f \in File /\ ~f.registered
      BY WebStoreAssumption DEF File
    <2> QED
      BY <1>1, <2>1 DEF New
  <1>2. ASSUME NEW t \in Text, put_byte(b, t)
        PROVE  \E f \in File \cup {NONE} :
                  Buffer(b, f) /\ (f # NONE => f.dirty \/ ~f.registered)
    <2> DEFINE f == [file[b] EXCEPT !.text = t, !.dirty = TRUE]
    <2>0. file[b] # NONE /\ Buffer(b, f)
      BY <1>2 DEF put_byte
    <2>1. f \in File /\ f.dirty
      BY <1>0, <2>0, WebStoreAssumption DEF File
    <2> QED
      BY <2>0, <2>1
  <1>3. ASSUME Purge(b)
        PROVE  \E f \in File \cup {NONE} :
                  Buffer(b, f) /\ (f # NONE => f.dirty \/ ~f.registered)
    <2> DEFINE f == [file[b] EXCEPT !.text = << >>, !.dirty = TRUE]
    <2>0. file[b] # NONE /\ Buffer(b, f)
      BY <1>3 DEF Purge
    <2>1. f \in File /\ f.dirty
      BY <1>0, <2>0, WebStoreAssumption DEF File
    <2> QED
      BY <2>0, <2>1
  <1>4. CASE Drop(b)
    BY <1>4 DEF Drop
  <1> QED
    BY <1>1, <1>2, <1>3, <1>4 DEF BufferStep

LEMMA BufferKeeps ==
    ASSUME TypeOK, StoreInv, SaveInv, TmpInv, NEW b \in Browser, BufferStep(b)
    PROVE  TypeOK' /\ StoreInv' /\ SaveInv' /\ TmpInv'
  <1>1. PICK f \in File \cup {NONE} : Buffer(b, f) /\ (f # NONE => f.dirty \/ ~f.registered)
    BY BufferFacts
  <1>2. /\ wait[b] = NONE /\ file' = [file EXCEPT ![b] = f]
        /\ saved' = Saved(file', Content)
        /\ UNCHANGED <<wait, req, dir, data, sent, lost, crashes>>
    BY <1>1 DEF Buffer
  <1>3. \A o \in Browser : file'[o] = IF o = b THEN f ELSE file[o]
    BY <1>2 DEF TypeOK
  <1>4. TypeOK'
    BY <1>2 DEF TypeOK, Saved
  <1>5. StoreInv'
    BY <1>2, StoreSame
  <1>6. \A o \in Browser : Kept(o)
    BY <1>1, <1>3 DEF Kept
  <1>7. CleanIsSaved'
    BY <1>2, <1>6, KeptClean
  <1>8. ASSUME NEW o \in Browser PROVE Blocked(o)'
    <2>1. CASE o = b
      BY <1>2, <2>1 DEF Blocked
    <2>2. CASE o # b
      <3>1. Blocked(o) /\ file'[o] = file[o] /\ (file[o] # NONE /\ o \in saved => o \in saved')
        BY <1>2, <1>3, <2>2 DEF SaveInv, Saved
      <3> QED
        BY <1>2, <3>1 DEF Blocked, urlFor
    <2> QED
      BY <2>1, <2>2
  <1>9. TmpInv'
    BY <1>2 DEF TmpInv, Tmp
  <1> QED
    BY <1>4, <1>5, <1>7, <1>8, <1>9 DEF SaveInv

(* Requests are sent. *)
CallStep(b) ==
    \/ \E n \in Name : Old(b, n) \/ Delete(b, n) \/ Exists(b, n)
    \/ \E n, new \in Name : Rename(b, n, new)
    \/ Register(b) \/ Close(b)

Asked(b, q, r, then) ==
    /\ wait[b] = NONE /\ req[q] = NONE /\ r # NONE
    /\ req' = [req EXCEPT ![q] = r]
    /\ wait' = [wait EXCEPT ![b] = [id |-> q, then |-> then]]
    /\ UNCHANGED <<file, dir, data, lost, crashes, saved>>
    /\ r.pc = "start" /\ r.ans = NONE /\ Sane(r)
    /\ r.op = "PUT" => \A k \in Id : req[k] # NONE /\ req[k].op = "PUT" => req[k].path # r.path
    /\ then = "Old" => file[b] = NONE
    /\ then \in {"Register", "Close"} =>
          /\ file[b] # NONE /\ r.op = "PUT"
          /\ r.path = urlFor(b, file[b].name) /\ r.text = file[b].text

LEMMA Asks ==
    ASSUME SharedSave = FALSE, TypeOK, NEW b \in Browser,
           NEW op \in {"GET", "HEAD", "PUT", "DELETE", "POST"}, NEW path \in Path,
           NEW to \in Path \cup {NONE}, NEW text \in Body,
           NEW then \in {"Old", "Register", "Close", ""},
           syncRequest(b, op, path, to, text, then),
           op = "POST" => to \in Path,
           then = "Old" => file[b] = NONE,
           then \in {"Register", "Close"} =>
              file[b] # NONE /\ op = "PUT" /\ path = urlFor(b, file[b].name) /\ text = file[b].text
    PROVE  \E q \in Id, r \in Request : Asked(b, q, r, then)
  <1> DEFINE r == [op |-> op, path |-> path, to |-> to, text |-> text, pc |-> "start",
                   ino |-> NONE, n |-> 0, got |-> << >>, ans |-> NONE, cut |-> FALSE]
  <1>1. PICK q \in Id : /\ req[q] = NONE /\ req' = [req EXCEPT ![q] = r]
                        /\ wait' = [wait EXCEPT ![b] = [id |-> q, then |-> then]]
    BY DEF syncRequest
  <1>2. /\ wait[b] = NONE /\ UNCHANGED <<file, dir, data, lost, crashes, saved>>
        /\ op = "PUT" => \A k \in Id : req[k] # NONE /\ req[k].op = "PUT" => req[k].path # path
    BY DEF syncRequest
  <1>3. << >> \in Body
    BY WebStoreAssumption
  <1>4. r \in Request
    BY <1>3 DEF Request
  <1>5. /\ r.op = op /\ r.path = path /\ r.to = to /\ r.text = text /\ r.pc = "start"
        /\ r.ino = NONE /\ r.n = 0 /\ r.got = << >> /\ r.ans = NONE
    OBVIOUS
  <1> HIDE DEF r
  <1>6. Sane(r)
    BY <1>5 DEF Sane
  <1>7. Asked(b, q, r, then)
    BY <1>1, <1>2, <1>4, <1>5, <1>6, NoneFacts DEF Asked
  <1> QED
    BY <1>4, <1>7

LEMMA CallFacts ==
    ASSUME SharedSave = FALSE, TypeOK, NEW b \in Browser, CallStep(b)
    PROVE  \E q \in Id, r \in Request, then \in {"Old", "Register", "Close", ""} :
              Asked(b, q, r, then)
  <1>1. /\ \A n \in Name : urlFor(b, n) \in Path /\ << "", n >> \in Path
        /\ << >> \in Body
    BY WebStoreAssumption DEF urlFor, Path, Body
  <1>2. file[b] # NONE => file[b].name \in Name /\ file[b].text \in Body
    BY DEF TypeOK, File
  <1>3. ASSUME NEW n \in Name, Old(b, n)
        PROVE  \E q \in Id, r \in Request : Asked(b, q, r, "Old")
    BY <1>1, <1>3, Asks DEF Old
  <1>4. ASSUME NEW n \in Name, Delete(b, n) \/ Exists(b, n)
        PROVE  \E q \in Id, r \in Request : Asked(b, q, r, "")
    <2>1. CASE Delete(b, n)
      BY <1>1, <2>1, Asks DEF Delete
    <2>2. CASE Exists(b, n)
      BY <1>1, <2>2, Asks DEF Exists
    <2> QED
      BY <1>4, <2>1, <2>2
  <1>5. ASSUME NEW n \in Name, NEW new \in Name, Rename(b, n, new)
        PROVE  \E q \in Id, r \in Request : Asked(b, q, r, "")
    <2>1. syncRequest(b, "POST", urlFor(b, n), << "", new >>, << >>, "")
      BY <1>5 DEF Rename
    <2> QED
      BY <1>1, <2>1, Asks
  <1>6. ASSUME Register(b)
        PROVE  \E q \in Id, r \in Request : Asked(b, q, r, "Register")
    BY <1>1, <1>2, <1>6, Asks DEF Register, Save
  <1>7. ASSUME Close(b)
        PROVE  \E q \in Id, r \in Request : Asked(b, q, r, "Close")
    BY <1>1, <1>2, <1>7, Asks DEF Close, Save
  <1> QED
    BY <1>3, <1>4, <1>5, <1>6, <1>7 DEF CallStep

LEMMA CallKeeps ==
    ASSUME SharedSave = FALSE, TypeOK, StoreInv, SaveInv, TmpInv, NEW b \in Browser, CallStep(b)
    PROVE  TypeOK' /\ StoreInv' /\ SaveInv' /\ TmpInv'
  <1>1. PICK q \in Id, r \in Request, then \in {"Old", "Register", "Close", ""} :
              Asked(b, q, r, then)
    BY CallFacts
  <1>2. /\ wait[b] = NONE /\ req[q] = NONE /\ r # NONE
        /\ req' = [req EXCEPT ![q] = r]
        /\ wait' = [wait EXCEPT ![b] = [id |-> q, then |-> then]]
        /\ UNCHANGED <<file, dir, data, lost, crashes, saved>>
        /\ r.pc = "start" /\ r.ans = NONE /\ Sane(r)
        /\ r.op = "PUT" =>
              \A k \in Id : req[k] # NONE /\ req[k].op = "PUT" => req[k].path # r.path
    BY <1>1 DEF Asked
  <1>3. /\ \A k \in Id : req'[k] = IF k = q THEN r ELSE req[k]
        /\ req' \in [Id -> Request \cup {NONE}]
    BY <1>2 DEF TypeOK
  <1>4. /\ \A o \in Browser : wait'[o] = IF o = b THEN [id |-> q, then |-> then] ELSE wait[o]
        /\ wait' \in [Browser -> Wait \cup {NONE}]
    BY <1>2 DEF TypeOK, Wait
  <1>5. TypeOK'
    BY <1>2, <1>3, <1>4 DEF TypeOK
  <1>6. Handler(r, dir, data)
    BY <1>2 DEF Handler, Reading, Writing
  <1>7. OneSave'
    BY <1>2, <1>3 DEF StoreInv, OneSave
  <1>8. StoreInv'
    <2>1. Tree(dir, data)' /\ Tree(dir, data)
      BY <1>2 DEF StoreInv, Tree
    <2>2. \A k \in Id : req'[k] # NONE => Handler(req'[k], dir', data')
      BY <1>2, <1>3, <1>6 DEF StoreInv
    <2> QED
      BY <1>7, <2>1, <2>2 DEF StoreInv
  <1>9. CleanIsSaved'
    BY <1>2 DEF SaveInv, CleanIsSaved
  <1>10. ASSUME NEW o \in Browser PROVE Blocked(o)'
    <2>1. CASE o = b
      <3> DEFINE w == [id |-> q, then |-> then]
      <3>0. w.id = q /\ w.then = then
        OBVIOUS
      <3>1. wait'[o].id = q /\ wait'[o].then = then /\ req'[q] = r
        <4>1. wait'[o] = w
          BY <1>4, <2>1
        <4>2. req'[q] = r
          BY <1>3
        <4> HIDE DEF w
        <4> QED
          BY <3>0, <4>1, <4>2
      <3>2. /\ then = "Old" => file[b] = NONE
            /\ then \in {"Register", "Close"} =>
                  /\ file[b] # NONE /\ r.op = "PUT"
                  /\ r.path = urlFor(b, file[b].name) /\ r.text = file[b].text
        BY <1>1 DEF Asked
      <3> QED
        BY <1>2, <2>1, <3>1, <3>2, NoneFacts DEF Blocked, urlFor
    <2>2. CASE o # b
      <3>1. Blocked(o) /\ wait'[o] = wait[o] /\ (wait[o] # NONE => wait[o].id \in Id)
        BY <1>4, <2>2 DEF SaveInv, TypeOK, Wait
      <3>2. wait[o] # NONE => req'[wait[o].id] = req[wait[o].id]
        BY <1>2, <1>3, <3>1 DEF Blocked
      <3> QED
        BY <1>2, <3>1, <3>2 DEF Blocked, urlFor
    <2> QED
      BY <2>1, <2>2
  <1>11. TmpInv'
    <2>1. \A k \in Id : req[k] # NONE => req'[k] = req[k]
      BY <1>2, <1>3
    <2>2. ASSUME NEW p \in Path, crashes = 0, dir[Tmp(p)] # NONE
          PROVE  \E k \in Id : /\ req'[k] # NONE /\ req'[k].op = "PUT"
                               /\ req'[k].pc = "copy" /\ req'[k].path = p
      <3>1. PICK k \in Id : /\ req[k] # NONE /\ req[k].op = "PUT"
                            /\ req[k].pc = "copy" /\ req[k].path = p
        BY <2>2 DEF TmpInv
      <3> QED
        BY <2>1, <3>1
    <2>3. UNCHANGED <<dir, crashes>>
      BY <1>2
    <2> QED
      BY <2>2, <2>3 DEF TmpInv
  <1> QED
    BY <1>5, <1>8, <1>9, <1>10, <1>11 DEF SaveInv

(* Answers, lost connections and crashes. *)
LEMMA ReplyKeeps ==
    ASSUME TypeOK, StoreInv, SaveInv, TmpInv, NEW q \in Id, Reply(q)
    PROVE  TypeOK' /\ StoreInv' /\ SaveInv' /\ TmpInv'
  <1>1. /\ req[q] # NONE /\ req[q].pc = "done"
        /\ file' = [b \in Browser |-> IF b \in Waiting(q) THEN Resume(b, req[q].ans) ELSE file[b]]
        /\ wait' = [b \in Browser |-> IF b \in Waiting(q) THEN NONE ELSE wait[b]]
        /\ req' = [req EXCEPT ![q] = NONE]
        /\ saved' = Saved(file', Content)
        /\ UNCHANGED <<dir, data, sent, lost, crashes>>
    BY DEF Reply
  <1>2. req[q].ans \in {"ok", "missing", "failed"}
    <2>1. req[q].ans # NONE /\ req[q].ans \in {"ok", "missing", "failed", NONE}
      BY <1>1, ReqFacts DEF Sane, Request
    <2> QED
      BY <2>1
  <1>3. /\ \A k \in Id : req'[k] = IF k = q THEN NONE ELSE req[k]
        /\ req' \in [Id -> Request \cup {NONE}]
    BY <1>1 DEF TypeOK
  <1>4. ASSUME NEW b \in Browser
        PROVE  /\ b \in Waiting(q) => wait[b] # NONE /\ wait[b].id = q
               /\ b \notin Waiting(q) => wait[b] = NONE \/ wait[b].id # q
               /\ file'[b] = IF b \in Waiting(q) THEN Resume(b, req[q].ans) ELSE file[b]
               /\ wait'[b] = IF b \in Waiting(q) THEN NONE ELSE wait[b]
    BY <1>1, <1>4 DEF Waiting
  <1>5. ASSUME NEW b \in Browser
        PROVE  file'[b] \in File \cup {NONE}
    <2>1. CASE b \in Waiting(q)
      BY <1>2, <1>4, <2>1, Returns
    <2>2. CASE b \notin Waiting(q)
      BY <1>4, <2>2 DEF TypeOK
    <2> QED
      BY <2>1, <2>2
  <1>6. TypeOK'
    <2>1. file' \in [Browser -> File \cup {NONE}]
      BY <1>1, <1>5
    <2>2. wait' \in [Browser -> Wait \cup {NONE}]
      BY <1>1 DEF TypeOK
    <2>3. saved' \subseteq Browser
      BY <1>1 DEF Saved
    <2> QED
      BY <1>1, <1>3, <2>1, <2>2, <2>3 DEF TypeOK
  <1>7. StoreInv'
    <2>1. Tree(dir, data)'
      BY <1>1 DEF StoreInv, Tree
    <2>2. \A k \in Id : req'[k] # NONE => Handler(req'[k], dir', data')
      BY <1>1, <1>3 DEF StoreInv
    <2>3. OneSave'
      BY <1>3 DEF StoreInv, OneSave
    <2> QED
      BY <2>1, <2>2, <2>3 DEF StoreInv
  <1>8. ASSUME NEW b \in Browser PROVE Kept(b)
    <2>1. CASE b \in Waiting(q)
      BY <1>1, <1>2, <1>4, <2>1, ReturnsKept
    <2>2. CASE b \notin Waiting(q)
      BY <1>4, <2>2 DEF Kept
    <2> QED
      BY <2>1, <2>2
  <1>9. CleanIsSaved'
    BY <1>1, <1>8, KeptClean
  <1>10. ASSUME NEW b \in Browser PROVE Blocked(b)'
    <2>1. CASE b \in Waiting(q)
      BY <1>4, <2>1 DEF Blocked
    <2>2. CASE b \notin Waiting(q)
      <3>1. /\ Blocked(b) /\ wait'[b] = wait[b] /\ file'[b] = file[b]
            /\ (wait[b] # NONE => wait[b].id \in Id /\ wait[b].id # q)
        BY <1>4, <2>2 DEF SaveInv, TypeOK, Wait
      <3>2. wait[b] # NONE => req'[wait[b].id] = req[wait[b].id]
        BY <1>3, <3>1
      <3>3. file[b] # NONE /\ b \in saved => b \in saved'
        BY <1>1, <3>1 DEF Saved
      <3> QED
        BY <3>1, <3>2, <3>3 DEF Blocked, urlFor
    <2> QED
      BY <2>1, <2>2
  <1>11. TmpInv'
    <2>1. \A k \in Id : req[k] # NONE /\ req[k].pc = "copy" => req'[k] = req[k]
      BY <1>1, <1>3
    <2>2. ASSUME NEW p \in Path, crashes = 0, dir[Tmp(p)] # NONE
          PROVE  \E k \in Id : /\ req'[k] # NONE /\ req'[k].op = "PUT"
                               /\ req'[k].pc = "copy" /\ req'[k].path = p
      <3>1. PICK k \in Id : /\ req[k] # NONE /\ req[k].op = "PUT"
                            /\ req[k].pc = "copy" /\ req[k].path = p
        BY <2>2 DEF TmpInv
      <3> QED
        BY <2>1, <3>1
    <2>3. UNCHANGED <<dir, crashes>>
      BY <1>1
    <2> QED
      BY <2>2, <2>3 DEF TmpInv
  <1> QED
    BY <1>6, <1>7, <1>9, <1>10, <1>11 DEF SaveInv

LEMMA LoseKeeps ==
    ASSUME TypeOK, StoreInv, SaveInv, TmpInv, NEW b \in Browser, Lose(b)
    PROVE  TypeOK' /\ StoreInv' /\ SaveInv' /\ TmpInv'
  <1> DEFINE q == wait[b].id
             s == [req[q] EXCEPT !.cut = TRUE]
  <1>1. /\ wait[b] # NONE /\ lost' = lost + 1
        /\ file' = [file EXCEPT ![b] = Resume(b, "failed")]
        /\ wait' = [wait EXCEPT ![b] = NONE]
        /\ req' = [req EXCEPT ![q] = s]
        /\ saved' = Saved(file', Content)
        /\ UNCHANGED <<dir, data, sent, crashes>>
    BY DEF Lose
  <1>2. q \in Id /\ req[q] # NONE /\ Resume(b, "failed") \in File \cup {NONE}
    BY <1>1, Returns
  <1>3. /\ s \in Request /\ s # NONE /\ s.op = req[q].op /\ s.path = req[q].path
        /\ s.to = req[q].to /\ s.text = req[q].text /\ s.pc = req[q].pc /\ s.ino = req[q].ino
        /\ s.n = req[q].n /\ s.got = req[q].got /\ s.ans = req[q].ans
    <2>1. req[q] \in Request
      BY <1>2, ReqFacts
    <2> QED
      BY <2>1, NoneFacts DEF Request
  <1> HIDE DEF s
  <1>4. /\ \A k \in Id : req'[k] = IF k = q THEN s ELSE req[k]
        /\ req' \in [Id -> Request \cup {NONE}]
    BY <1>1, <1>2, <1>3 DEF TypeOK
  <1>5. \A o \in Browser : /\ file'[o] = IF o = b THEN Resume(b, "failed") ELSE file[o]
                           /\ wait'[o] = IF o = b THEN NONE ELSE wait[o]
    BY <1>1 DEF TypeOK
  <1>6. TypeOK'
    <2>1. /\ file' \in [Browser -> File \cup {NONE}]
          /\ wait' \in [Browser -> Wait \cup {NONE}]
      BY <1>1, <1>2 DEF TypeOK
    <2>2. saved' \subseteq Browser
      BY <1>1 DEF Saved
    <2>3. lost' \in Nat /\ UNCHANGED <<dir, data, crashes>>
      BY <1>1 DEF TypeOK
    <2> QED
      BY <1>4, <2>1, <2>2, <2>3 DEF TypeOK
  <1>7. StoreInv'
    <2>1. Tree(dir, data)'
      BY <1>1 DEF StoreInv, Tree
    <2>2. Handler(req[q], dir, data)
      BY <1>2, ReqFacts
    <2>3. Handler(s, dir, data)
      BY <1>3, <2>2 DEF Handler, Sane, Reading, Writing
    <2>4. \A k \in Id : req'[k] # NONE => Handler(req'[k], dir', data')
      BY <1>1, <1>4, <2>3 DEF StoreInv
    <2>5. OneSave'
      BY <1>2, <1>3, <1>4 DEF StoreInv, OneSave
    <2> QED
      BY <2>1, <2>4, <2>5 DEF StoreInv
  <1>8. ASSUME NEW o \in Browser PROVE Kept(o)
    <2>1. CASE o = b
      BY <1>1, <1>5, <2>1, ReturnsKept
    <2>2. CASE o # b
      BY <1>5, <2>2 DEF Kept
    <2> QED
      BY <2>1, <2>2
  <1>9. CleanIsSaved'
    BY <1>1, <1>8, KeptClean
  <1>10. ASSUME NEW o \in Browser PROVE Blocked(o)'
    <2>1. CASE o = b
      BY <1>5, <2>1 DEF Blocked
    <2>2. CASE o # b
      <3>1. /\ Blocked(o) /\ wait'[o] = wait[o] /\ file'[o] = file[o]
            /\ (wait[o] # NONE => wait[o].id \in Id)
        BY <1>5, <2>2 DEF SaveInv, TypeOK, Wait
      <3>2. wait[o] # NONE =>
               LET k == wait[o].id IN
               /\ req'[k] # NONE /\ req'[k].op = req[k].op /\ req'[k].path = req[k].path
               /\ req'[k].text = req[k].text /\ req'[k].ans = req[k].ans
        BY <1>3, <1>4, <3>1 DEF Blocked
      <3>3. file[o] # NONE /\ o \in saved => o \in saved'
        BY <1>1, <3>1 DEF Saved
      <3> QED
        BY <3>1, <3>2, <3>3 DEF Blocked, urlFor
    <2> QED
      BY <2>1, <2>2
  <1>11. TmpInv'
    <2>1. \A k \in Id : req[k] # NONE =>
             /\ req'[k] # NONE /\ req'[k].op = req[k].op
             /\ req'[k].pc = req[k].pc /\ req'[k].path = req[k].path
      BY <1>3, <1>4
    <2>2. ASSUME NEW p \in Path, crashes = 0, dir[Tmp(p)] # NONE
          PROVE  \E k \in Id : /\ req'[k] # NONE /\ req'[k].op = "PUT"
                               /\ req'[k].pc = "copy" /\ req'[k].path = p
      <3>1. PICK k \in Id : /\ req[k] # NONE /\ req[k].op = "PUT"
                            /\ req[k].pc = "copy" /\ req[k].path = p
        BY <2>2 DEF TmpInv
      <3> QED
        BY <2>1, <3>1
    <2>3. UNCHANGED <<dir, crashes>>
      BY <1>1
    <2> QED
      BY <2>2, <2>3 DEF TmpInv
  <1> QED
    BY <1>6, <1>7, <1>9, <1>10, <1>11 DEF SaveInv

LEMMA CrashKeeps ==
    ASSUME TypeOK, StoreInv, SaveInv, TmpInv, Crash
    PROVE  TypeOK' /\ StoreInv' /\ SaveInv' /\ TmpInv'
  <1>1. /\ crashes' = crashes + 1
        /\ file' = [b \in Browser |-> IF wait[b] # NONE THEN Resume(b, "failed") ELSE file[b]]
        /\ wait' = [b \in Browser |-> NONE]
        /\ req' = [q \in Id |-> NONE]
        /\ data' = Restricted(data, Live(dir, req'))
        /\ saved' = Saved(file', Content)
        /\ UNCHANGED <<dir, sent, lost>>
    BY DEF Crash
  <1>2. Tree(dir', data')
    <2> DEFINE L == Live(dir, req')
    <2>1. \A e \in Entry : dir[e] # NONE => dir[e] \in L
      BY DEF Live
    <2> HIDE DEF L
    <2>2. Tree(dir, data)
      BY DEF StoreInv
    <2>3. DOMAIN data' = DOMAIN data \cap L /\ \A i \in DOMAIN data' : data'[i] = data[i]
      BY <1>1 DEF Restricted, L
    <2>4. data' \in [DOMAIN data' -> Body]
      BY <1>1, <2>2, <2>3 DEF Tree, Restricted
    <2> QED
      BY <1>1, <2>1, <2>2, <2>3, <2>4 DEF Tree
  <1>3. TypeOK'
    <2>1. ASSUME NEW b \in Browser PROVE file'[b] \in File \cup {NONE}
      <3>1. CASE wait[b] # NONE
        <4>1. Resume(b, "failed") \in File \cup {NONE}
          BY <3>1, Returns
        <4> QED
          BY <1>1, <3>1, <4>1
      <3>2. CASE wait[b] = NONE
        BY <1>1, <3>2 DEF TypeOK
      <3> QED
        BY <3>1, <3>2
    <2>2. file' \in [Browser -> File \cup {NONE}]
      BY <1>1, <2>1
    <2>3. saved' \subseteq Browser
      BY <1>1 DEF Saved
    <2>4. crashes' \in Nat
      BY <1>1 DEF TypeOK
    <2> QED
      BY <1>1, <1>2, <2>2, <2>3, <2>4 DEF TypeOK, Tree
  <1>4. StoreInv'
    BY <1>1, <1>2 DEF StoreInv, OneSave
  <1>5. ASSUME NEW b \in Browser PROVE Kept(b)
    <2>1. CASE wait[b] # NONE
      BY <1>1, <2>1, ReturnsKept
    <2>2. CASE wait[b] = NONE
      BY <1>1, <2>2 DEF Kept
    <2> QED
      BY <2>1, <2>2
  <1>6. CleanIsSaved'
    BY <1>1, <1>5, KeptClean
  <1>7. \A b \in Browser : Blocked(b)'
    BY <1>1 DEF Blocked
  <1>8. TmpInv'
    BY <1>1 DEF TmpInv, TypeOK
  <1> QED
    BY <1>3, <1>4, <1>6, <1>7, <1>8 DEF SaveInv

-----------------------------------------------------------------------------
(* The invariant. *)

LEMMA Starts == Init => TypeOK /\ StoreInv /\ SaveInv /\ TmpInv
  <1> SUFFICES ASSUME Init PROVE TypeOK /\ StoreInv /\ SaveInv /\ TmpInv
    OBVIOUS
  <1>1. /\ file = [b \in Browser |-> NONE] /\ wait = [b \in Browser |-> NONE]
        /\ req = [q \in Id |-> NONE] /\ lost = 0 /\ crashes = 0 /\ saved = {}
    BY DEF Init
  <1>2. PICK F \in SUBSET { p \in Path : \E b \in Browser : Base[b] = p[1] } :
           \E t \in [F -> Text] :
              LET at == CHOOSE g \in [F -> Inode] : \A p, o \in F : g[p] = g[o] => p = o
              IN /\ at \in [F -> Inode] /\ \A p, o \in F : at[p] = at[o] => p = o
                 /\ dir = [e \in Entry |->
                              IF e[1] \in F /\ e = Abs(e[1]) THEN at[e[1]] ELSE NONE]
                 /\ data = [i \in { at[p] : p \in F } |-> t[CHOOSE p \in F : at[p] = i]]
    BY DEF Init
  <1> DEFINE at == CHOOSE g \in [F -> Inode] : \A p, o \in F : g[p] = g[o] => p = o
  <1>3. PICK t \in [F -> Text] :
              /\ at \in [F -> Inode] /\ \A p, o \in F : at[p] = at[o] => p = o
              /\ dir = [e \in Entry |-> IF e[1] \in F /\ e = Abs(e[1]) THEN at[e[1]] ELSE NONE]
              /\ data = [i \in { at[p] : p \in F } |-> t[CHOOSE p \in F : at[p] = i]]
    BY <1>2
  <1> HIDE DEF at
  <1>4. /\ DOMAIN data \subseteq Inode /\ \A p \in F : at[p] \in DOMAIN data
        /\ \A i \in DOMAIN data : data[i] \in Body
    <2>1. DOMAIN data = { at[p] : p \in F }
      BY <1>3
    <2>2. ASSUME NEW i \in DOMAIN data PROVE data[i] \in Body
      <3>1. PICK p \in F : at[p] = i
        BY <2>1
      <3>2. (CHOOSE o \in F : at[o] = i) \in F
        BY <3>1
      <3>3. data[i] = t[CHOOSE o \in F : at[o] = i]
        BY <1>3, <2>1
      <3> QED
        BY <3>2, <3>3, WebStoreAssumption
    <2>3. \A p \in F : at[p] \in Inode
      BY <1>3
    <2> QED
      BY <2>1, <2>2, <2>3
  <1>5. data \in [DOMAIN data -> Body]
    BY <1>3, <1>4
  <1>6. ASSUME NEW e \in Entry
        PROVE  /\ dir[e] \in Inode \cup {NONE}
               /\ dir[e] # NONE => e[1] \in F /\ e = Abs(e[1]) /\ dir[e] = at[e[1]]
    BY <1>3
  <1>7. Tree(dir, data)
    <2>1. dir \in [Entry -> Inode \cup {NONE}]
      BY <1>3, <1>6
    <2>2. \A e \in Entry : dir[e] # NONE => dir[e] \in DOMAIN data
      BY <1>4, <1>6
    <2>3. \A e, o \in Entry : dir[e] = dir[o] /\ dir[e] # NONE => e = o
      <3> SUFFICES ASSUME NEW e \in Entry, NEW o \in Entry, dir[e] = dir[o], dir[e] # NONE
                   PROVE  e = o
        OBVIOUS
      <3>1. /\ e[1] \in F /\ e = Abs(e[1]) /\ dir[e] = at[e[1]]
            /\ o[1] \in F /\ o = Abs(o[1]) /\ dir[o] = at[o[1]]
        BY <1>6
      <3>2. e[1] = o[1]
        BY <1>3, <3>1
      <3> QED
        BY <3>1, <3>2
    <2> QED
      BY <1>4, <1>5, <2>1, <2>2, <2>3 DEF Tree
  <1>8. TypeOK
    BY <1>1, <1>7 DEF TypeOK, Tree
  <1>9. StoreInv
    BY <1>1, <1>7 DEF StoreInv, OneSave
  <1>10. SaveInv
    BY <1>1 DEF SaveInv, CleanIsSaved, Blocked
  <1>11. TmpInv
    <2>1. \A p \in Path : dir[Tmp(p)] = NONE
      <3> SUFFICES ASSUME NEW p \in Path PROVE dir[Tmp(p)] = NONE
        OBVIOUS
      <3>1. Tmp(p) \in Entry /\ \A o \in Path : Tmp(p) # Abs(o)
        BY EntryFacts
      <3> QED
        BY <1>6, <3>1
    <2> QED
      BY <2>1 DEF TmpInv
  <1> QED
    BY <1>8, <1>9, <1>10, <1>11

\* The steps, by kind.
LEMMA Kinds ==
    Next <=> \/ \E b \in Browser : BufferStep(b) \/ CallStep(b) \/ Lose(b)
             \/ \E q \in Id : HandlerStep(q) \/ Reply(q)
             \/ Crash
  BY DEF Next, BufferStep, CallStep, HandlerStep

LEMMA Steps ==
    ASSUME SharedSave = FALSE, TypeOK, StoreInv, SaveInv, TmpInv, [Next]_vars
    PROVE  TypeOK' /\ StoreInv' /\ SaveInv' /\ TmpInv'
  <1>1. ASSUME NEW q \in Id, HandlerStep(q)
        PROVE  TypeOK' /\ StoreInv' /\ SaveInv' /\ TmpInv'
    <2>1. req[q] # NONE /\ Taken(q)
      BY <1>1, HandlerTaken
    <2>2. PICK r, d, x : Step(q, r, d, x) /\ Allowed(q, r, d, x)
      BY <2>1 DEF Taken
    <2> QED
      BY <2>1, <2>2, StepType, StepKeeps, StepSaves, StepTmp
  <1>2. ASSUME UNCHANGED vars
        PROVE  TypeOK' /\ StoreInv' /\ SaveInv' /\ TmpInv'
    <2>1. UNCHANGED <<file, wait, req, dir, data, lost, crashes, saved>>
      BY <1>2 DEF vars
    <2>2. TypeOK'
      BY <2>1 DEF TypeOK
    <2>3. StoreInv'
      BY <2>1, StoreSame
    <2>4. SaveInv'
      BY <2>1 DEF SaveInv, CleanIsSaved, Blocked, urlFor
    <2>5. TmpInv'
      BY <2>1 DEF TmpInv, Tmp
    <2> QED
      BY <2>2, <2>3, <2>4, <2>5
  <1>3. ASSUME Next
        PROVE  TypeOK' /\ StoreInv' /\ SaveInv' /\ TmpInv'
    BY <1>1, <1>3, Kinds, BufferKeeps, CallKeeps, ReplyKeeps, LoseKeeps, CrashKeeps
  <1> QED
    BY <1>2, <1>3

LEMMA StoreInvariant ==
    ASSUME SharedSave = FALSE
    PROVE  Spec => [](TypeOK /\ StoreInv /\ SaveInv /\ TmpInv)
  <1>1. Init => TypeOK /\ StoreInv /\ SaveInv /\ TmpInv
    BY Starts
  <1>2. TypeOK /\ StoreInv /\ SaveInv /\ TmpInv /\ [Next]_vars
            => (TypeOK /\ StoreInv /\ SaveInv /\ TmpInv)'
    BY Steps
  <1> QED
    BY <1>1, <1>2, PTL DEF Spec

(* A file that is registered and not dirty holds a text the server has had   *)
(* under its name, whatever answer was lost and whenever the server was      *)
(* stopped (Files__Register, Files__Close and the answers of main.go's       *)
(* write). *)
THEOREM SavedWhenClean ==
    ASSUME SharedSave = FALSE
    PROVE  Spec => []CleanIsSaved
  <1>1. SaveInv => CleanIsSaved
    BY DEF SaveInv
  <1> QED
    BY <1>1, StoreInvariant, PTL

(* A temporary file stands only while its save is on its way, unless the     *)
(* server was stopped (write of main.go). *)
THEOREM NothingLeft ==
    ASSUME SharedSave = FALSE
    PROVE  Spec => []NoLeftovers
  <1>1. TmpInv => NoLeftovers
    BY DEF TmpInv, NoLeftovers
  <1> QED
    BY <1>1, StoreInvariant, PTL

-----------------------------------------------------------------------------
(* What the service's clients see. *)

\* The view: a name's text, and a request with what it has been told.
Call(r, x) == [op |-> r.op, path |-> r.path, to |-> r.to, text |-> r.text, ans |-> Said(r, x)]

LEMMA View ==
    /\ Files = [p \in Path |-> Stored(dir, data, p)]
    /\ Calls = [q \in Id |-> IF req[q] = NONE THEN NONE ELSE Call(req[q], data)]
  BY DEF Files, Content, Stored, Calls, Ans, Call, Said

LEMMA NextView ==
    /\ Files' = [p \in Path |-> Stored(dir', data', p)]
    /\ Calls' = [q \in Id |-> IF req'[q] = NONE THEN NONE ELSE Call(req'[q], data')]
  BY DEF Files, Content, Stored, Calls, Ans, Call, Said, Abs

LEMMA CallReport ==
    ASSUME TypeOK, StoreInv, NEW q \in Id, req[q] # NONE
    PROVE  Call(req[q], data) # NONE
  <1> DEFINE r == req[q]
  <1>1. /\ r \in Request /\ Handler(r, dir, data) /\ Tree(dir, data)
    BY ReqFacts
  <1> HIDE DEF r
  <1>2. Said(r, data) \in Body \cup {"ok", "missing", "failed", NONE}
    BY <1>1 DEF Said, Handler, Reading, Tree, Request
  <1>3. Call(r, data) \in Report
    BY <1>1, <1>2 DEF Call, Report, Request
  <1> QED
    BY <1>3, WebStoreAssumption DEF r

\* A handler's step seen from outside.
LEMMA StepView ==
    ASSUME TypeOK, StoreInv, NEW q \in Id, req[q] # NONE, NEW r, NEW d, NEW x,
           Step(q, r, d, x), Allowed(q, r, d, x)
    PROVE  /\ Files' = [p \in Path |-> Stored(d, x, p)]
           /\ Calls' = [Calls EXCEPT ![q].ans = Said(r, x)]
  <1>1. /\ r \in Request /\ r.op = req[q].op /\ r.path = req[q].path
        /\ r.to = req[q].to /\ r.text = req[q].text /\ Tree(d, x)
        /\ \A k \in Id : k # q /\ req[k] # NONE /\ req[k].op = "GET" /\ req[k].pc = "copy"
              => x[req[k].ino] = data[req[k].ino]
    BY DEF Allowed
  <1>2. /\ \A k \in Id : req'[k] = IF k = q THEN r ELSE req[k]
        /\ dir' = d /\ \A i \in DOMAIN data' : data'[i] = x[i]
        /\ \A e \in Entry : d[e] # NONE => d[e] \in DOMAIN data'
    BY <1>1, StepFacts
  <1>3. StoreInv'
    BY StepKeeps
  <1>4. \A p \in Path : Stored(dir', data', p) = Stored(d, x, p)
    BY <1>2, EntryFacts DEF Stored
  <1>5. ASSUME NEW k \in Id, req'[k] # NONE, req'[k].op = "GET", req'[k].pc = "copy"
        PROVE  data'[req'[k].ino] = x[req'[k].ino]
    BY <1>2, <1>3, <1>5 DEF StoreInv, Handler, Reading
  <1>6. Said(req'[q], data') = Said(r, x)
    BY <1>1, <1>2, <1>5, NoneFacts DEF Said
  <1>7. ASSUME NEW k \in Id, k # q, req[k] # NONE
        PROVE  Call(req'[k], data') = Call(req[k], data)
    <2>1. req'[k] = req[k]
      BY <1>2, <1>7
    <2>2. Said(req[k], data') = Said(req[k], data)
      BY <1>1, <1>5, <1>7, <2>1 DEF Said
    <2> QED
      BY <2>1, <2>2 DEF Call
  <1>8. Call(req'[q], data') = [Call(req[q], data) EXCEPT !.ans = Said(r, x)]
    BY <1>1, <1>2, <1>6 DEF Call
  <1>9. ASSUME NEW k \in Id
        PROVE  (IF req'[k] = NONE THEN NONE ELSE Call(req'[k], data')) =
               [Calls EXCEPT ![q].ans = Said(r, x)][k]
    <2>1. CASE k = q
      BY <1>1, <1>2, <1>8, <2>1, View, NoneFacts
    <2>2. CASE k # q
      BY <1>2, <1>7, <2>2, View
    <2> QED
      BY <2>1, <2>2
  <1>10. Calls' = [Calls EXCEPT ![q].ans = Said(r, x)]
    BY <1>9, View, NextView
  <1> QED
    BY <1>4, <1>10, NextView

LEMMA HandlerView ==
    ASSUME TypeOK, StoreInv, NEW q \in Id, HandlerStep(q)
    PROVE  Service!Effect(q) \/ UNCHANGED <<Files, Calls>>
  <1>1. req[q] # NONE /\ Taken(q)
    BY HandlerTaken
  <1>2. PICK r, d, x : Step(q, r, d, x) /\ Allowed(q, r, d, x)
    BY <1>1 DEF Taken
  <1> DEFINE c == req[q]
             a == Said(r, x)
             here == Stored(dir, data, c.path)
  <1>3. /\ Files' = [p \in Path |-> Stored(d, x, p)]
        /\ Calls' = [Calls EXCEPT ![q].ans = a]
    BY <1>1, <1>2, StepView
  <1>4. Calls[q] = Call(c, data) /\ Calls[q] # NONE /\ c.path \in Path
    BY <1>1, CallReport, View, ReqFacts
  <1>5. /\ Calls[q].op = c.op /\ Calls[q].path = c.path /\ Calls[q].to = c.to
        /\ Calls[q].text = c.text /\ Calls[q].ans = Said(c, data)
    BY <1>4 DEF Call
  <1>6. Files[c.path] = here /\ Files = [p \in Path |-> Stored(dir, data, p)]
    BY <1>4, View
  <1>7. Same(d, x) => Files' = Files
    BY <1>3, <1>6 DEF Same
  <1>8. Atomic(q, r, d, x) /\ (c.op = "POST" => c.to \in Path)
    BY <1>1, <1>2, ReqFacts DEF Allowed, Sane
  <1>9. Service!Answer(q, a)
    BY <1>3 DEF Service!Answer
  <1> HIDE DEF a, here
  <1>10. CASE a = Said(c, data) /\ Same(d, x)
    <2>1. Calls' = Calls
      <3>1. [Calls[q] EXCEPT !.ans = Calls[q].ans] = Calls[q]
        BY <1>4 DEF Call
      <3>2. a = Calls[q].ans
        BY <1>5, <1>10
      <3>3. \A k \in Id : Calls'[k] = IF k = q THEN [Calls[q] EXCEPT !.ans = a] ELSE Calls[k]
        BY <1>3, View
      <3>4. \A k \in Id : Calls'[k] = Calls[k]
        BY <3>1, <3>2, <3>3
      <3>5. Calls' = [k \in Id |-> Calls'[k]] /\ Calls = [k \in Id |-> Calls[k]]
        BY View, NextView
      <3> QED
        BY <3>4, <3>5
    <2> QED
      BY <1>7, <1>10, <2>1
  <1>11. ASSUME Said(c, data) = NONE,
                \/ a = "failed" /\ Same(d, x)
                \/ a = "missing" /\ here = NONE /\ c.op # "PUT" /\ Same(d, x)
         PROVE  Service!Effect(q)
    BY <1>4, <1>5, <1>6, <1>7, <1>9, <1>11 DEF Service!Effect
  <1>12. ASSUME Said(c, data) = NONE, here # NONE, Same(d, x),
                (a = here /\ c.op = "GET") \/ (a = "ok" /\ c.op = "HEAD")
         PROVE  Service!Effect(q)
    BY <1>4, <1>5, <1>6, <1>7, <1>9, <1>12 DEF Service!Effect, Service!Read
  <1>13. ASSUME Said(c, data) = NONE, here # NONE, a = "ok", c.op = "DELETE",
                \A p \in Path : Stored(d, x, p) =
                   IF p = c.path THEN NONE ELSE Stored(dir, data, p)
         PROVE  Service!Effect(q)
    <2>1. Files' = [Files EXCEPT ![Calls[q].path] = NONE]
      BY <1>3, <1>5, <1>6, <1>13
    <2> QED
      BY <1>4, <1>5, <1>6, <1>9, <1>13, <2>1 DEF Service!Effect, Service!Delete
  <1>14. ASSUME Said(c, data) = NONE, here # NONE, a = "ok", c.op = "POST",
                \A p \in Path : Stored(d, x, p) =
                   IF p = c.to THEN here
                   ELSE IF p = c.path THEN NONE ELSE Stored(dir, data, p)
         PROVE  Service!Effect(q)
    <2>1. Files' = [Files EXCEPT ![Calls[q].path] = NONE, ![Calls[q].to] = Files[Calls[q].path]]
      BY <1>3, <1>4, <1>5, <1>6, <1>8, <1>14
    <2> QED
      BY <1>4, <1>5, <1>6, <1>9, <1>14, <2>1 DEF Service!Effect, Service!Move
  <1>15. ASSUME Said(c, data) = NONE, a = "ok", c.op = "PUT",
                \A p \in Path : Stored(d, x, p) =
                   IF p = c.path THEN c.text ELSE Stored(dir, data, p)
         PROVE  Service!Effect(q)
    <2>1. Files' = [Files EXCEPT ![Calls[q].path] = Calls[q].text]
      BY <1>3, <1>4, <1>5, <1>6, <1>15
    <2> QED
      BY <1>4, <1>5, <1>9, <1>15, <2>1 DEF Service!Effect, Service!Put
  <1> QED
    BY <1>8, <1>10, <1>11, <1>12, <1>13, <1>14, <1>15 DEF Atomic, a, here

\* The other steps seen from outside.
LEMMA QuietView ==
    ASSUME UNCHANGED <<req, dir, data>>
    PROVE  UNCHANGED <<Files, Calls>>
  BY View, NextView

LEMMA CallView ==
    ASSUME SharedSave = FALSE, TypeOK, StoreInv, NEW b \in Browser, CallStep(b)
    PROVE  Service!Next
  <1>1. PICK q \in Id, r \in Request, then \in {"Old", "Register", "Close", ""} :
              Asked(b, q, r, then)
    BY CallFacts
  <1>2. /\ req[q] = NONE /\ r # NONE /\ req' = [req EXCEPT ![q] = r]
        /\ UNCHANGED <<dir, data>> /\ r.pc = "start" /\ r.ans = NONE
    BY <1>1 DEF Asked
  <1>3. \A k \in Id : req'[k] = IF k = q THEN r ELSE req[k]
    BY <1>2 DEF TypeOK
  <1> DEFINE c == Call(r, data)
  <1>4. c.ans = NONE
    BY <1>2, NoneFacts DEF Call, Said
  <1>5. c # NONE
    <2>1. c \in Report
      BY <1>4 DEF Call, Report, Request
    <2> QED
      BY <2>1, WebStoreAssumption
  <1> HIDE DEF c
  <1>6. Calls[q] = NONE
    BY <1>2, View
  <1>7. Calls' = [Calls EXCEPT ![q] = c]
    <2>1. ASSUME NEW k \in Id
          PROVE  (IF req'[k] = NONE THEN NONE ELSE Call(req'[k], data')) =
                        IF k = q THEN c ELSE Calls[k]
      <3>1. CASE k = q
        <4>1. req'[k] = r /\ data' = data /\ r # NONE
          BY <1>2, <1>3, <3>1
        <4>2. c = Call(r, data)
          BY DEF c
        <4>3. Call(req'[k], data') = c
          BY <4>1, <4>2
        <4> QED
          BY <3>1, <4>1, <4>3
      <3>2. CASE k # q
        <4>1. req'[k] = req[k] /\ data' = data
          BY <1>2, <1>3, <3>2
        <4>2. Calls[k] = IF req[k] = NONE THEN NONE ELSE Call(req[k], data)
          BY View
        <4> QED
          BY <3>2, <4>1, <4>2
      <3> QED
        BY <3>1, <3>2
    <2>2. Calls' = [k \in Id |-> IF k = q THEN c ELSE Calls[k]]
      BY <2>1, NextView
    <2>3. Calls = [k \in Id |-> Calls[k]]
      BY View
    <2> QED
      BY <2>2, <2>3
  <1>8. Files' = Files
    BY <1>2, View, NextView
  <1>9. Calls'[q] = c
    BY <1>7, View
  <1>10. Service!Open(q, Calls'[q])
    BY <1>4, <1>6, <1>7, <1>8, <1>9 DEF Service!Open
  <1> QED
    BY <1>5, <1>6, <1>9, <1>10 DEF Service!Next

LEMMA ReplyView ==
    ASSUME TypeOK, NEW q \in Id, Reply(q)
    PROVE  Service!Next
  <1>1. req' = [req EXCEPT ![q] = NONE] /\ UNCHANGED <<dir, data>>
    BY DEF Reply
  <1>2. \A k \in Id : req'[k] = IF k = q THEN NONE ELSE req[k]
    BY <1>1 DEF TypeOK
  <1>3. Calls' = [k \in Id |-> IF k \in {q} THEN NONE ELSE Calls[k]]
    BY <1>1, <1>2, View, NextView
  <1>4. Files' = Files
    BY <1>1, View, NextView
  <1>5. Service!End({q})
    BY <1>3, <1>4 DEF Service!End
  <1> QED
    BY <1>5 DEF Service!Next

LEMMA LoseView ==
    ASSUME TypeOK, StoreInv, SaveInv, NEW b \in Browser, Lose(b)
    PROVE  UNCHANGED <<Files, Calls>>
  <1> DEFINE q == wait[b].id
             s == [req[q] EXCEPT !.cut = TRUE]
  <1>1. wait[b] # NONE /\ req' = [req EXCEPT ![q] = s] /\ UNCHANGED <<dir, data>>
    BY DEF Lose
  <1>2. q \in Id /\ req[q] # NONE
    BY <1>1, Returns
  <1>3. req[q] \in Request
    BY <1>2, ReqFacts
  <1>4. s \in Request /\ Call(s, data) = Call(req[q], data)
    BY <1>3 DEF Request, Call, Said
  <1> HIDE DEF s
  <1>5. \A k \in Id : req'[k] = IF k = q THEN s ELSE req[k]
    BY <1>1 DEF TypeOK
  <1>6. s # NONE
    BY <1>4, NoneFacts
  <1>7. Calls' = Calls
    BY <1>1, <1>2, <1>4, <1>5, <1>6, View, NextView
  <1> QED
    BY <1>1, <1>7, View, NextView

LEMMA CrashView ==
    ASSUME TypeOK, StoreInv, Crash
    PROVE  Service!Next
  <1>1. /\ req' = [q \in Id |-> NONE] /\ dir' = dir
        /\ data' = Restricted(data, Live(dir, req'))
    BY DEF Crash
  <1>2. Calls' = [k \in Id |-> IF k \in Id THEN NONE ELSE Calls[k]]
    BY <1>1, NextView
  <1>3. ASSUME NEW p \in Path PROVE Stored(dir', data', p) = Stored(dir, data, p)
    <2>1. CASE dir[Abs(p)] # NONE
      <3>1. dir[Abs(p)] \in Live(dir, req') /\ dir[Abs(p)] \in DOMAIN data
        BY <2>1, EntryFacts DEF Live, StoreInv, Tree
      <3>2. data'[dir[Abs(p)]] = data[dir[Abs(p)]]
        BY <1>1, <3>1 DEF Restricted
      <3> QED
        BY <1>1, <3>2 DEF Stored
    <2>2. CASE dir[Abs(p)] = NONE
      BY <1>1, <2>2 DEF Stored
    <2> QED
      BY <2>1, <2>2
  <1>4. Files' = Files
    BY <1>3, View, NextView
  <1>5. Service!End(Id)
    BY <1>2, <1>4 DEF Service!End
  <1> QED
    BY <1>5 DEF Service!Next

LEMMA ServiceStep ==
    ASSUME SharedSave = FALSE, TypeOK, StoreInv, SaveInv, [Next]_vars
    PROVE  [Service!Next]_<<Files, Calls>>
  <1>1. ASSUME NEW q \in Id, HandlerStep(q)
        PROVE  [Service!Next]_<<Files, Calls>>
    BY <1>1, HandlerView DEF Service!Next
  <1>2. ASSUME NEW b \in Browser, BufferStep(b)
        PROVE  [Service!Next]_<<Files, Calls>>
    <2>1. UNCHANGED <<req, dir, data>>
      BY <1>2, BufferFacts DEF Buffer
    <2> QED
      BY <2>1, QuietView
  <1>3. ASSUME UNCHANGED vars
        PROVE  [Service!Next]_<<Files, Calls>>
    BY <1>3, QuietView DEF vars
  <1> QED
    BY <1>1, <1>2, <1>3, Kinds, CallView, ReplyView, LoseView, CrashView

(* The server's handlers, step by step and in any order, do what a service   *)
(* does that takes each request at once (AtomicStore): a file is always one  *)
(* text that was saved, a read gets a text that was there, and an answer     *)
(* says what happened. *)
THEOREM EffectsAreAtomic ==
    ASSUME SharedSave = FALSE
    PROVE  Spec => AtomicStore
  <1>1. Init => Service!Init
    <2> SUFFICES ASSUME Init PROVE Service!Init
      OBVIOUS
    <2>1. req = [q \in Id |-> NONE]
      BY DEF Init
    <2> QED
      BY <2>1, View DEF Service!Init
  <1>2. TypeOK /\ StoreInv /\ SaveInv /\ [Next]_vars => [Service!Next]_<<Files, Calls>>
    BY ServiceStep
  <1>3. Spec => [](TypeOK /\ StoreInv /\ SaveInv /\ TmpInv)
    BY StoreInvariant
  <1> QED
    BY <1>1, <1>2, <1>3, PTL DEF Spec, AtomicStore, Service!Spec
=============================================================================
