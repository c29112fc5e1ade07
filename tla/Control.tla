------------------------------ MODULE Control ------------------------------
(* Statements and conditions: the parser's procedures emit basic blocks for  *)
(* them in one pass, with forward branches that are parked in blocks of      *)
(* their own until their target is known, and the blocks are then run beside *)
(* the text they came from.                                                  *)
EXTENDS Integers, Sequences, SequencesExt

CONSTANTS
    Program,    \* sequences of statements
    TypeOf,     \* of each variable: "INTEGER", "BYTE" or "CHAR"
    Start,      \* values of the variables before the program
    Width, ByteWidth    \* bits of INTEGER, and of BYTE and CHAR

ASSUME ControlAssumption ==
    /\ TypeOf \in [DOMAIN TypeOf -> {"INTEGER", "BYTE", "CHAR"}]
    /\ Width \in Nat \ {0} /\ ByteWidth \in 1 .. Width

VARIABLES
    code,       \* the blocks: sequences of instructions
    at, prev,   \* block and index of the next instruction; the block before
    env,        \* results of instructions
    mem,        \* the variables of the compiled program
    todo,       \* what the text still has to do
    vals        \* the variables of the text

machine == <<at, prev, env, mem>>
vars == <<code, machine, todo, vals>>

Bits(v) == IF TypeOf[v] = "INTEGER" THEN Width ELSE ByteWidth

(* What n is in a signed word. *)
Signed(n, w) == ((n + 2^(w - 1)) % 2^w) - 2^(w - 1)

--------------------------------------------------------------------------
(* Emission.  The state of the generator: blocks, the one that is appended   *)
(* to, labels as chains of blocks, the number of results, and what the last  *)
(* call gave. *)

Empty == [blocks |-> << << >> >>, cur |-> 1, labels |-> << >>, results |-> 0, out |-> 0]

append_block(e) == [e EXCEPT !.blocks = Append(@, << >>)]
PositionAtEnd(e, b) == [e EXCEPT !.cur = b]
Build(e, i) == [e EXCEPT !.blocks[e.cur] = Append(@, i)]
BuildBr(e, b) == Build(e, [op |-> "br", to |-> b])
BuildCondBr(e, c, yes, no) == Build(e, [op |-> "cbr", a |-> c, yes |-> yes, no |-> no])
BuildValue(e, i) == [Build(e, i @@ [res |-> e.results + 1])
                        EXCEPT !.results = @ + 1, !.out = e.results + 1]

IsTerminator(i) == i.op \in {"br", "cbr", "ret"}
Terminated(e, b) == e.blocks[b] # << >> /\ IsTerminator(Last(e.blocks[b]))
Fresh(e) == Len(e.blocks) + 1

(* A branch, unless the block has ended. *)
BranchTo(e, b) == IF Terminated(e, e.cur) THEN e ELSE BuildBr(e, b)

new_label(e, b, next) == [e EXCEPT !.labels = Append(@, [bb |-> b, next |-> next]),
                                   !.out = Len(e.labels) + 1]

(* What is emitted up to the next label has no way in. *)
Dead(e) == PositionAtEnd(append_block(e), Fresh(e))

Here(e) == new_label(PositionAtEnd(BranchTo(append_block(e), Fresh(e)), Fresh(e)),
                     Fresh(e), 0)

(* The branch ends in a block of its own, linked to the chain L. *)
FJump(e, L) == LET p == Fresh(e)
               IN Dead(new_label(BranchTo(append_block(e), p), p, L))

CFJump(e) == LET n == Len(e.blocks)
                 b == BuildCondBr(append_block(append_block(e)), e.out, n + 1, n + 2)
             IN new_label(PositionAtEnd(b, n + 1), n + 2, 0)

BJump(e, L) == Dead(BranchTo(e, e.labels[L].bb))

CBJump(e, L) == LET n == Fresh(e)
                IN PositionAtEnd(BuildCondBr(append_block(e), e.out, n, e.labels[L].bb), n)

(* The rest of the text goes on in the block that waits at the label. *)
Fixup(e, L) == IF L = 0 THEN e
               ELSE PositionAtEnd(BranchTo(e, e.labels[L].bb), e.labels[L].bb)

FixOne(e, L) == LET n == Fresh(e)
                    f == BranchTo(append_block(e), n)
                IN PositionAtEnd(BranchTo(PositionAtEnd(f, e.labels[L].bb), n), n)

RECURSIVE Chain(_, _)
Chain(e, L) == IF L = 0 THEN << >>
               ELSE << e.labels[L].bb >> \o Chain(e, e.labels[L].next)

(* A mutant: only the newest branch of the chain is sent on. *)
FixLinkNewest(e, L) ==
    IF L = 0 THEN e
    ELSE LET n == Fresh(e)
         IN PositionAtEnd(BranchTo(PositionAtEnd(BranchTo(append_block(e), n),
                                                 e.labels[L].bb), n), n)

FixLink(e, L) ==
    IF L = 0 THEN e
    ELSE LET n == Fresh(e)
         IN PositionAtEnd(FoldLeft(LAMBDA f, b : BranchTo(PositionAtEnd(f, b), n),
                                   BranchTo(append_block(e), n), Chain(e, L)), n)

(* Conditions.  The right operand has blocks of its own, another one is      *)
(* for the operand that decides alone; the result is chosen where they meet. *)
And1(e) == LET n == Len(e.blocks)
               b == BuildCondBr(append_block(append_block(e)), e.out, n + 1, n + 2)
           IN [PositionAtEnd(b, n + 1) EXCEPT !.out = n + 2]

Or1(e) == LET n == Len(e.blocks)
              b == BuildCondBr(append_block(append_block(e)), e.out, n + 2, n + 1)
          IN [PositionAtEnd(b, n + 1) EXCEPT !.out = n + 2]

Merge(y, skip, decided) ==
    LET n == Fresh(y)
        b == BuildBr(PositionAtEnd(BuildBr(append_block(y), n), skip), n)
    IN BuildValue(PositionAtEnd(b, n),
                  [op |-> "phi", from |-> y.cur, a |-> y.out, skip |-> skip, b |-> decided])

And2(y, skip) == Merge(y, skip, 0)
Or2(y, skip) == Merge(y, skip, 1)

RECURSIVE expression(_, _)
expression(e, c) ==
    CASE c.k = "atom" -> BuildValue(e, [op |-> "read", n |-> c.n])
      [] c.k = "not"  -> LET x == expression(e, c.x)
                         IN BuildValue(x, [op |-> "not", a |-> x.out])
      [] c.k = "and"  -> LET x == And1(expression(e, c.x))
                         IN And2(expression(x, c.y), x.out)
      [] c.k = "or"   -> LET x == Or1(expression(e, c.x))
                         IN Or2(expression(x, c.y), x.out)

(* Integers: constants, and variables that are loaded where they are used. *)
LoadItem(e, x) ==
    IF x.k = "var" THEN BuildValue(e, [op |-> "load", v |-> x.v])
    ELSE BuildValue(e, [op |-> "const", n |-> x.n])

(* ORG_For1 gets the bound as a value or, in a mutant, as it was written. *)
SnapshotLate(e, z) == [e |-> e, z |-> z]

Snapshot(e, z) == LET x == LoadItem(e, z)
                  IN [e |-> x, z |-> [k |-> "reg", r |-> x.out]]

For0(e, v, lo) == LET x == LoadItem(e, lo)
                  IN Build(x, [op |-> "store", v |-> v, a |-> x.out])

(* The bound is cut to the variable's width and compared with its sign. *)
For1(e, v, z, by) ==
    LET x == LoadItem(e, [k |-> "var", v |-> v])
        y == IF z.k = "reg" THEN [x EXCEPT !.out = z.r] ELSE LoadItem(x, z)
        c == BuildValue(y, [op |-> IF by < 0 THEN "ge" ELSE "le",
                            a |-> x.out, b |-> y.out, w |-> Bits(v)])
        n == Len(c.blocks)
        b == BuildCondBr(append_block(append_block(c)), c.out, n + 1, n + 2)
    IN new_label(PositionAtEnd(b, n + 1), n + 2, 0)

(* A mutant: the sum is not stored. *)
For2Dropped(e, v, by) == LoadItem(e, [k |-> "var", v |-> v])

For2(e, v, by) ==
    LET x == LoadItem(e, [k |-> "var", v |-> v])
        s == BuildValue(x, [op |-> "add", a |-> x.out, n |-> by, w |-> Bits(v)])
    IN Build(s, [op |-> "store", v |-> v, a |-> s.out])

(* One label or range: a hit waits in the chain, a miss goes on. *)
CaseRange(e, v, label, hits) ==
    LET x == LoadItem(e, [k |-> "var", v |-> v])
        c == BuildValue(x, IF label[1] = label[2]
                           THEN [op |-> "eq", a |-> x.out, n |-> Signed(label[1], Bits(v))]
                           ELSE [op |-> "in", a |-> x.out, lo |-> Signed(label[1], Bits(v)),
                                                           hi |-> Signed(label[2], Bits(v))])
        n == Len(c.blocks)
        b == BuildCondBr(append_block(append_block(c)), c.out, n + 1, n + 2)
    IN new_label(PositionAtEnd(b, n + 2), n + 1, hits)

(* Statements. *)
RECURSIVE StatSequence(_, _)

(* An ELSIF: the arm before it jumps to the end, and its miss comes here. *)
IfArm(g, arm) ==
    LET j == FJump(g.e, g.end)
        c == CFJump(expression(Fixup(j, g.miss), arm.test))
    IN [e |-> StatSequence(c, arm.body), miss |-> c.out, end |-> j.out]

IfStatement(e, s) ==
    LET c == CFJump(expression(e, s.arms[1].test))
        g == FoldLeft(IfArm, [e |-> StatSequence(c, s.arms[1].body), miss |-> c.out, end |-> 0],
                      Tail(s.arms))
        j == FJump(g.e, g.end)
    IN IF s.els = << >> THEN FixLink(Fixup(g.e, g.miss), g.end)
       ELSE FixLink(StatSequence(Fixup(j, g.miss), s.els), j.out)

WhileStatement(e, s) ==
    LET h == Here(e)
        Arm(g, arm) == LET c == CFJump(expression(Fixup(g.e, g.miss), arm.test))
                       IN [e |-> BJump(StatSequence(c, arm.body), h.out), miss |-> c.out]
        g == FoldLeft(Arm, [e |-> h, miss |-> 0], s.arms)
    IN Fixup(g.e, g.miss)

RepeatStatement(e, s) ==
    LET h == Here(e)
    IN CBJump(expression(StatSequence(h, s.body), s.until), h.out)

ForStatement(e, s) ==
    LET z == Snapshot(For0(e, s.v, s.lo), s.hi)
        h == Here(z.e)
        l == For1(h, s.v, z.z, s.by)
    IN FixLink(BJump(For2(StatSequence(l, s.body), s.v, s.by), h.out), l.out)

(* The end of an arm is a branch in the chain of the CASE, like a miss of    *)
(* all its labels is one alone. *)
NumericCaseArm(g, arm) ==
    LET hits == FoldLeft(LAMBDA f, l : CaseRange(f, g.v, l, f.out),
                         [g.e EXCEPT !.out = 0], arm.labels)
        miss == FJump(hits, 0)
        body == FJump(StatSequence(FixLink(miss, hits.out), arm.body), g.end)
    IN [e |-> FixOne(body, miss.out), end |-> body.out, v |-> g.v]

CaseStatement(e, s) ==
    LET g == FoldLeft(NumericCaseArm, [e |-> e, end |-> 0, v |-> s.v], s.arms)
    IN FixLink(StatSequence(g.e, s.els), g.end)

(* There is always a block to append to; that it is asked for here makes TLC *)
(* evaluate what came before, and not keep it on its stack. *)
Statement(e, s) ==
    IF e.cur = 0 THEN e ELSE
    CASE s.k = "do"     -> Build(e, [op |-> "call", n |-> s.n])
      [] s.k = "add"    -> For2(e, s.v, s.by)
      [] s.k = "if"     -> IfStatement(e, s)
      [] s.k = "while"  -> WhileStatement(e, s)
      [] s.k = "repeat" -> RepeatStatement(e, s)
      [] s.k = "for"    -> ForStatement(e, s)
      [] s.k = "case"   -> CaseStatement(e, s)

StatSequence(e, ss) == FoldLeft(Statement, e, ss)

Return(e) == IF Terminated(e, e.cur) THEN e ELSE Build(e, [op |-> "ret"])

--------------------------------------------------------------------------
(* The compiled program runs. *)

Instr == code[at[1]][at[2]]
Waits == Instr.op \in {"read", "call", "ret"}

Jump(b) == /\ at' = << b, 1 >> /\ prev' = at[1]
           /\ UNCHANGED <<env, mem>>

Step == at' = << at[1], at[2] + 1 >> /\ UNCHANGED prev

Truth(p) == IF p THEN 1 ELSE 0

Result(i) ==
    CASE i.op = "not"   -> 1 - env[i.a]
      [] i.op = "phi"   -> IF prev = i.from THEN env[i.a] ELSE i.b
      [] i.op = "load"  -> mem[i.v]
      [] i.op = "const" -> i.n
      [] i.op = "add"   -> Signed(env[i.a] + i.n, i.w)
      [] i.op = "le"    -> Truth(env[i.a] <= Signed(env[i.b], i.w))
      [] i.op = "ge"    -> Truth(env[i.a] >= Signed(env[i.b], i.w))
      [] i.op = "eq"    -> Truth(env[i.a] = i.n)
      [] i.op = "in"    -> Truth(i.lo <= env[i.a] /\ env[i.a] <= i.hi)

Run ==
    /\ ~Waits
    /\ \/ Instr.op = "br" /\ Jump(Instr.to)
       \/ Instr.op = "cbr" /\ Jump(IF env[Instr.a] = 1 THEN Instr.yes ELSE Instr.no)
       \/ /\ Instr.op = "store" /\ Step
          /\ mem' = [mem EXCEPT ![Instr.v] = Signed(env[Instr.a], Bits(Instr.v))]
          /\ UNCHANGED env
       \/ /\ Instr.op \notin {"br", "cbr", "store"} /\ Step
          /\ env' = [env EXCEPT ![Instr.res] = Result(Instr)]
          /\ UNCHANGED mem
    /\ UNCHANGED <<code, todo, vals>>

--------------------------------------------------------------------------
(* What the text says, as the report has it: a statement is replaced by what *)
(* is left of it. *)

Val(x) == IF x.k = "var" THEN vals[x.v] ELSE x.n
Fits(n, v) == IF TypeOf[v] = "INTEGER" THEN Signed(n, Width) ELSE n % 2^ByteWidth

Ask(c, yes, no) == [k |-> "ask", test |-> c, yes |-> yes, no |-> no]

Split(c, yes, no) ==
    CASE c.k = "not" -> Ask(c.x, no, yes)
      [] c.k = "and" -> Ask(c.x, << Ask(c.y, yes, no) >>, no)
      [] c.k = "or"  -> Ask(c.x, yes, << Ask(c.y, yes, no) >>)

(* The statements that take a step without being seen. *)
Left(s) ==
    CASE s.k = "if"     -> IF s.arms = << >> THEN s.els
                           ELSE << Ask(Head(s.arms).test, Head(s.arms).body,
                                       << [s EXCEPT !.arms = Tail(@)] >>) >>
      [] s.k = "while"  -> << [k |-> "if", els |-> << >>,
                               arms |-> [i \in DOMAIN s.arms |->
                                           [s.arms[i] EXCEPT !.body = Append(@, s)]]] >>
      [] s.k = "repeat" -> s.body \o << Ask(s.until, << >>, << s >>) >>
      [] s.k = "for"    -> << [k |-> "set", v |-> s.v, n |-> Val(s.lo)],
                              [k |-> "bound", s |-> s] >>
      [] s.k = "bound"  -> << [k |-> "loop", s |-> s.s, n |-> Val(s.s.hi)] >>
      [] s.k = "loop"   -> IF IF s.s.by < 0 THEN vals[s.s.v] >= s.n ELSE vals[s.s.v] <= s.n
                           THEN s.s.body \o << [k |-> "add", v |-> s.s.v, by |-> s.s.by], s >>
                           ELSE << >>
      [] s.k = "case"   -> LET hit == { i \in DOMAIN s.arms : \E l \in Range(s.arms[i].labels) :
                                            l[1] <= vals[s.v] /\ vals[s.v] <= l[2] }
                           IN IF hit = {} THEN s.els ELSE s.arms[Min(hit)].body
      [] s.k = "ask"    -> << Split(s.test, s.yes, s.no) >>
      [] s.k \in {"set", "add"} -> << >>

Now == IF todo = << >> THEN [k |-> "end"] ELSE Head(todo)
Asks == Now.k = "ask" /\ Now.test.k = "atom"
Seen == Now.k \in {"end", "do"} \/ Asks

Read ==
    /\ Waits /\ ~Seen
    /\ todo' = Left(Now) \o Tail(todo)
    /\ vals' = CASE Now.k = "set" -> [vals EXCEPT ![Now.v] = Fits(Now.n, Now.v)]
                 [] Now.k = "add" -> [vals EXCEPT ![Now.v] = Fits(@ + Now.by, Now.v)]
                 [] OTHER         -> vals
    /\ UNCHANGED <<code, machine>>

(* Both call a procedure, or both ask for a condition and get one answer. *)
Calls == /\ Instr.op = "call" /\ Now.k = "do" /\ Now.n = Instr.n
         /\ todo' = Tail(todo)
         /\ UNCHANGED env

Asked(b) == /\ Instr.op = "read" /\ Asks /\ Now.test.n = Instr.n
            /\ env' = [env EXCEPT ![Instr.res] = b]
            /\ todo' = (IF b = 1 THEN Now.yes ELSE Now.no) \o Tail(todo)

Both == /\ Waits /\ Seen
        /\ Calls \/ \E b \in {0, 1} : Asked(b)
        /\ Step
        /\ UNCHANGED <<code, mem, vals>>

Ends == Instr.op = "ret" /\ Now.k = "end"
End == Ends /\ UNCHANGED vars

Init ==
    \E p \in Program, start \in Start :
        LET e == Return(StatSequence(Empty, p))
        IN /\ code = e.blocks
           /\ at = << 1, 1 >> /\ prev = 0
           /\ env = [r \in 1 .. e.results |-> 0]
           /\ mem = [v \in DOMAIN start |-> Signed(start[v], Bits(v))]
           /\ todo = p /\ vals = start

Next == Run \/ Read \/ Both \/ End

Spec == Init /\ [][Next]_vars /\ WF_vars(Run) /\ WF_vars(Read)
--------------------------------------------------------------------------
(* The blocks do what the text says: the same procedures are called and the  *)
(* same conditions asked in the same order, with the same variables, and     *)
(* both end together (StatSequence, ORG_CFJump to ORG_FixLink, ORG_And1 to   *)
(* ORG_Or2, ORG_For0 to ORG_CaseRange). *)
Agree ==
    Waits /\ Seen =>
        /\ \/ Ends
           \/ Instr.op = "call" /\ Now.k = "do" /\ Now.n = Instr.n
           \/ Instr.op = "read" /\ Asks /\ Now.test.n = Instr.n
        /\ \A v \in DOMAIN mem : mem[v] = Signed(vals[v], Bits(v))

Targets(b) == UNION { CASE i.op = "br" -> {i.to} [] i.op = "cbr" -> {i.yes, i.no}
                        [] OTHER -> {} : i \in Range(b) }

(* Every block, also one that cannot be reached, ends in its only branch,    *)
(* and where two values meet they are listed with exactly the blocks that    *)
(* lead there (ORG_FixLink, ORG_FixOne, ORG_BJump; ORG_And2, ORG_Or2). *)
IRVerifies ==
    \A n \in DOMAIN code :
        /\ code[n] # << >>
        /\ \A k \in DOMAIN code[n] : IsTerminator(code[n][k]) <=> k = Len(code[n])
        /\ \A i \in Range(code[n]) : i.op = "phi" =>
                {i.from, i.skip} = { m \in DOMAIN code : n \in Targets(code[m]) }

(* Compiled program and text never leave each other behind in a loop without *)
(* calls or conditions: both always reach one, or the end (ORG_For1 and      *)
(* ORG_For2, which count such a loop down; ORG_BJump, ORG_CBJump). *)
GetsOn == []<>(Waits /\ Seen)
=============================================================================
