----------------------------- MODULE ModuleUse -----------------------------
(* What the module loader promises a program: every module has a use count   *)
(* that Load raises and Free lowers, and a handle answers ThisCommand from   *)
(* the Load that made it until the Free that brings the count to zero, and   *)
(* never again after that.                                                   *)
EXTENDS Naturals

CONSTANTS
    Name,       \* module names
    Loadable,   \* those the manifest or a dynamic library provides
    Var,        \* the program's variables of type Modules.Module
    NIL

VARIABLES
    uses,       \* Loads of a name that no Free has matched yet
    held,       \* what each variable holds: NIL, or a handle on a name
    answer      \* the module whose command ThisCommand last returned, or NIL

uvars == <<uses, held, answer>>

Handle == [name : Name, fresh : BOOLEAN]

(* The handles a program can come by in this state: those of a module in use, *)
(* and stale ones kept from before.                                          *)
Available(u) == { h \in Handle : h.fresh => u[h.name] > 0 }

Init == /\ uses = [n \in Name |-> 0]
        /\ held = [v \in Var |-> NIL]
        /\ answer = NIL

(* The variable a Load assigns is written when the Load returns, in the same *)
(* step or, when the module's body runs first, in a later one.               *)
Load(n) ==
    /\ n \in Loadable
    /\ uses' = [uses EXCEPT ![n] = @ + 1]
    /\ \/ UNCHANGED held
       \/ \E v \in Var : held' = [held EXCEPT ![v] = [name |-> n, fresh |-> TRUE]]
    /\ UNCHANGED answer

Point(v) ==
    /\ \E h \in Available(uses) \cup {NIL} : held' = [held EXCEPT ![v] = h]
    /\ UNCHANGED <<uses, answer>>

Stale(n, h) == IF h # NIL /\ h.name = n THEN [h EXCEPT !.fresh = FALSE] ELSE h

Free(n) ==
    /\ uses[n] > 0
    /\ uses' = [uses EXCEPT ![n] = @ - 1]
    /\ held' = IF uses[n] = 1 THEN [v \in Var |-> Stale(n, held[v])] ELSE held
    /\ UNCHANGED answer

ThisCommand(v) ==
    /\ answer' = IF held[v] # NIL /\ held[v].fresh THEN held[v].name ELSE NIL
    /\ UNCHANGED <<uses, held>>

Next == \/ \E n \in Name : Load(n) \/ Free(n)
        \/ \E v \in Var : Point(v) \/ ThisCommand(v)

Spec == Init /\ [][Next]_uvars
=============================================================================
