----------------------------- MODULE MCSymFile -----------------------------
(* Programs of four modules: A declares a cyclic pair of types and a record  *)
(* that holds a pointer, B hands some of them on, C hands on what it has     *)
(* from either, D reads them over two paths. *)
EXTENDS SymFile

Part(cls, name, expo, to) == [cls |-> cls, name |-> name, expo |-> expo, to |-> to]
Fld(name, expo, to) == Part("Fld", name, expo, to)
Base(to)            == << Part("Base", "", TRUE, to) >>

Typ(name, expo, form, parts) ==
    [name |-> name, cls |-> "Typ", expo |-> expo, form |-> form,
     to |-> << "", "" >>, parts |-> parts]
Ptr(name, expo, to)           == Typ(name, expo, "Pointer", Base(to))
Rec(name, expo, base, fields) == Typ(name, expo, "Record", Base(base) \o fields)
Var(name, expo, to) ==
    [name |-> name, cls |-> "Var", expo |-> expo, form |-> "same", to |-> to,
     parts |-> << >>]
Alias(name, expo, to) == [Var(name, expo, to) EXCEPT !.cls = "Typ"]
Here(name) == << "", name >>

DeclsA(node, desc, list) ==
    << Ptr("Node", node, Here("Desc")),
       Rec("Desc", desc, Here("NOTYP"), << Fld("next", FALSE, Here("Node")),
                                           Fld("size", TRUE, Here("LONGINT")) >>),
       Rec("List", list, Here("NOTYP"), << Fld("first", TRUE, Here("Node")) >>) >>

DeclsB(of) ==
    << Rec("Ext", TRUE, IF of = "Desc" THEN << "X", "Desc" >> ELSE Here("NOTYP"),
           << Fld("f", TRUE, << "X", of >>), Fld("g", FALSE, Here("INTEGER")) >>),
       Ptr("PExt", TRUE, Here("Ext")),
       Var("b", TRUE, << "X", of >>) >>

DeclsC(to) == << Var("c", TRUE, to),
                 Typ("Proc", TRUE, "Proc", << Part("Res", "", TRUE, Here("INTEGER")),
                                              Part("Par", "", TRUE, to) >>) >>

Imports(s) == [i \in DOMAIN s |-> [name |-> s[i], org |-> s[i]]]

Program(node, desc, list, aAlias, bAlias, bOf, cIn, cTo, dIn) ==
    [m \in Module |->
        CASE m = "A" -> [imports |-> << >>, decls |-> DeclsA(node, desc, list) \o aAlias]
          [] m = "B" -> [imports |-> << [name |-> "X", org |-> "A"] >>,
                         decls |-> bAlias \o DeclsB(bOf)]
          [] m = "C" -> [imports |-> Imports(cIn), decls |-> DeclsC(cTo)]
          [] m = "D" -> [imports |-> Imports(dIn), decls |-> << >>]]

COrders == {<< "A", "B" >>, << "B" >>, << "B", "A" >>}
CUses   == {<< "A", "Node" >>, << "A", "List" >>, << "B", "Ext" >>, << "B", "PExt" >>}
DOrders == {<< "A", "C" >>, << "C", "B" >>, << "B", "C" >>, << "A", "B", "C" >>}

AllPrograms ==
    { Program(node, desc, list, << >>, << >>, bOf, cIn, cTo, dIn) :
        node \in BOOLEAN, desc \in BOOLEAN, list \in BOOLEAN,
        bOf \in {"Node", "Desc", "List"}, cIn \in COrders, cTo \in CUses, dIn \in DOrders }

(* Programs with a second name for a type: in its own module or in an        *)
(* importer, for that module alone or exported.                              *)
Second(expo, n, to) == << Alias(n, expo, to) >>
AliasPrograms ==
    { Program(TRUE, TRUE, TRUE, as[1], as[2], bOf, cIn, cTo, dIn) :
        as \in { << Second(expo, "Nod", Here(t)), << >> >> : expo \in BOOLEAN, t \in {"Node", "List"} }
               \cup { << << >>, Second(expo, "U", << "X", t >>) >> : expo \in BOOLEAN, t \in {"Node", "List"} },
        bOf \in {"Node", "List"}, cIn \in COrders,
        cTo \in CUses \cup {<< "B", "U" >>, << "A", "Nod" >>}, dIn \in DOrders }

(* Programs in which every cycle of types goes through one that is exported. *)
PlainPrograms ==
    { p \in AllPrograms : p["A"].decls[1].expo \/ p["A"].decls[2].expo }

RunPrograms == PlainPrograms \cup AliasPrograms
=============================================================================
