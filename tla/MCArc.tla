------------------------------- MODULE MCArc -------------------------------
(* Instances of Arc for TLC.  Objects are interchangeable. *)
EXTENDS ArcInv, TLC

MCPtrOffsets1 == <<"next">>
MCParams      == <<"p">>
MCParams2     == <<"p", "q">>
MCLocals      == <<"l">>
MCNone        == <<>>

Sym == Permutations(Obj \ Immortal)
=============================================================================
