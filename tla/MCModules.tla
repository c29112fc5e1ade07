----------------------------- MODULE MCModules -----------------------------
(* Instances of Modules for TLC.  Descriptors, and variables, are            *)
(* interchangeable.                                                          *)
EXTENDS Modules, TLC

Sym == Permutations(Desc) \cup Permutations(Var)
=============================================================================
