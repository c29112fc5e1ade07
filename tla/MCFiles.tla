------------------------------ MODULE MCFiles ------------------------------
(* Instances of Files for TLC.  Files, and names, are interchangeable. *)
EXTENDS Files, TLC

Sym == Permutations(File) \cup Permutations(Name)
=============================================================================
