----------------------------- MODULE MCWebStore -----------------------------
EXTENDS WebStore, TLC

Flat       == [b \in Browser |-> ""]
OneProject == [b \in Browser |-> "project"]
TwoTexts   == { << >>, << 1, 2 >> }
Symmetric  == Permutations(Id) \cup Permutations(Name)
=============================================================================
