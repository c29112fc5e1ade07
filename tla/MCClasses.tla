----------------------------- MODULE MCClasses ------------------------------
EXTENDS Classes, TLC

CONSTANT Par    \* parameters and results

PointerSig == [rcv : {"pointer"}, par : Par]
MCSymmetry == Permutations(Member) \cup Permutations(Par)
=============================================================================
