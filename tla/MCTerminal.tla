----------------------------- MODULE MCTerminal -----------------------------
EXTENDS Terminal
TwoSizes == { << 3, 2 >>, << 1, 3 >> }
SmallSize == << 1, 3 >>
=============================================================================
