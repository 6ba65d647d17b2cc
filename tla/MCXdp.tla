------------------------------- MODULE MCXdp -------------------------------
\* Instances of Xdp for TLC: programs and interfaces are interchangeable.
EXTENDS Xdp, TLC

CONSTANTS p1, p2, i1, i2

TwoPrograms == {p1, p2}
TwoInterfaces == {i1, i2}
Symmetry == Permutations(TwoPrograms) \union Permutations(TwoInterfaces)
=============================================================================
