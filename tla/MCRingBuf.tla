----------------------------- MODULE MCRingBuf -----------------------------
\* Instances of RingBuf for TLC: the producers are interchangeable.
EXTENDS RingBuf, TLC

CONSTANTS p1, p2

TwoProducers == {p1, p2}
Symmetry == Permutations(TwoProducers)
=============================================================================
