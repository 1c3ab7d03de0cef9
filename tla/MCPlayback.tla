------------------------------ MODULE MCPlayback -------------------------------
\* Four addresses: two on each side of a link, or a gateway and three behind it.
\* Five frames are enough for two pairs learned from scratch and any frame after them.
EXTENDS Playback, TLC

Symmetry == Permutations(Address) \union Permutations(FakeDests)
===============================================================================
