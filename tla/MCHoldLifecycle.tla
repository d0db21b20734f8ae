--------------------------- MODULE MCHoldLifecycle ---------------------------
EXTENDS HoldLifecycle, TLC

Symmetry == Permutations(Hosts)
=============================================================================
