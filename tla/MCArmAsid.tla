----------------------------- MODULE MCArmAsid -----------------------------
\* ArmAsid for TLC: two of everything, so that an ASID, a pool and an index can
\* each be given to a second owner.
EXTENDS ArmAsid, TLC

Symmetry ==
  Permutations(Harts) \cup Permutations(Roots) \cup Permutations(Pools)
==============================================================================
