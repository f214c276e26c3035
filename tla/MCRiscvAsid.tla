----------------------------- MODULE MCRiscvAsid -----------------------------
\* RiscvAsid for TLC: two harts, two user roots, two pools, and ASIDs of two
\* bits, so that pools are moved between indices and ASIDs between roots.
EXTENDS RiscvAsid, TLC

Symmetry == Permutations(Harts) \cup Permutations(Roots) \cup Permutations(Pools)
==============================================================================
