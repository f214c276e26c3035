----------------------------- MODULE MCRiscvBoot -----------------------------
\* RiscvBoot for TLC: two harts, two user roots, two pools, and ASIDs of two
\* bits, so that pools are moved between indices and ASIDs between roots.  The
\* window is two of the eight pages of a root with eight entries; the image is
\* in the second one; two devices share the last page, one of them not aligned.
EXTENDS RiscvBoot, TLC

Symmetry == Permutations(Harts) \cup Permutations(Roots) \cup Permutations(Pools)

MCDevices ==
  <<[paddr |-> 20, pptr |-> 448, userAvailable |-> FALSE],
    [paddr |-> 8,  pptr |-> 450, userAvailable |-> TRUE]>>
==============================================================================
