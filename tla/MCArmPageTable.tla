--------------------------- MODULE MCArmPageTable ---------------------------
\* ArmPageTable for TLC.  One space as deep as it gets, with two addresses in one
\* last-level table; or two spaces that share the tables of the upper levels, with
\* addresses that part in the lower of them.
EXTENDS ArmPageTable, TLC

VA(i, j, k) == (0 :> 0) @@ (1 :> i) @@ (2 :> j) @@ (3 :> k)
DeepVAddrs == {VA(0, 0, 0), VA(0, 0, 1)}
WideVAddrs == {VA(0, 0, 0), VA(0, 1, 0)}

Symmetry ==
  Permutations(Roots) \cup Permutations(PageTables) \cup Permutations(Frames)
==============================================================================
