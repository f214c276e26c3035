--------------------------- MODULE MCRiscvPageTable ---------------------------
\* RiscvPageTable for TLC: of the three entries of a root two are for user space, the
\* second of them among those that copyGlobalMappings copies.  Two spaces of one
\* address, at that entry; or one space of three, two in one last-level table.
EXTENDS RiscvPageTable, TLC

VA(i, j, k) == (0 :> i) @@ (1 :> j) @@ (2 :> k)
OneVAddr   == {VA(1, 0, 0)}
WideVAddrs == {VA(0, 0, 0), VA(0, 0, 1), VA(1, 0, 0)}

Symmetry == Permutations(Roots) \cup Permutations(PageTables) \cup Permutations(Frames)
==============================================================================
