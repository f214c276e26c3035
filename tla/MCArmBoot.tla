------------------------------ MODULE MCArmBoot ------------------------------
\* ArmBoot for TLC: two of everything, so that an ASID, a pool and an index can
\* each be given to a second owner.  Tables have four entries; three devices,
\* one that a user may have and two that are never executed.
EXTENDS ArmBoot, TLC

Symmetry ==
  Permutations(Harts) \cup Permutations(Roots) \cup Permutations(Pools)

MCDevices ==
  <<[paddr |-> 70, pptr |-> 252, armExecuteNever |-> 1, userAvailable |-> FALSE],
    [paddr |-> 64, pptr |-> 253, armExecuteNever |-> 0, userAvailable |-> TRUE],
    [paddr |-> 81, pptr |-> 255, armExecuteNever |-> 1, userAvailable |-> FALSE]>>
==============================================================================
