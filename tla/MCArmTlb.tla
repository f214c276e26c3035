------------------------------ MODULE MCArmTlb ------------------------------
\* ArmTlb for TLC: two processors, two spaces to move between and one
\* frame: an entry is mapped, unmapped and mapped again.
EXTENDS ArmTlb
==============================================================================
