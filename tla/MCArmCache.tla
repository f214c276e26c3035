----------------------------- MODULE MCArmCache -----------------------------
\* ArmCache for TLC: two lines of two bytes, the two in the middle written by a
\* device, so that a range can begin, end, or begin and end inside of a line; a
\* level of one way and two sets above a unified one of three ways and two sets.
EXTENDS ArmCache

MCCtype  == 0 :> 3 @@ 1 :> 4
MCCcsidr == 0 :> [line |-> 0, ways |-> 0, sets |-> 1] @@
            1 :> [line |-> 0, ways |-> 2, sets |-> 1]
==============================================================================
