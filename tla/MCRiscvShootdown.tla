--------------------------- MODULE MCRiscvShootdown ---------------------------
\* RiscvShootdown for TLC: three harts, so that two answers are awaited at once.
EXTENDS RiscvShootdown
==============================================================================
