------------------------------ MODULE RiscvBoot ------------------------------
(***************************************************************************)
(* The RISC-V kernel from the first line of rust_map_kernel_window on: the *)
(* kernel's page table is filled, then every hart turns it on, then the    *)
(* ASID table goes through its life.                                       *)
(***************************************************************************)
EXTENDS RiscvAsid, RiscvKernelWindow

BootInit == Init /\ WindowInit

BootNext ==
  \/ WindowNext /\ UNCHANGED vars
  \/ stage = "done" /\ Next /\ UNCHANGED windowVars

BootSpec == BootInit /\ [][BootNext]_<<vars, windowVars>>

\* When a hart turns the kernel's table on, every address of the window and of
\* the image leads where the kernel's conversions between pointers and physical
\* addresses say, so that the instruction after the write of satp is still there.
KernelRunsOnItsWindow ==
  [][\A h \in Harts : ~ Active(h) /\ Active(h)' => KernelWindow]_<<vars, windowVars>>
==============================================================================
