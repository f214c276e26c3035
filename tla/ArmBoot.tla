------------------------------- MODULE ArmBoot -------------------------------
(***************************************************************************)
(* The AArch64 kernel from the first line of rust_map_kernel_window on:    *)
(* the kernel's page tables are filled, then every hart turns them on,     *)
(* then the ASID table goes through its life.                              *)
(***************************************************************************)
EXTENDS ArmAsid, ArmKernelWindow

\* The window fills whole directories of one upper directory but its last
\* entry, the image is in the window, and the devices have one page each in the
\* range of the last table.
ASSUME ArmWindowAssumption ==
  /\ IndexSize \in Nat \ {0, 1}
  /\ {PADDR_BASE, KERNEL_ELF_BASE, KERNEL_ELF_PADDR_BASE} \subseteq Nat
  /\ {PUDAddress, PDsAddress, PTAddress} \subseteq Nat
  /\ PPTR_BASE = (IndexSize - 1) * PageSize(0)
  /\ PPTR_TOP = IndexSize * PageSize(0) - PageSize(1)
  /\ PADDR_BASE % PageSize(2) = 0
  /\ PADDR_TOP = PADDR_BASE + (PPTR_TOP - PPTR_BASE)
  /\ KERNEL_ELF_BASE_OFFSET = PPTR_BASE_OFFSET
  /\ kernel_device_frames \in
       Seq([paddr : Nat, armExecuteNever : {0, 1}, userAvailable : BOOLEAN,
            pptr : IndexSize * PageSize(0) - PageSize(2) .. IndexSize * PageSize(0) - 1])
  /\ \A m, n \in DOMAIN kernel_device_frames :
       kernel_device_frames[m].pptr = kernel_device_frames[n].pptr => m = n

BootInit == Init /\ WindowInit

BootNext ==
  \/ WindowNext /\ UNCHANGED vars
  \/ stage = "done" /\ Next /\ UNCHANGED windowVars

BootSpec == BootInit /\ [][BootNext]_<<vars, windowVars>>

\* When a hart turns the kernel's tables on, every address leads where the
\* kernel's conversions between pointers and physical addresses say, and every
\* device is at its own address: none has taken the entry of another.
KernelRunsOnItsWindow ==
  [][\A h \in Harts : ~ Active(h) /\ Active(h)' => KernelWindow]_<<vars, windowVars>>
==============================================================================
