-------------------------- MODULE RiscvKernelWindow --------------------------
(***************************************************************************)
(* The page table of the RISC-V kernel, as its boot code fills it.         *)
(*                                                                         *)
(*   src/arch/riscv64/pagetable.rs  rust_map_kernel_window                 *)
(*   src/arch/riscv64/boot.rs       map_kernel_frame                       *)
(*   src/arch/riscv64/device.rs     map_kernel_devices                     *)
(*   src/arch/riscv64/utils.rs      riscv_get_pt_index and the page sizes  *)
(*                                                                         *)
(* Addresses count pages of the last level.  The names of the constants    *)
(* are those of the kernel's configuration; a step is a turn of a loop.    *)
(***************************************************************************)
EXTENDS Integers, Sequences

CONSTANTS
  IndexSize,             \* bit!(PT_INDEX_BITS), entries of a table
  PPTR_BASE, PPTR_TOP,   \* the window on physical memory ...
  PADDR_BASE, PADDR_TOP, \* ... and what it shows
  KERNEL_ELF_BASE,       \* the kernel's image ...
  KERNEL_ELF_PADDR_BASE, \* ... and where the loader put it
  KDEV_BASE,             \* the devices
  Level2Pt,              \* the address of KERNEL_IMAGE_LEVEL2_PT in the image
  kernel_device_frames   \* sequence of [paddr, pptr, userAvailable]

PPTR_BASE_OFFSET       == PPTR_BASE - PADDR_BASE
KERNEL_ELF_BASE_OFFSET == KERNEL_ELF_BASE - KERNEL_ELF_PADDR_BASE

\* Three levels.
riscv_get_lvl_pgsize(n) == CASE n = 0 -> IndexSize * IndexSize
                             [] n = 1 -> IndexSize
                             [] n = 2 -> 1
riscv_get_pt_index(addr, n) == (addr \div riscv_get_lvl_pgsize(n)) % IndexSize
align_down(addr, n) == addr - (addr % riscv_get_lvl_pgsize(n))
kpptr_to_paddr(x) == x - KERNEL_ELF_BASE_OFFSET

\* The figure over rust_map_kernel_window: KERNEL_ELF_BASE is as far above a
\* multiple of 1 GiB as KERNEL_ELF_PADDR_BASE, the image lies in the GiB above
\* PPTR_TOP, the devices in the last one.
ASSUME RiscvWindowAssumption ==
  LET GiB == riscv_get_lvl_pgsize(0)
  IN  /\ IndexSize \in Nat \ {0, 1}
      /\ {PPTR_BASE, PPTR_TOP, PADDR_BASE, PADDR_TOP, KERNEL_ELF_PADDR_BASE, Level2Pt}
           \subseteq Nat
      /\ PPTR_BASE % GiB = 0 /\ PPTR_TOP % GiB = 0 /\ PADDR_BASE % GiB = 0
      /\ PADDR_TOP - PADDR_BASE = PPTR_TOP - PPTR_BASE
      /\ KERNEL_ELF_BASE = PPTR_TOP + (KERNEL_ELF_PADDR_BASE % GiB)
      /\ KERNEL_ELF_PADDR_BASE \in PADDR_BASE .. PADDR_TOP - 1
      /\ KDEV_BASE = PPTR_TOP + GiB /\ KDEV_BASE + GiB = IndexSize * GiB
      /\ kernel_device_frames \in
           Seq([paddr : Nat, pptr : KDEV_BASE .. IndexSize * GiB - 1, userAvailable : BOOLEAN])

TableIndex == 0 .. IndexSize - 1
pte_invalid == [v |-> FALSE, leaf |-> FALSE, addr |-> 0]
pte_next_table(addr, is_leaf) == [v |-> TRUE, leaf |-> is_leaf, addr |-> addr]

VARIABLES
  KERNEL_ROOT_PAGE_TABLE,
  KERNEL_IMAGE_LEVEL2_PT,
  stage,        \* which part of rust_map_kernel_window comes next
  pptr, paddr,  \* its two running addresses
  count,        \* its index, and that of the next device
  reserved      \* the pages that reserve_region was called for

windowVars ==
  <<KERNEL_ROOT_PAGE_TABLE, KERNEL_IMAGE_LEVEL2_PT, stage, pptr, paddr, count, reserved>>

WindowInit ==
  /\ KERNEL_ROOT_PAGE_TABLE = [i \in TableIndex |-> pte_invalid]
  /\ KERNEL_IMAGE_LEVEL2_PT = [i \in TableIndex |-> pte_invalid]
  /\ stage = "pspace"
  /\ pptr = PPTR_BASE /\ paddr = PADDR_BASE
  /\ count = 0
  /\ reserved = {}

------------------------------------------------------------------------------
\* The window, by pages of the root's level, until one of the ranges is used up.
MapPSpace ==
  /\ stage = "pspace"
  /\ IF pptr < PPTR_TOP /\ paddr < PADDR_TOP
     THEN /\ KERNEL_ROOT_PAGE_TABLE' =
               [KERNEL_ROOT_PAGE_TABLE EXCEPT
                  ![riscv_get_pt_index(pptr, 0)] = pte_next_table(paddr, TRUE)]
          /\ pptr' = pptr + riscv_get_lvl_pgsize(0)
          /\ paddr' = paddr + riscv_get_lvl_pgsize(0)
          /\ UNCHANGED stage
     ELSE stage' = "elf" /\ UNCHANGED <<KERNEL_ROOT_PAGE_TABLE, pptr, paddr>>
  /\ UNCHANGED <<KERNEL_IMAGE_LEVEL2_PT, count, reserved>>

\* Mutant of MapElf: the physical address is not aligned.
MapElf_unaligned ==
  /\ stage = "elf"
  /\ stage' = "image"
  /\ pptr' = align_down(KERNEL_ELF_BASE, 0)
  /\ paddr' = KERNEL_ELF_PADDR_BASE
  /\ KERNEL_ROOT_PAGE_TABLE' =
       [KERNEL_ROOT_PAGE_TABLE EXCEPT
          ![riscv_get_pt_index(KERNEL_ELF_PADDR_BASE + PPTR_BASE_OFFSET, 0)] =
              pte_next_table(kpptr_to_paddr(Level2Pt), FALSE),
          ![riscv_get_pt_index(KERNEL_ELF_BASE, 0)] =
              pte_next_table(kpptr_to_paddr(Level2Pt), FALSE)]
  /\ UNCHANGED <<KERNEL_IMAGE_LEVEL2_PT, count, reserved>>

\* The entries of the image and of its place in the window share one table.
MapElf ==
  /\ stage = "elf"
  /\ stage' = "image"
  /\ pptr' = align_down(KERNEL_ELF_BASE, 0)
  /\ paddr' = align_down(KERNEL_ELF_PADDR_BASE, 0)
  /\ KERNEL_ROOT_PAGE_TABLE' =
       [KERNEL_ROOT_PAGE_TABLE EXCEPT
          ![riscv_get_pt_index(KERNEL_ELF_PADDR_BASE + PPTR_BASE_OFFSET, 0)] =
              pte_next_table(kpptr_to_paddr(Level2Pt), FALSE),
          ![riscv_get_pt_index(pptr', 0)] =
              pte_next_table(kpptr_to_paddr(Level2Pt), FALSE)]
  /\ UNCHANGED <<KERNEL_IMAGE_LEVEL2_PT, count, reserved>>

\* The loop that fills it; the kernel panics at an index that the table has not.
MapImage ==
  /\ stage = "image"
  /\ IF pptr < PPTR_TOP + riscv_get_lvl_pgsize(0)
     THEN /\ count \in TableIndex
          /\ KERNEL_IMAGE_LEVEL2_PT' =
               [KERNEL_IMAGE_LEVEL2_PT EXCEPT ![count] = pte_next_table(paddr, TRUE)]
          /\ pptr' = pptr + riscv_get_lvl_pgsize(1)
          /\ paddr' = paddr + riscv_get_lvl_pgsize(1)
          /\ count' = count + 1
          /\ UNCHANGED stage
     ELSE /\ stage' = "devices" /\ count' = 1
          /\ UNCHANGED <<KERNEL_IMAGE_LEVEL2_PT, pptr, paddr>>
  /\ UNCHANGED <<KERNEL_ROOT_PAGE_TABLE, reserved>>

\* One entry of the root, whatever the alignment of the physical address.
map_kernel_frame(addr, vaddr) ==
  KERNEL_ROOT_PAGE_TABLE' =
    [KERNEL_ROOT_PAGE_TABLE EXCEPT
       ![riscv_get_pt_index(vaddr, 0)] =
           pte_next_table(align_down(addr, IF vaddr >= KDEV_BASE THEN 1 ELSE 0), TRUE)]

\* map_kernel_devices.
MapDevice ==
  /\ stage = "devices"
  /\ IF count <= Len(kernel_device_frames)
     THEN LET frame == kernel_device_frames[count]
          IN  /\ map_kernel_frame(frame.paddr, frame.pptr)
              /\ reserved' = IF frame.userAvailable THEN reserved
                             ELSE reserved \cup {frame.paddr}
              /\ count' = count + 1
              /\ UNCHANGED stage
     ELSE stage' = "done" /\ UNCHANGED <<KERNEL_ROOT_PAGE_TABLE, count, reserved>>
  /\ UNCHANGED <<KERNEL_IMAGE_LEVEL2_PT, pptr, paddr>>

WindowNext == MapPSpace \/ MapElf \/ MapImage \/ MapDevice

------------------------------------------------------------------------------
Fault == -1

\* A leaf whose address is not aligned to its level is a fault.
Leaf(pte, va, n) ==
  IF pte.v /\ pte.leaf /\ pte.addr % riscv_get_lvl_pgsize(n) = 0
  THEN pte.addr + (va % riscv_get_lvl_pgsize(n))
  ELSE Fault

\* The physical address that the hardware makes of va; the table of level 1 is
\* found where the loader put it.
Translate(va) ==
  LET upper == KERNEL_ROOT_PAGE_TABLE[riscv_get_pt_index(va, 0)]
  IN  IF upper.v /\ ~ upper.leaf
      THEN IF upper.addr = KERNEL_ELF_PADDR_BASE + (Level2Pt - KERNEL_ELF_BASE)
           THEN Leaf(KERNEL_IMAGE_LEVEL2_PT[riscv_get_pt_index(va, 1)], va, 1)
           ELSE Fault
      ELSE Leaf(upper, va, 0)

\* The figure over rust_map_kernel_window: PSpace shows all of the physical
\* memory, the kernel's image is there a second time, user space is empty, and
\* the devices have changed nothing of it.
KernelWindow ==
  /\ \A va \in PPTR_BASE .. PPTR_TOP - 1 : Translate(va) = va - PPTR_BASE_OFFSET
  /\ \A va \in KERNEL_ELF_BASE .. PPTR_TOP + riscv_get_lvl_pgsize(0) - 1 :
       Translate(va) = va - KERNEL_ELF_BASE_OFFSET
  /\ \A va \in 0 .. PPTR_BASE - 1 : Translate(va) = Fault
  /\ \A n \in DOMAIN kernel_device_frames :
       ~ kernel_device_frames[n].userAvailable => kernel_device_frames[n].paddr \in reserved
==============================================================================
