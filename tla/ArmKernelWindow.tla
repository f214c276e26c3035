--------------------------- MODULE ArmKernelWindow ---------------------------
(***************************************************************************)
(* The page tables of the AArch64 kernel, as its boot code fills them.     *)
(*                                                                         *)
(*   src/arch/aarch64/boot.rs       rust_map_kernel_window,                *)
(*                                  map_kernel_frame                       *)
(*   src/arch/aarch64/device.rs     map_kernel_devices                     *)
(*   src/arch/aarch64/interface.rs  the static tables and their setters    *)
(*   src/arch/aarch64/utils.rs      get_kpt_index, kpptr_to_paddr          *)
(*                                                                         *)
(* Addresses count pages of the last level, from the first address that    *)
(* TTBR1 translates.  A step is a turn of a loop.  Of an entry the model   *)
(* keeps what kind it is, the address and the memory type.                 *)
(***************************************************************************)
EXTENDS Integers, Sequences

CONSTANTS
  IndexSize,             \* bit!(PT_INDEX_BITS), entries of a table of any level
  PPTR_BASE, PPTR_TOP,   \* the window on physical memory ...
  PADDR_BASE, PADDR_TOP, \* ... and what it shows
  KERNEL_ELF_BASE,       \* the kernel's image ...
  KERNEL_ELF_PADDR_BASE, \* ... and where the loader put it
  PUDAddress,            \* where the image has armKSGlobalKernelPUD,
  PDsAddress,            \* armKSGlobalKernelPDs
  PTAddress,             \* and armKSGlobalKernelPT
  kernel_device_frames   \* sequence of [paddr, pptr, armExecuteNever, userAvailable]

PPTR_BASE_OFFSET       == PPTR_BASE - PADDR_BASE
KERNEL_ELF_BASE_OFFSET == KERNEL_ELF_BASE - KERNEL_ELF_PADDR_BASE

\* What an entry of level n spans: bit!(kpt_level_shift(n)), in pages.
PageSize(n) == CASE n = 0 -> IndexSize * IndexSize * IndexSize
                 [] n = 1 -> IndexSize * IndexSize
                 [] n = 2 -> IndexSize
                 [] n = 3 -> 1
get_kpt_index(va, n) == (va \div PageSize(n)) % IndexSize
kpptr_to_paddr(x) == x - KERNEL_ELF_BASE_OFFSET

TableIndex == 0 .. IndexSize - 1
Last == IndexSize - 1
get_kernel_page_directory_base_by_index(i) == PDsAddress + i

PTE(kind, addr, attr) == [kind |-> kind, addr |-> addr, attr |-> attr]
ZeroPTE                     == PTE("invalid", 0, "none")
pte_new_table(addr)         == PTE("table", addr, "none")
pte_new_page(addr, attr)    == PTE("block", addr, attr)
pte_new_4k_page(addr, attr) == PTE("page", addr, attr)

VARIABLES
  armKSGlobalKernelPGD,
  armKSGlobalKernelPUD,
  armKSGlobalKernelPDs,
  armKSGlobalKernelPT,
  stage,         \* which part of rust_map_kernel_window comes next
  vaddr, paddr,  \* its two running addresses
  idx,           \* its index, and that of the next device
  reserved       \* the pages that reserve_region was called for

kernelTables == <<armKSGlobalKernelPGD, armKSGlobalKernelPUD, armKSGlobalKernelPDs,
                  armKSGlobalKernelPT>>
windowVars == <<kernelTables, stage, vaddr, paddr, idx, reserved>>

WindowInit ==
  /\ armKSGlobalKernelPGD = [i \in TableIndex |-> ZeroPTE]
  /\ armKSGlobalKernelPUD = [i \in TableIndex |-> ZeroPTE]
  /\ armKSGlobalKernelPDs = [i \in TableIndex |-> [j \in TableIndex |-> ZeroPTE]]
  /\ armKSGlobalKernelPT = [i \in TableIndex |-> ZeroPTE]
  /\ stage = "pgd"
  /\ vaddr = PPTR_BASE /\ paddr = PADDR_BASE
  /\ idx = 0
  /\ reserved = {}

------------------------------------------------------------------------------
\* The entry of the top level for the window.
MapPGD ==
  /\ stage = "pgd"
  /\ armKSGlobalKernelPGD' =
       [armKSGlobalKernelPGD EXCEPT
          ![get_kpt_index(PPTR_BASE, 0)] = pte_new_table(kpptr_to_paddr(PUDAddress))]
  /\ idx' = get_kpt_index(PPTR_BASE, 1)
  /\ stage' = "pud"
  /\ UNCHANGED <<armKSGlobalKernelPUD, armKSGlobalKernelPDs, armKSGlobalKernelPT,
                 vaddr, paddr, reserved>>

\* One directory for each entry of the window.
MapPUD ==
  /\ stage = "pud"
  /\ IF idx < get_kpt_index(PPTR_TOP, 1)
     THEN /\ armKSGlobalKernelPUD' =
               [armKSGlobalKernelPUD EXCEPT
                  ![idx] = pte_new_table(
                             kpptr_to_paddr(get_kernel_page_directory_base_by_index(idx)))]
          /\ idx' = idx + 1
          /\ UNCHANGED stage
     ELSE stage' = "pds" /\ UNCHANGED <<armKSGlobalKernelPUD, idx>>
  /\ UNCHANGED <<armKSGlobalKernelPGD, armKSGlobalKernelPDs, armKSGlobalKernelPT,
                 vaddr, paddr, reserved>>

\* Physical memory, in blocks, as long as there is any.
MapPDs ==
  /\ stage = "pds"
  /\ IF paddr < PADDR_TOP
     THEN /\ armKSGlobalKernelPDs' =
               [armKSGlobalKernelPDs EXCEPT
                  ![get_kpt_index(vaddr, 1)][get_kpt_index(vaddr, 2)] =
                      pte_new_page(paddr, "NORMAL")]
          /\ vaddr' = vaddr + PageSize(2)
          /\ paddr' = paddr + PageSize(2)
          /\ UNCHANGED stage
     ELSE stage' = "pt" /\ UNCHANGED <<armKSGlobalKernelPDs, vaddr, paddr>>
  /\ UNCHANGED <<armKSGlobalKernelPGD, armKSGlobalKernelPUD, armKSGlobalKernelPT,
                 idx, reserved>>

\* Mutant of MapPT: the table goes where the last directory begins.
MapPT_first ==
  /\ stage = "pt"
  /\ armKSGlobalKernelPUD' =
       [armKSGlobalKernelPUD EXCEPT
          ![get_kpt_index(PPTR_TOP, 1)] =
              pte_new_table(kpptr_to_paddr(get_kernel_page_directory_base_by_index(Last)))]
  /\ armKSGlobalKernelPDs' =
       [armKSGlobalKernelPDs EXCEPT ![Last][0] = pte_new_table(kpptr_to_paddr(PTAddress))]
  /\ idx' = 1
  /\ stage' = "devices"
  /\ UNCHANGED <<armKSGlobalKernelPGD, armKSGlobalKernelPT, vaddr, paddr, reserved>>

\* The table of the devices is the last one of the last directory.
MapPT ==
  /\ stage = "pt"
  /\ armKSGlobalKernelPUD' =
       [armKSGlobalKernelPUD EXCEPT
          ![get_kpt_index(PPTR_TOP, 1)] =
              pte_new_table(kpptr_to_paddr(get_kernel_page_directory_base_by_index(Last)))]
  /\ armKSGlobalKernelPDs' =
       [armKSGlobalKernelPDs EXCEPT ![Last][Last] = pte_new_table(kpptr_to_paddr(PTAddress))]
  /\ idx' = 1
  /\ stage' = "devices"
  /\ UNCHANGED <<armKSGlobalKernelPGD, armKSGlobalKernelPT, vaddr, paddr, reserved>>

\* One entry of that table, found by the last level of the address alone.
map_kernel_frame(addr, va, attributes) ==
  LET get_page_cacheable == attributes % 2
  IN  armKSGlobalKernelPT' =
        [armKSGlobalKernelPT EXCEPT
           ![get_kpt_index(va, 3)] =
               pte_new_4k_page(addr, IF get_page_cacheable # 0 THEN "NORMAL"
                                                               ELSE "DEVICE_nGnRnE")]

\* map_kernel_devices: what is passed as attributes is armExecuteNever alone.
MapDevice ==
  /\ stage = "devices"
  /\ IF idx <= Len(kernel_device_frames)
     THEN LET frame == kernel_device_frames[idx]
          IN  /\ map_kernel_frame(frame.paddr, frame.pptr, frame.armExecuteNever)
              /\ reserved' = IF frame.userAvailable THEN reserved
                             ELSE reserved \cup {frame.paddr}
              /\ idx' = idx + 1
              /\ UNCHANGED stage
     ELSE stage' = "done" /\ UNCHANGED <<armKSGlobalKernelPT, idx, reserved>>
  /\ UNCHANGED <<armKSGlobalKernelPGD, armKSGlobalKernelPUD, armKSGlobalKernelPDs,
                 vaddr, paddr>>

WindowNext == MapPGD \/ MapPUD \/ MapPDs \/ MapPT \/ MapDevice

------------------------------------------------------------------------------
Fault == [kind |-> "fault"]
Phys(addr, attr) == [kind |-> "memory", addr |-> addr, attr |-> attr]

\* Where the loader put the table that the kernel has at x.
PhysicalOf(x) == KERNEL_ELF_PADDR_BASE + (x - KERNEL_ELF_BASE)

\* What the hardware makes of va: a table is followed to the address that the
\* entry has, a block ends the walk before the last level and a page on it.
Translate(va) ==
  LET pgde == armKSGlobalKernelPGD[get_kpt_index(va, 0)]
      pude == armKSGlobalKernelPUD[get_kpt_index(va, 1)]
      \* the directories that have the address of pude
      dirs == {i \in TableIndex :
                 PhysicalOf(get_kernel_page_directory_base_by_index(i)) = pude.addr}
      pde  == armKSGlobalKernelPDs[CHOOSE i \in dirs : TRUE][get_kpt_index(va, 2)]
      pte  == armKSGlobalKernelPT[get_kpt_index(va, 3)]
  IN  IF pgde.kind # "table" \/ pgde.addr # PhysicalOf(PUDAddress) THEN Fault
      ELSE IF pude.kind # "table" \/ dirs = {} THEN Fault
      ELSE IF pde.kind = "block" THEN Phys(pde.addr + (va % PageSize(2)), pde.attr)
      ELSE IF pde.kind # "table" \/ pde.addr # PhysicalOf(PTAddress) THEN Fault
      ELSE IF pte.kind # "page" THEN Fault
      ELSE Phys(pte.addr, pte.attr)

\* Physical memory is seen through the window as normal memory, every device is
\* seen at the address the platform gives it, and nothing else is seen at all.
KernelWindow ==
  LET devices == {kernel_device_frames[n] : n \in DOMAIN kernel_device_frames}
      window  == PPTR_BASE .. PPTR_TOP - 1
  IN  /\ \A va \in window : Translate(va) = Phys(va - PPTR_BASE_OFFSET, "NORMAL")
      /\ \A d \in devices :
           /\ Translate(d.pptr).kind = "memory" /\ Translate(d.pptr).addr = d.paddr
           /\ ~ d.userAvailable => d.paddr \in reserved
      /\ \A va \in 0 .. IndexSize * PageSize(0) - 1 :
           va \notin window /\ (\A d \in devices : d.pptr # va) => Translate(va) = Fault
==============================================================================
