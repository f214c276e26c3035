# The address spaces of reL4, in TLA+

`sel4_vspace` is the crate of the reL4 kernel that owns address spaces: the
table from ASIDs to root page tables, the page tables themselves, the register
that selects one, and the TLB and cache maintenance around them. It exists
twice, for RISC-V (Sv39) and for AArch64 (four levels). This directory models
it, checks the models with TLC and proves what matters most with TLAPS.

Paths below are relative to the repository; `riscv64/` and `aarch64/` stand
for `src/arch/riscv64/` and `src/arch/aarch64/`.

## 1. The system

### Components

| Component | State | Operations | Model |
|---|---|---|---|
| RISC-V ASID table | `riscvKSASIDTable`, the pools | `write_it_asid_pool`, `set_asid_pool_by_index`, `set_vspace_by_index`, `find_vspace_for_asid`, `delete_asid`, `delete_asid_pool` | `RiscvAsid` |
| RISC-V activation | `satp` of each hart | `set_vm_root`, `set_vspace_root`, `activate_kernel_vspace` | `RiscvAsid`, `RiscvShootdown` |
| RISC-V page tables | the tables in memory | `lookup_pt_slot`, `make_user_pte`, `update`, `copyGlobalMappings`, `unmap_page`, `unmap_page_table`, `map_it_pt_cap`, `map_it_frame_cap` | `RiscvPageTable` |
| RISC-V TLB shootdown | TLB and store buffer of each hart | `sfence`, `sfence_local`, `remote_sfence_vma`, `hw_asid_flush` | `RiscvShootdown` |
| RISC-V kernel window | `KERNEL_ROOT_PAGE_TABLE`, `KERNEL_IMAGE_LEVEL2_PT` | `rust_map_kernel_window`, `map_kernel_frame`, `map_kernel_devices` | `RiscvKernelWindow`, `RiscvBoot` |
| AArch64 ASID table | `armKSASIDTable`, the pools of `asid_map` | as on RISC-V, with `find_map_for_asid` | `ArmAsid` |
| AArch64 activation | `TTBR0`, `TTBR1` of each processor | `set_vm_root`, `set_vm_root_for_flush_with_thread_root`, `activate_kernel_vspace`, `set_current_user_vspace_root` | `ArmAsid` |
| AArch64 page tables | the tables in memory | `lookup_pt_slot`, `make_user_pte`, `update`, `unmap_page`, `unmap_page_table`, `find_pt`, `map_it_pud_cap`, `map_it_pd_cap`, `map_it_pt_cap`, `map_it_frame_cap` | `ArmPageTable` |
| AArch64 TLB maintenance | `TTBR0`, `TTBR1` and TLB of each processor | `invalidate_local_tlb*`, `invalidate_tlb_by_asid*`, `set_current_*_vspace_root`, and the operations that call them | `ArmTlb` |
| AArch64 caches | lines of the data caches and the instruction cache | `do_flush` and the range operations, `clean_invalidate_l1_caches` | `ArmCache` |
| AArch64 kernel window | `armKSGlobalKernelPGD`, `PUD`, `PDs`, `PT` | `rust_map_kernel_window`, `map_kernel_frame`, `map_kernel_devices` | `ArmKernelWindow`, `ArmBoot` |
| Encodings | none | constructors and accessors of entries, `satp`, `TTBR`, `vm_attributes_t` | `Encodings` |
| Shared types, glue | none | wrappers, re-exports | not modelled: no state |

### How they interact

* **The caller drives everything.** The crate starts nothing by itself. The
  kernel's boot code, the invocations of capabilities, the finaliser of a
  deleted capability and the scheduler call it, under the kernel lock. They are
  not in this repository. The modules model them as *external* actions that do
  what the crate's signatures require of them, and the capabilities that they
  keep are variables (`caps`, `poolCaps`, `frameCap`, `ptCap`), because almost
  every promise of the crate is a promise about a capability.
* **ASID table -> page tables.** `unmap_page` and `unmap_page_table` receive an
  ASID and an address from a capability that may be older than the space which
  has that ASID now. `find_vspace_for_asid` is the only link between the two;
  in the page table modules it is the map `vspaceOf`, and `AsidMap` is what
  the table is shown to implement.
* **ASID table -> activation.** `delete_asid` and `delete_asid_pool` call
  `set_vm_root` for the current thread; `set_vm_root` reads the table.
* **Page tables -> TLB.** `unmap_page`, `update` and the boot functions end in
  a fence (RISC-V) or an invalidation by ASID (AArch64). The walkers of the
  harts read the tables at any time, without any lock.
* **Boot -> everything.** `rust_map_kernel_window` fills the kernel's tables,
  then each hart turns them on with `activate_kernel_vspace`, then the rest
  begins. `RiscvBoot` and `ArmBoot` compose the window modules with the ASID
  modules in this order.
* **Activation -> TLB and caches.** `activate_kernel_vspace` of AArch64 cleans
  the caches, writes both registers and flushes; `set_vm_root` flushes the whole
  TLB of its processor. A cache invocation switches to the space first
  (`set_vm_root_for_flush_with_thread_root`), calls `do_flush` and switches back.

### What is hard here

The operations are sequential and short; what is hard is *when* they are
called and what runs beside them:

* **Stale capabilities.** A page table, pool or frame capability outlives the
  binding it names: the ASID goes to another root, the index to another pool,
  the slot to another frame or table. A single comparison in each operation
  protects the new owner.
* **Other harts.** They keep translating while one hart changes an entry,
  deletes an ASID or gives it away again.
* **Partial undo.** `unmap_page_table` and `delete_asid_pool` leave things
  behind: entries of a removed pool, entries of a removed table.
* **Boot code** that overwrites whatever its lookup ends at.
* **Slow hardware.** A register that is written is not yet used, an
  invalidation that is issued has not yet taken effect, a line that is
  cleaned is filled again: the barriers between the instructions are the only
  thing that orders them, and a test on an emulator sees none of it.
* **Widths and indices**: two copies of an index computation that must agree,
  masks, the split of an ASID.

`PROJECT.json` lists each of these as a hazard at the line where it bites, with
the properties that would catch it, or with a note where none does yet.

## 2. The modules

### AsidMap

What the ASID layer promises: a partial map from ASIDs to roots, on which a
step binds one free ASID to a root that no ASID names, releases one ASID, or
releases the block of ASIDs that one pool serves. Nothing else: no ASID ever
moves from one root to another in one step. `RiscvAsid` and `ArmAsid` are both
shown to implement it (`ImplementsAsidMap`), each with

    vspaceOf <- [a \in Asids |-> find_vspace_for_asid(a)]

and the page table modules, which have `vspaceOf` for a variable, are shown to let it
change as `AsidMap` does (`SpacesComeFromTheAsidLayer`).

### RiscvAsid

| Code | Model |
|---|---|
| `riscvKSASIDTable[i]`, a pointer or 0 | `riscvKSASIDTable[i]`, a pool or `Null` |
| `asid_pool_t.array[l]` of the pool at `p` | `array[p][l]` |
| `satp` of a hart | `satp[h]`, a record of root and ASID |
| its TLB | `tlb[h]`, the spaces from which an entry was walked, with the tag |
| `EXCEPTION_LOOKUP_FAULT`, from either of the two tests | `find_vspace_for_asid(a) = Null` |
| `set_vm_root`, `delete_asid`, `delete_asid_pool`, ... | the operators of the same name |

The actions `SwitchThread`, `DeleteAsid`, `DeleteAsidPool`, `AssignAsid`,
`InstallPool`, `InitialThread`, `ActivateKernel` are the callers, one per
operation. `TlbFill` is a hart's walker, which may run between any two of them.
A capability that is deleted need not be the one that its ASID resolves to: the
set `caps` contains those whose pool has gone, or whose ASID was given away. Nor need
the index of a pool capability be the pool's: `DeleteAsidPool` may leave a copy of the
capability behind (`poolCopies`), which is deleted later, when another pool
has the index; then the comparison at `riscv64/asid.rs:116` is all that protects it.

`set_vm_root` computes a verdict and does not use it: the branch for an illegal
root installs the kernel's table and falls through to the line that installs
the capability's root (`riscv64/interface.rs:42`). The operator has the end
result only.

### RiscvPageTable

Memory is `mem[t][i]`, the entries of the tables; a page is a model value. Of an
entry the module keeps V, whether R, W or X is set, and the page. A virtual
address is the function from levels to indices, so that shifting and masking
are function application. `lookup_pt_slot` is a recursive function over
levels; its result has the level in the place of `ptBitsLeft`.

`unmap_page_table` (two copies, `riscv64/interface.rs:46` and
`riscv64/pte.rs:86`) stops at an entry that leads to a table and follows any other, empty
entries and leaves included. The model follows it there: an empty entry leads to
`PageZero`, a leaf to a frame, and what is read in a page that is not a table is
chosen freely among the two values the next test can tell apart (`foreign`).
It never detaches a mapped table (theorem `UnmapPageTableDoesNothing`), so a caller that
clears the table afterwards leaves a link behind. Nobody looks for it when the table is mapped
again: the table then hangs in two places, of one space or of two, and a frame mapped
in it is reached in both, though its capability names one. With
tables of the root, `t` mapped in `r1`, unmapped, and mapped in `r2`: what is mapped through
`r2` shows in `r1`. The model allows all of it. The history variable `leftBehind` holds the tables with
such a link, from the step that leaves it until the table is clear and nothing leads to it, and
the properties say how far the damage goes: only a table in `leftBehind` has
two parents (`TablesFormTrees`), and a frame is reached outside of its capability only
through one (`MappedFrameHasCap`). `Walk`, the turns of `lookup_pt_slot`, is what the second says
it with.

`copyGlobalMappings` copies from the entry of `0x80000000` on, in Sv39 entry 2, while the kernel's
own entries begin with that of `PPTR_BASE`, entry 256. They are two constants, `CopiedFrom` and
`KernelIndex`, and user space (`UserVAddr`) ends at the second. So a user address may lie among the copied
entries, which are empty in the kernel's root, and a copy that begins late is harmless; one
that ends early or late is not, and these are the mutants.

A frame is mapped on an empty slot here, which is the caller's check.

### RiscvShootdown

One entry of one space, with `enable_smp`, at the grain of the instructions of
`sfence`: store, `fence w,rw`, `sfence.vma`, `remote_sfence_vma`, the answers.
`pc` is the instruction the hart in the kernel is at; `buffer[h]` is its store
that has not reached memory; a hart in the space fills its TLB from memory, or
from its own buffer, at any moment, empty entries included. `BindSpace`,
`SwitchThread` and `DeleteAsid` let harts and spaces come and go. A hart may switch to the
root whose ASID is gone, which `set_vm_root` installs all the same. That a root is
not given an ASID again while some hart runs in it (`BindSpace`) is the caller's part: the crate has
no check for it.

### ArmAsid

As `RiscvAsid`, copies of pool capabilities included (`aarch64/asid.rs:96`), with the
differences of the code: a `TTBR0` whose ASID is
always 0, because `set_vm_root` writes the bare address; the check of the
looked-up root under `if let Some`, so that an ASID that resolves to nothing is
not checked; the empty user space `armKSGlobalUserVSpace` as what one falls back on.
`set_vm_root` reads the tables as `delete_asid` has just left them, which
the operator says with primes. A cache flush is two steps, `BeginFlush` and
`EndFlush`: in between, the hart is in the space to be flushed, and its register
holds the kernel's pointer to the root (`addr = "pptr"`), which
`set_vm_root_for_flush_with_thread_root` writes without the conversion
that every other place makes.

### ArmPageTable

Four levels. The type of an entry is what `get_type` reads from bits 0, 1 and
58; bit 58 means nothing to the processor, only to the crate. The type of `PTE`
in the module says that an entry which the walk follows leads to a table.

`unmap_page_table` zeroes the slot and then calls `update` with the first
entry of the table it removes (`aarch64/interface.rs:201`: `*(pte)`, where `pte`
has become the removed table). So a removed table leaves its first
entry one level higher. The module models that as it stands and keeps two
history variables: `unclaimed`, the slots where it happened, and `displaced`, the
tables that are reached through such a slot. The properties speak of all the
other places, and say so (`Strays`).

That they must is itself a result. Say `T` hangs below the table that is removed, at
index 0, and `U` below `T` at another index. After the removal the slot above leads
to `T`, one level higher. The address in the capability of `U` now indexes `T` with the
wrong part, so `unmap_page_table` does not find `U`: the link to `U` stays, while its caller
clears `U` and may map it elsewhere. Then `U` has two parents, and a frame
mapped in it is reached at an address its capability does not know.
It takes three tables and three addresses in one space, `(0, 0, 0)`, `(0, 1, 0)` and `(1, 0, 0)`
below the root, which is more than the runs below have; it came up in the proof, which does not
go through without `displaced`, and TLC confirms it on that instance. The
theorem covers every instance.

`create_mapped_it_frame_cap` has a switch, `use_large`. It decides what the capability says,
a 2 MiB page, but `map_it_frame_cap` (`aarch64/boot.rs:170`) goes down to the last level in
either case and writes a 4 KiB entry there. When such a frame is unmapped, `unmap_page`
finds the wrong level and returns, and the entry stays. `CreateItFrame` has both
cases; the slot of a large one is `unclaimed` too, until something is mapped over it.

A frame may be mapped over another frame's page, and again where it is: the crate looks at
nothing (`FrameFits` only keeps the caller from mapping it over a table).

### RiscvKernelWindow and RiscvBoot

`rust_map_kernel_window`, a step for each turn of a loop: `MapPSpace` (the
window in leaves of the root), `MapElf` (the two entries that share the table of
the image), `MapImage` (its 512 entries; the Rust index panics beyond the
table, so the guard `count \in TableIndex` has no way on), `MapDevice`.
Addresses count pages; `riscv_get_lvl_pgsize` and `riscv_get_pt_index` are the
powers and the quotients that the shifts compute.

`RiscvWindowAssumption` is the figure in the doc of the function: the layout
comes from the kernel's configuration, which is not in this repository.

The reference is `KernelWindow`: what the hardware makes of *every* address of the
window, of the image and below both, by `Translate`, against the two
conversions the kernel uses for pointers. `RiscvBoot` runs the
boot code before anything of `RiscvAsid`, and `KernelRunsOnItsWindow` demands
`KernelWindow` at the step in which a hart writes `satp`.

### ArmKernelWindow and ArmBoot

The same for the four static tables of AArch64: `MapPGD`, `MapPUD`, `MapPDs`
(2 MiB blocks), `MapPT`, `MapDevice`. An entry keeps its kind, address and
memory type. `Translate` follows the addresses that the entries hold: a
directory is found only if some directory is where the loader put it. Here
`KernelWindow` also says that every device is at its own address and that no
other address of `TTBR1`'s range translates.

### ArmTlb

`TTBR0`, `TTBR1` and the TLB of each processor. A function of `machine.rs` is
the sequence of the instructions it executes; an operation is the
concatenation of the sequences of its calls, and `program` is what is left of
it. So the order in the code is the order in the model, and three things are
slower than the code reads:

* `unsynced[p]`: until an `isb` the walker may use an earlier value of a register;
* `tlbi`: an invalidation takes effect (`CompleteTlbi`) at any time up to the
  next `dsb`;
* `TlbFill`: the walker adds entries whenever it likes.

`delete_asid_pool` goes through the pool by index; the spaces that are bound there may be at
any of them, hence `DeleteAsidPool` invalidates them in some order. `ArmTlbAssumption` says
that what the code tells apart by constants (the three static tables, ASID 0)
is apart.

A cached entry has the ASID of the register it was walked with. As `set_vm_root`
writes the bare root, this is ASID 0, the invalidations by ASID in `unmap_page`
and `delete_asid` miss, and what keeps the system correct is the full flush of
the *next switch*. The properties say exactly what this is worth:
after a switch a processor holds entries of the space it is in and of the one it
has just left (the missing `isb` between `msr` and `tlbi` lets the walker bring
those back), and each of them agrees with the tables. Until that switch
an unmapped page stays reachable; no doc promises otherwise. An entry that maps
nothing is never cached, as the architecture says. The flush with
`set_vm_root_for_flush_with_thread_root` is in `ArmAsid` only.

### ArmCache

Lines of a data cache hierarchy and of an instruction cache, in the same
style: `program` is what is left to issue, `queue` the operations on the data
cache that have not taken effect, which a `dsb` waits for. Lines are filled,
evicted and, at boot, moved to a level further out (`Demote`) at any moment; until
the boot code has cleaned the caches, a line is filled into any free slot that
fits it. A line never moves inwards before that: the kernel executes nothing but the
sweep, and no sweep by set and way could catch a line that goes back to a level
which is done. The CPU
writes the bytes it owns, a device writes the bytes in `Dma`, and a line may hold
both. The points of unification and of coherency are both the memory. One
processor flushes; what another one would do to a line of the range is not modelled.

`invalidate_cache_range_ram` cleans first what the range covers in part. For a
start inside of a line it cleans the whole range, which may overwrite what a device
has delivered under a dirty line; `delivered` holds the bytes for which this
cannot happen, and `DeviceDataIsRead` speaks of these.

The set/way loop computes an operand (`Operand`), the model's hardware takes it apart
again (`Decode`); the operand is scaled to `WordBits` in the place of 32. The
powers of two by which it shifts are a recursive function, `bit`. `OperandFits`
is the architecture's side of the bargain: the three fields fit side by side in the
word. It is the only assumption on the geometry.

`read_cache_size` (`aarch64/machine.rs:302`) writes CSSELR and reads CCSIDR with no `isb` in between.
The architecture does not promise that the read sees the write: it may return the
geometry of the level selected before, and the sweep would then miss slots. The model takes
the geometry to be that of the level asked for, so `CleanReachesMemory` holds on processors where
this is so.

### Encodings

A word is the set of its bits that are 1. Masks are intersections, "or" is
union, `Shl` and `Shr` move every bit and drop those that leave the word. That
is the whole arithmetic of the crate's packing, and in this form it can be proved
for every word. The other modules use records; this one shows that records are
what is read back.

## 3. What is checked

Every run is exhaustive for its constants.

| Run | What it shows |
|---|---|
| `riscv_asid` | from `rust_map_kernel_window` on: `KernelRunsOnItsWindow`, which is about every address of the window and the image; then through every order of boot, pool creation, assignment, deletion and switching, with stale capabilities: `NothingOutlivesItsCap`, `RootHasOneAsid`, `NoAsidAliasing`, `StaleDeleteHarmless`, `ImplementsAsidMap` |
| `riscv_set_vm_root` | *violation*: an illegal root is installed |
| `riscv_page_table` | two spaces whose ASIDs, roots and tables are reused, every size of page, tables left behind in one space and mapped in the other: `MappedFrameHasCap`, `TablesFormTrees`, `KernelHalfIntact`, `OnlyItsOwnerUnmaps` |
| `riscv_unmap_page_table` | *violation*: the walk gives up at an entry that is not a leaf |
| `riscv_shootdown` | `CoherentBetweenOperations`, `NothingCachedOutside`, and under fairness `OperationsReturn` |
| `riscv_hw_asid_flush` | *violation*: another hart keeps entries of a deleted ASID |
| `arm_asid` | from `rust_map_kernel_window` on: `KernelRunsOnItsWindow`, `NothingOutlivesItsCap`, `HartsAreOnPhysicalRoots`, `StaleDeleteHarmless`, `ReassignedAsidFallsBack`, `ImplementsAsidMap` |
| `arm_set_vm_root` | *violation*: an unresolvable root is installed |
| `arm_page_table` | one space down to 4 KiB, boot frames of either size, frames mapped over one another: `MappedFrameHasCap`, `LeavesFitTheirLevel` |
| `arm_two_spaces` | two spaces: `TablesFormTrees`, `OnlyItsOwnerUnmaps` |
| `arm_tlb` | `BootTablesForgotten`, `SwitchForgetsEarlierSpaces`, `SwitchForgetsUnmappedPages`, and under fairness `OperationsReturn` |
| `arm_cache` | `NeighboursKeepTheirData`, `CleanReachesMemory`, `DeviceDataIsRead`, `FetchesSeeStores` |

Each property of a passing run has a mutant in its module (an operator next to
the one it changes, named for the change) under which TLC finds it violated.

### Bounds

* `riscv_asid`, `arm_asid`: two harts, two roots, two pools, a table of two
  indices and pools of two entries. Every hazard here is about a *second*
  owner: of an ASID, a root, an index or a pool. A third adds no new relation,
  and the proofs remove the bound. ASID 0 is the kernel's.
* `riscv_page_table`: two spaces, two tables, two frames, so that both tables, which a 4 KiB mapping
  needs, may go to different spaces, or back and forth, and a slot may pass from frame to
  frame; a frame can be mapped at each of the three levels. Tables of three entries, of which in a
  root the first is for user space alone, the second is copied and for user space, the third is
  the kernel's. There is one address, at the copied entry: with a second one the run would
  not finish within minutes. What several addresses add, that a table or a large page is reached by
  many and that one must be aligned, is left to the proofs, which remove all these bounds;
  run by hand on one space of three addresses (`WideVAddrs`) TLC finds no violation either.
  `riscv_unmap_page_table` has one space and three addresses.
* `riscv_shootdown`: three harts, so that two answers are awaited at once and
  answer in either order, and two frames, so that a new mapping differs from
  the old one. Here too proofs remove the bound.
* `arm_page_table`: one root, three tables (what a 4 KiB page needs), two
  frames, two addresses in one last-level table. `arm_two_spaces`: two roots, two
  tables, two frames, addresses that part in the second of them. One run
  for both would not finish within minutes. The proofs remove these bounds.
* `riscv_asid`, `arm_asid`, the windows: tables of eight and of four entries
  in the place of 512. For RISC-V the window has two entries of the root, so that
  the image shares its table with the second one and not with the first; the image
  begins inside of a page of each level; two devices lie in one page of the
  root and one of them is not aligned. For AArch64 three directories are filled, the
  window begins in the last entry of the top level and at a physical address
  that is not 0; of three devices one is left to users.
* `arm_tlb`: two processors, two spaces, one frame: to a processor there is
  only "the space it was in before the last" that a third one could add, and with
  the global and the boot tables there are already four roots to walk. One
  entry for each space; a second page of a space has the same tag. The proofs remove
  the bound on processors and spaces.
* `arm_cache`: two lines of two bytes, of which a device writes the inner two, so
  that a range may begin and end inside of a line or at its edge, and cover one
  line or both; a level of one way and two sets over one of three ways and two sets, so
  that the way takes no bit of the operand, or more than its number needs.
* There are no unbounded counters; no bound stands in any guard. Symmetry is
  declared in runs without liveness only.

### Deadlock

TLC checks it everywhere. No module can stop: a thread switch, a TLB fill or a
mapping is always possible.

### Fairness

`RiscvShootdown` and `ArmTlb` state some (`FairSpec`). In the first, a hart that is inside an
operation goes on to its next instruction; a store buffer drains; the
firmware of every hart answers a fence request. The first holds because
between the store and the return `sfence` is a straight line of instructions, with
no loop and no lock to wait for; the second is what the memory model promises;
the third is the contract of the SBI call, which does not depend on what the
other hart executes. In the second, likewise: the processor in the kernel
executes its straight line of instructions, an invalidation that is issued completes, and
every other processor takes the interrupt and answers it (`RemoteAnswer`), even
while it waits for the kernel lock. No hart has to *start* an operation. So
`OperationsReturn` does not speak of a firmware, or of a processor, that would itself wait for the
kernel before it answers: that one never does is assumed.

### Disagreements between code and docs

`PROJECT.json` has the four that a run exhibits:

1. `riscv64/interface.rs:42`: `set_vm_root` does not return after it has
   installed the kernel's table for an illegal root; line 44 then installs
   the illegal root. The doc (line 20) says the kernel's table is the default.
2. `aarch64/interface.rs:97`: `set_vm_root` checks the root it looked up only
   if there is one. The doc (line 81) promises the check.
3. `riscv64/interface.rs:58`: `unmap_page_table` treats a pointer to a table
   as a leaf, as the doc of `is_pte_table` (`riscv64/pte.rs:117`) says, against
   what `lookup_pt_slot` and the hardware do. A mapped table is never detached.
4. `riscv64/asid.rs:129`: `hw_asid_flush` reaches the calling hart only; its
   doc says it clears the entries of the ASID.

Observed while modelling, without a sentence in the repository that they
contradict:

* `aarch64/interface.rs:201`: the entry that `unmap_page_table` leaves behind, and the
  table with two parents that may come of it (above, ArmPageTable).
* `riscv64/interface.rs:58`: the table that hangs in two places after the third of the
  disagreements above (RiscvPageTable).
* `riscv64/boot.rs:67`: the field for the size of a frame gets `RISCV_MEGA_PAGE_BITS`, while
  `unmap_page` expects there what `pageBitsForSize` turns into bits. Both come from another crate; the
  model takes the size that is meant.
* `aarch64/boot.rs:237`: with `use_large` the capability says 2 MiB and the entry 4 KiB; unmapping
  the capability leaves the entry (ArmPageTable).
* `aarch64/machine.rs:303`: no `isb` between the write of CSSELR and the read of CCSIDR (ArmCache).
* `aarch64/boot.rs:116`: `map_kernel_frame` indexes its table by the last level of the address
  alone; devices in different 2 MiB ranges with the same last index replace one another
  (excluded by `ArmWindowAssumption`).
* `aarch64/interface.rs:106`: TTBR0 is written without an ASID while `unmap_page`
  and `delete_asid` invalidate by the space's ASID (above, ArmTlb).
* `aarch64/machine.rs:27`: no `isb` between the write of TTBR0 and the `tlbi`.
* `aarch64/interface.rs:144`: the unconverted pointer.
* `aarch64/device.rs:17`: `armExecuteNever` is passed as the whole word of
  attributes, and `map_kernel_frame` takes the same bit for "cacheable": a device
  that is never to be executed is mapped as normal memory
  (theorem `ExecuteNeverDeviceIsCached`). In `vm_attributes_t` itself
  `get_execute_never` and `get_page_cacheable` read one bit.
* `riscv64/boot.rs:17`: `map_kernel_frame` aligns a device to 2 MiB and maps it
  with an entry of the 1 GiB level; unless it is aligned to 1 GiB the access
  faults, and a second device replaces the first. `KernelRunsOnItsWindow` holds
  because none of this touches the window.
* `aarch64/pte.rs:108`: `get_pte_from_ppn_mut`, which nothing calls, leads to four
  times the address of the table (theorem `ArmPpnIsFourTimesTheAddress`).

## 4. What is proved

| Module | About | What it proves |
|---|---|---|
| `RiscvBootProofs` | `RiscvAsid`, `RiscvKernelWindow`, `RiscvBoot` | all that the runs check of the ASID table; the boot code builds the window of its figure for every geometry; the composed system implements `RiscvAsid` |
| `RiscvPageTableProofs` | `RiscvPageTable` | all that the runs check of it |
| `RiscvShootdownProofs` | `RiscvShootdown` | all but liveness |
| `ArmBootProofs` | `ArmAsid`, `ArmKernelWindow`, `ArmBoot` | all that the runs check of the ASID table; the window; the composed system implements `ArmAsid` |
| `ArmPageTableProofs` | `ArmPageTable` | all that the runs check of it |
| `ArmTlbProofs` | `ArmTlb` | all but liveness |
| `ArmCacheProofs` | `ArmCache` | all that the runs check of it |
| `EncodingsProofs` | `Encodings` | what is read back from each packed word |

Each holds for any number of harts, roots, pools, tables, indices and frames, and of
`ArmCache` for any memory, any number of levels, ways and sets and any range. Every
safety property that a run checks, invariant or action property, is a theorem. As the
composed systems implement the ASID modules, what is proved of these holds from
the first line of the boot code.

**Assumptions** are those of the modules, each with its reason in the code:
`RiscvAsidAssumption` (the table and a pool have at least one entry, as
`bit!(n)` has; `IT_ASID` is not 0 and fits in the low bits, which is what makes the
unmasked index of `write_it_asid_pool` right; null is no object; the kernel's
root is no user root), the same for `ArmAsid` with `ArmFlushAssumption` (no flush
is called null), `RiscvPageTableAssumption` (different objects are different
pages, which the untyped memory of the kernel guarantees; page 0 is no object),
the same for `ArmPageTableAssumption`,
`RiscvShootdownAssumption` (the sentinels are no values),
`ArmTlbAssumption` (finitely many spaces; the static tables and ASID 0 are not
those of a space), `ArmCacheAssumption` (a line has bytes; the registers have values
of their width; the operand of `dc cisw` has room for its fields; no line and no
operation is called none), `RiscvWindowAssumption` and `ArmWindowAssumption` (the figures: which
addresses are multiples of 1 GiB, and that the image is as far into its own as at
its physical address; on AArch64 also that the loader put the static tables on pages
of their own).
`Encodings` has none.

**RiscvAsid.** None of the safety properties is inductive: an entry that is cleared
through one index might be read through another, if one pool served two.
`IInv` adds

* `CapsDisjoint`: a root has one ASID at a time, and a pool serves one index at
  a time. This is what the callers guarantee.
* `TableBacked`, `BindingBacked`: whatever the table and the pools resolve has
  its capability. This is `NothingOutlivesItsCap`, in two halves.
* `TlbOfActive`: a hart caches only the space it runs on, because every write
  of `satp` is followed by a fence of the local TLB.
* `EmptyBeforeBoot`: `write_it_asid_pool` overwrites nothing.

The argument turns on one lemma, `EntryServesOneAsid`: by `TableBacked` and
`CapsDisjoint` two ASIDs that are read from the same entry of the same pool are
equal. From it follow, per operation, which bindings change
(`DeleteAsidBindings`, `DeletePoolBindings`, `InstallPoolBindings`,
`AssignBindings`, `BootBindings`), and from those the preservation of `IInv`, the
action property and the refinement (`StepOfMap`, `TableIsAMap`).

**ArmAsid.** The same argument on the tables of AArch64, with `FlushKnows`
(if a `TTBR0` holds a pointer, the flush under way has switched that processor
and knows it) and `FlushComesBack` (the thread that a flush goes back to still has
its capability), which make `HartsAreOnPhysicalRoots` inductive.

**RiscvPageTable.** The first half of `RiscvPageTableProofs` has no variables: it is about
one memory, or two. `Unfold` writes the three turns of `lookup_pt_slot` down,
`LookupCases` says where a lookup can end, and `OneWay` that two lookups which end at
one slot began at one root and went the same way, unless they passed a table that was
left behind; this is why the other tables must form trees. `Kept` and `NothingNew` say which
writes end no translation and which begin none; every operation is an instance of one or both.
`IInv` adds to the checked invariants

* `Sound`: an entry leads to a table, maps a frame or is the
  kernel's (`EntriesLead`), also in tables that no live space uses, because they come
  back; and the kernel's root is never written (`KernelRow`).
* `Trees`: only tables left behind have two parents (`OneParent`), only they are
  led to when their capability is not mapped (`LedAreMapped`), and only they are not empty then
  (`UnmappedAreClear`). The last two are what makes mapping a table that is not left behind
  add one parent and no translation.
* `SpacesHaveKernel`, `SpacesShowCaps`: what is claimed of bound roots holds of the
  root that the boot code is filling too (`Space`).
* `SpacesDiffer`, `BootFirst`: no root has two ASIDs, and the boot code ends first.
  This is what the callers and `AsidMap` provide.

`SpacesComeFromTheAsidLayer` says so of both page table modules: in them `vspaceOf`
changes only by steps of `AsidMap`. `CreateVSpace` and the end of the boot code bind,
`DeleteVSpace` releases one ASID, `DeleteAsidPool` any set of them, whatever the pools. So
each kind of step that the ASID layer may take has its action here, and no property
of the page tables rests on a step that it may not take. At the end of the boot code this needs
`BootFirst`: the root that is bound has no ASID yet.

The same invariant shows more than the runs ask: `unmap_page_table` changes nothing,
whatever its arguments.

**The RISC-V window.** `KernelRunsOnIt` is the property `KernelRunsOnItsWindow`, and
`ImageFits` says that the loop over the image never indexes past its table. The
invariant `WInv` counts in pages of the root's level: each loop has written
exactly the entries below the index it has come to (`PSpaceUpTo`, `ImageUpTo`), the
two entries of the image share one table (`RootBuilt`), and every device so far that
no user may have is reserved (`ReservedUpTo`). It is needed because the property
speaks only of the finished tables. `Indices` and `Split` read the index back from an
address, `DeviceIndex` shows that a device touches only the last entry, and
`WindowDone` evaluates `Translate` on what the loops have left.

**ArmPageTable.** As for RISC-V, the larger part is about one or two memories and no
variable. `Way` writes the four turns of the lookup down. `Sound` is the part of `IInv`
that is not bookkeeping:

* `OneWay`: two walks that pass one table which is not displaced began at one root
  and went the same way. This is `TablesFormTrees`, said of spaces that are being filled too.
* `TableCapsTell`: such a table is where its own capability says. Without it, the
  lookup of `unmap_page_table` could end elsewhere and leave a link behind, as it
  does for displaced ones.
* `UnusedAreBlank`: a table whose capability is not mapped is empty, unless displaced,
  so that mapping it adds one table and not a tree.
* `Closed`, `LeadInto`: a table below a displaced one, or below an unclaimed slot, is displaced.
  So the exception is closed under every step.
* `FrameCapsTell`: every other entry is of a kind its level takes, and maps a frame to
  where its capability says. This is `MappedFrameHasCap` and `LeavesFitTheirLevel` in one.

An action is shown to leave `Sound` in two turns: for the memory after the write, and
for the histories after it.

**The AArch64 window.** As on RISC-V, each loop has written exactly the entries below the
index it has come to (`PUDUpTo`, `PDsUpTo`, `DevicesUpTo`), and `Translate` is evaluated on
the finished tables. The blocks are counted through all directories, `j * IndexSize + k`,
because the loop counts addresses and the directory changes under it
(`BlockIndices` is the lemma that takes the count apart again).

**ArmTlb.** The properties speak of the moment at which an operation returns; the invariant has to
say how far it has come. `Stands(p)` does so by what is *left* of the program, counted
from its end, where every switch reads the same whatever came before it:
`Milestone(p, n)` for `activate_kernel_vspace` with `n` of its eleven instructions to go,
`Switching(p)` for a switch. A processor that executes neither has
left the boot loader's tables for good (`Settled`) or is still on them (`Untouched`).
With two or fewer instructions to go, the TLB is `Fresh` or the invalidation that makes
it so is still on its way (`tlbi = All`); the `dsb` turns the second into the first.
`Awaited` says that every `tlbi` has a `dsb` after it, also across the
concatenations. Since entries of the kernel's tables and of the empty space are
never cached (`FixedTables`), `Fresh` survives the walker, which
may use the register's old value up to the `isb`.

**Encodings.** Every theorem compares two sets bit by bit. The one general lemma
is `ShiftBack`: what is shifted one way and back is what did not leave the word. The
rest is that the fields of an entry are apart (`AttributesApart`).

**RiscvShootdown.** `IInv` adds to the checked invariants `StoreBeforeFence`
(a store is in a buffer only between the store and the end of the fence) and
`FencedSoFar` (the harts that must hold no old value, by where the operation
stands: before the store all of them, after the local fence the hart itself,
while waiting also those that have answered). It says in one formula why the
three fences must come in this order.

**ArmCache.** What has yet to take effect is one sequence, `pending`: the queue and
then the program. The properties speak of the end of an operation, the invariant of
every moment before: a line that could still break the promise has the operation
that settles it in `pending`.

* `Neighbours`: a dirty line with a byte that nobody gave up has its `dc cvac` before
  every `dc ivac` of it. An eviction and a new fill in between do no harm, because a
  filled line is clean, and clean lines agree with memory (`Copies`).
* `Cleaning`, `Delivered`, `Fetching`: the same for what is to be cleaned, dropped and
  fetched. For the instruction cache an `ic` may come only when no operation on
  the data cache is left, or the line would be filled again with what memory had;
  this is `Fenced` in `Ordering`, and the `dsb` in the middle of `Unify_Instruction`
  is what makes it true.
* `Sweeping`: while the boot code sweeps, not only the slot of a dirty line is still to
  be cleaned but every slot of the levels further out, because the line may move there
  (`Beyond`). It holds since the sweep goes outwards (`Ascending`); the mutant
  `clean_invalidate_d_poc_inwards` breaks just this.
* `Awaited`: every operation has a `dsb` behind it, so that nothing is pending when
  the operation returns (`Drained`).

A step of somebody else is `Calm`; a step of the processor is `Calm`, one element
`Leaves` `pending`, and the step has the `Effect` of that element. Each conjunct is
shown to follow from these three predicates alone (`Progress`), which leaves for each
action only to show that it satisfies them.

The second half of the work is what the programs contain, for every range and
geometry. The loops are flattened sequences of computed length. `Flattened`
says that the library's `FlattenSeq` has the elements of its parts in the order of
the parts (`Locates`); `LoopOf` instantiates it for every loop over lines, and `EdgeLine`
and `InvalidateProgram` show that the two cleanings at the ends of
`invalidate_cache_range_ram` cover exactly the lines that a range has in part.
`OperandDecodes` says that the hardware reads from the operand of
`dc cisw` the level, way and set that the loop meant (`Unpack`: three fields between powers of
two do not overlap), and `BootProgram` that every slot gets one.

**Induction over data.** The library's induction theorems take an operator as a
parameter, which the prover cannot instantiate. Well-foundedness is stated of *sets*,
though (`WFMin`): to show that all numbers have a property, take the set of those
which do not and its least element (`SetInduction`, `IntervalInduction`). With this
`ArmCacheProofs` shows that the recursive function `bit` satisfies its definition
(`BitUnfold`), that it turns sums into products (`BitPlus`), and what `FlattenSeq` computes
for every input. The page table modules do not need it: the levels are
constants of the architecture, and unfolding `lookup_pt_slot` as often is enough.

**What stays with TLC**: both `OperationsReturn`, because liveness under fairness is
beyond the prover, as is ENABLED. No module declares a RECURSIVE operator, so that
proofs can be added to each.

## 5. What is not modelled

* The kernel's invocations, boot code and scheduler, beyond the external
  actions above: they are not in this repository.
* Access rights, attributes, the dirty and accessed bits in the page table
  modules: they decide nothing there except in `make_user_pte`, where the absence
  of every right makes the entry invalid; that case is modelled. What the bits
  are is in `Encodings`.
* Other processors during a cache flush, and an outer cache: the `plat_*` hooks
  are empty functions.
* Allocation: `reserve_region` is the set of pages it was called for.
* The result values and lookup faults, which are not state here.
* The hypervisor feature (another pair of registers and `tlbi alle2`), and `enable_smp`
  off (`RiscvShootdown` is the harder
  case; without it `sfence` is one local fence).
* Logging, printing and debug functions.

## 6. Plan

Every component with state is modelled. What is left, in order of worth:

1. Page tables over the real ASID table in one composed module, in place of
   `vspaceOf`: each is shown to fit `AsidMap`, but no module has both, with
   `delete_asid` and `unmap_page` on the same state.
2. `ArmTlb` with the cache flush as an operation of its own, which moves a
   processor to a space and back.
