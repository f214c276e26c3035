--------------------------- MODULE RiscvPageTable ---------------------------
(***************************************************************************)
(* The Sv39 page tables of RISC-V: what the crate reads and writes in them *)
(* and what its callers, the invocations of the kernel, do around it.      *)
(*                                                                         *)
(*   src/arch/riscv64/pte.rs        entries and lookup_pt_slot             *)
(*   src/arch/riscv64/pagetable.rs  copyGlobalMappings, unmap_page         *)
(*   src/arch/riscv64/interface.rs  unmap_page_table                       *)
(*   src/arch/riscv64/boot.rs       map_it_pt_cap, map_it_frame_cap        *)
(*                                                                         *)
(* A page of physical memory is a model value; a virtual address is the    *)
(* triple of its table indices; ptBitsLeft is the level of the slot (0 for *)
(* 1 GiB, 1 for 2 MiB, 2 for 4 KiB).  Of an entry's flags only V and       *)
(* whether one of R, W, X is set decide anything.  The map from ASIDs to   *)
(* roots is the one of AsidMap, and fences are the business of             *)
(* RiscvShootdown.                                                         *)
(***************************************************************************)
EXTENDS Integers

CONSTANTS
  Asids,         \* ASIDs of address spaces
  ItAsid,        \* the initial thread's
  Roots,         \* root page tables of user address spaces
  KernelRoot,    \* KERNEL_ROOT_PAGE_TABLE
  PageTables,    \* page tables below the root
  Frames,        \* frames
  KernelPage,    \* what the kernel's own entries map
  PageZero,      \* the page of physical address 0
  NoRoot, NoCap, \* no root is bound, a capability is not mapped
  IndexSize,     \* bit!(PT_INDEX_BITS)
  CopiedFrom,    \* the first entry that copyGlobalMappings copies: that of 0x80000000
  KernelIndex,   \* the first entry of the kernel: that of PPTR_BASE
  UserVAddr      \* addresses of user space, which ends where the kernel begins

Levels == 0 .. 2
Index  == 0 .. IndexSize - 1
Tables == Roots \cup {KernelRoot} \cup PageTables
Pages  == Tables \cup Frames \cup {KernelPage, PageZero}
PTE    == [v : BOOLEAN, rwx : BOOLEAN, ppn : Pages]

\* An address, by index at level 0, 1 and 2.
VAddr == [Levels -> Index]

\* check_vp_alignment: the indices below a level are zero.
Aligned(va, level) == \A n \in Levels : n > level => va[n] = 0
AlignDown(va, level) == [n \in Levels |-> IF n > level THEN 0 ELSE va[n]]

\* What a mapped capability says of itself.
FrameMapping == [asid : Asids, va : UserVAddr, level : Levels]
TableMapping == [asid : Asids, va : UserVAddr]

\* Different objects are different pages; page 0 is no object.  The entries that are
\* copied begin below the kernel's: user space is larger than 2 GiB.
ASSUME RiscvPageTableAssumption ==
  /\ ItAsid \in Asids
  /\ IndexSize \in Nat
  /\ CopiedFrom \in Index /\ KernelIndex \in Index /\ CopiedFrom <= KernelIndex
  /\ UserVAddr \subseteq {va \in VAddr : va[0] < KernelIndex}
  /\ \A va \in UserVAddr, level \in Levels : AlignDown(va, level) \in UserVAddr
  /\ KernelRoot \notin Roots /\ NoRoot \notin Roots \cup {KernelRoot}
  /\ PageTables \cap (Roots \cup {KernelRoot}) = {}
  /\ (Frames \cup {KernelPage, PageZero}) \cap Tables = {}
  /\ KernelPage \notin Frames
  /\ NoCap \notin FrameMapping \cup TableMapping \cup [frame : Pages, level : Levels]

VARIABLES
  mem,       \* mem[t]: the entries of the table t
  vspaceOf,  \* vspaceOf[a]: find_vspace_for_asid(a), NoRoot if it fails
  frameCap,  \* frameCap[f]: where the capability of f says f is mapped
  ptCap,     \* ptCap[t]: where the capability of t says t is mapped
  itRoot,    \* the root that the boot code is filling
  booted,    \* is the boot code done
  leftBehind \* history: the tables with an entry that outlived an unmap_page_table

vars == <<mem, vspaceOf, frameCap, ptCap, itRoot, booted, leftBehind>>

TypeOK ==
  /\ mem \in [Tables -> [Index -> PTE]]
  /\ vspaceOf \in [Asids -> Roots \cup {NoRoot}]
  /\ frameCap \in [Frames -> FrameMapping \cup {NoCap}]
  /\ ptCap \in [PageTables -> TableMapping \cup {NoCap}]
  /\ itRoot \in Roots \cup {NoRoot}
  /\ booted \in BOOLEAN
  /\ leftBehind \subseteq PageTables

------------------------------------------------------------------------------
\* Entries: pte_invalid, PTE::new with V alone, make_user_pte.  Without a right
\* make_user_pte returns pte_invalid.  (make_user_pte_no_flags is a mutant of it.)
pte_invalid == [v |-> FALSE, rwx |-> FALSE, ppn |-> PageZero]
pte_next_table(table) == [v |-> TRUE, rwx |-> FALSE, ppn |-> table]
make_user_pte_no_flags(frame, rights) ==
  IF rights THEN [v |-> TRUE, rwx |-> FALSE, ppn |-> frame] ELSE pte_invalid
make_user_pte(frame, rights) ==
  IF rights THEN [v |-> TRUE, rwx |-> TRUE, ppn |-> frame] ELSE pte_invalid

is_pte_table(pte) == pte.v /\ ~ pte.rwx

Blank == [i \in Index |-> pte_invalid]

(***************************************************************************)
(* lookup_pt_slot: the slot that decides va, and its level.  Walk(..)[n]   *)
(* is where its loop stands when it may look n levels below the root.      *)
(***************************************************************************)
PteAt(slot) == mem[slot.table][slot.index]

Walk(root, va) ==
  LET walk[n \in Levels] ==
        IF n = 0
        THEN [table |-> root, index |-> va[0], level |-> 0]
        ELSE LET up == walk[n - 1]
             IN  IF up.level = n - 1 /\ is_pte_table(PteAt(up))
                 THEN [table |-> PteAt(up).ppn, index |-> va[n], level |-> n]
                 ELSE up
  IN  walk

lookup_pt_slot(root, va) == Walk(root, va)[2]

\* Memory after *slot = pte, or update().
Written(slot, pte) == [mem EXCEPT ![slot.table][slot.index] = pte]

(***************************************************************************)
(* What unmap_page_table leaves behind, after a step that unmaps tables: a *)
(* table is left behind until it is clear and no entry leads to it.  The   *)
(* entries of a root that is bound to no ASID lead nowhere: it is cleared  *)
(* before it is bound again.                                               *)
(***************************************************************************)
Live(table) == table \in PageTables \cup {itRoot} \cup {vspaceOf[a] : a \in Asids}
Links == {s \in [table : Tables, index : Index] : Live(s.table) /\ is_pte_table(PteAt(s))}
LedTo(table) == \E s \in Links : PteAt(s).ppn = table

LeftBehind(tables) == leftBehind' = {t \in leftBehind \cup tables : LedTo(t)' \/ mem'[t] # Blank}

------------------------------------------------------------------------------
\* The kernel's window is there before any address space is; the rest of
\* memory that becomes tables is cleared.
Init ==
  /\ mem = [t \in Tables |->
             IF t = KernelRoot
             THEN [i \in Index |->
                    IF i >= KernelIndex
                    THEN [v |-> TRUE, rwx |-> TRUE, ppn |-> KernelPage]
                    ELSE pte_invalid]
             ELSE Blank]
  /\ vspaceOf = [a \in Asids |-> NoRoot]
  /\ frameCap = [f \in Frames |-> NoCap]
  /\ ptCap = [t \in PageTables |-> NoCap]
  /\ itRoot = NoRoot
  /\ booted = FALSE
  /\ leftBehind = {}

\* Mutants of copyGlobalMappings: one entry too far, one entry too few.
copyGlobalMappings_too_far(root) ==
  [mem EXCEPT ![root] = [i \in 0 .. IndexSize |->
     IF i \in CopiedFrom .. IndexSize - 1 THEN mem[KernelRoot][i] ELSE pte_invalid]]
copyGlobalMappings_too_few(root) ==
  [mem EXCEPT ![root] = [i \in Index |->
     IF i \in CopiedFrom .. IndexSize - 2 THEN mem[KernelRoot][i] ELSE pte_invalid]]

\* Memory after copyGlobalMappings, in a root that was cleared before.
copyGlobalMappings(root) ==
  [mem EXCEPT ![root] = [i \in Index |->
     IF i \in CopiedFrom .. IndexSize - 1 THEN mem[KernelRoot][i] ELSE pte_invalid]]

------------------------------------------------------------------------------
(* The boot code builds the initial thread's space.                        *)

CreateItSpace(root) ==
  /\ itRoot = NoRoot /\ ~ booted
  /\ itRoot' = root
  /\ mem' = copyGlobalMappings(root)
  /\ UNCHANGED <<vspaceOf, frameCap, ptCap, booted>>
  /\ LeftBehind({})

\* Neither function looks at what it overwrites.
map_it_pt_cap(root, va, table) == Written(lookup_pt_slot(root, va), pte_next_table(table))
map_it_frame_cap(root, va, frame) ==
  Written(lookup_pt_slot(root, va), make_user_pte(frame, TRUE))

\* create_it_pt_cap; the boot code makes every table once, upper levels first.
CreateItPageTable(table, va) ==
  LET lu == lookup_pt_slot(itRoot, va)
  IN  /\ itRoot # NoRoot
      /\ lu.level < 2 /\ Aligned(va, lu.level) /\ ~ PteAt(lu).v
      /\ ptCap[table] = NoCap
      /\ mem' = map_it_pt_cap(itRoot, va, table)
      /\ ptCap' = [ptCap EXCEPT ![table] = [asid |-> ItAsid, va |-> va]]
      /\ UNCHANGED <<vspaceOf, frameCap, itRoot, booted>>
      /\ LeftBehind({})

\* create_mapped_it_frame_cap; the boot code has made the tables down to the frame's
\* level, which is 1 with use_large.
CreateItFrame(frame, va, use_large) ==
  LET lu == lookup_pt_slot(itRoot, va)
      level == IF use_large THEN 1 ELSE 2
  IN  /\ itRoot # NoRoot
      /\ lu.level = level /\ Aligned(va, level) /\ ~ PteAt(lu).v
      /\ frameCap[frame] = NoCap
      /\ mem' = map_it_frame_cap(itRoot, va, frame)
      /\ frameCap' = [frameCap EXCEPT ![frame] = [asid |-> ItAsid, va |-> va, level |-> level]]
      /\ UNCHANGED <<vspaceOf, ptCap, itRoot, booted>>
      /\ LeftBehind({})

\* write_it_asid_pool binds the space and the boot code ends.
FinishBoot ==
  /\ itRoot # NoRoot
  /\ vspaceOf' = [vspaceOf EXCEPT ![ItAsid] = itRoot]
  /\ booted' = TRUE
  /\ itRoot' = NoRoot
  /\ UNCHANGED <<mem, frameCap, ptCap>>
  /\ LeftBehind({})

------------------------------------------------------------------------------
(* The kernel's invocations.                                               *)

\* A retyped root gets the kernel's entries and an ASID.
CreateVSpace(asid, root) ==
  /\ booted
  /\ vspaceOf[asid] = NoRoot
  /\ \A a \in Asids : vspaceOf[a] # root
  /\ mem' = copyGlobalMappings(root)
  /\ vspaceOf' = [vspaceOf EXCEPT ![asid] = root]
  /\ UNCHANGED <<frameCap, ptCap, itRoot, booted>>
  /\ LeftBehind({})

\* delete_asid: the tables of the space stay as they are.
DeleteVSpace(asid) ==
  /\ booted
  /\ vspaceOf[asid] # NoRoot
  /\ vspaceOf' = [vspaceOf EXCEPT ![asid] = NoRoot]
  /\ UNCHANGED <<mem, frameCap, ptCap, itRoot, booted>>
  /\ LeftBehind({})

\* delete_asid_pool: the spaces with an ASID in the pool, whichever these are, go
\* together.
DeleteAsidPool(asids) ==
  /\ booted
  /\ \A a \in asids : vspaceOf[a] # NoRoot
  /\ vspaceOf' = [a \in Asids |-> IF a \in asids THEN NoRoot ELSE vspaceOf[a]]
  /\ UNCHANGED <<mem, frameCap, ptCap, itRoot, booted>>
  /\ LeftBehind({})

\* The table was cleared when it was retyped or last unmapped; unmap_page_table left
\* its entry behind (see below), through which it may have filled again.
MapPageTable(table, asid, va) ==
  LET lu == lookup_pt_slot(vspaceOf[asid], va)
  IN  /\ booted
      /\ vspaceOf[asid] # NoRoot
      /\ ptCap[table] = NoCap
      /\ lu.level < 2 /\ Aligned(va, lu.level) /\ ~ PteAt(lu).v
      /\ mem' = Written(lu, pte_next_table(table))
      /\ ptCap' = [ptCap EXCEPT ![table] = [asid |-> asid, va |-> va]]
      /\ UNCHANGED <<vspaceOf, frameCap, itRoot, booted>>
      /\ LeftBehind({})

MapFrame(frame, asid, va, level, rights) ==
  LET lu == lookup_pt_slot(vspaceOf[asid], va)
  IN  /\ booted
      /\ vspaceOf[asid] # NoRoot
      /\ frameCap[frame] = NoCap
      /\ lu.level = level /\ Aligned(va, level) /\ ~ PteAt(lu).v
      /\ mem' = Written(lu, make_user_pte(frame, rights))
      /\ frameCap' = [frameCap EXCEPT ![frame] = [asid |-> asid, va |-> va, level |-> level]]
      /\ UNCHANGED <<vspaceOf, ptCap, itRoot, booted>>
      /\ LeftBehind({})

\* Mutants of unmap_page: the test of is_pte_table inverted; whatever frame is
\* mapped at the address goes.
unmap_page_inverted(level, asid, va, frame) ==
  LET lu == lookup_pt_slot(vspaceOf[asid], va)
  IN  IF vspaceOf[asid] # NoRoot /\ lu.level = level /\ is_pte_table(PteAt(lu))
      THEN Written(lu, pte_invalid) ELSE mem
unmap_page_any_frame(level, asid, va, frame) ==
  LET lu == lookup_pt_slot(vspaceOf[asid], va)
  IN  IF /\ vspaceOf[asid] # NoRoot /\ lu.level = level
         /\ PteAt(lu).v /\ ~ is_pte_table(PteAt(lu))
      THEN Written(lu, pte_invalid) ELSE mem

(***************************************************************************)
(* Memory after unmap_page(page_size, asid, vptr, pptr): the entry is      *)
(* zeroed only if the lookup ends at the frame's own level, on a leaf that *)
(* names the frame; every other outcome returns and changes nothing.       *)
(***************************************************************************)
unmap_page(level, asid, va, frame) ==
  LET lu == lookup_pt_slot(vspaceOf[asid], va)
  IN  IF /\ vspaceOf[asid] # NoRoot
         /\ lu.level = level
         /\ PteAt(lu).v /\ ~ is_pte_table(PteAt(lu))
         /\ PteAt(lu).ppn = frame
      THEN Written(lu, pte_invalid)
      ELSE mem

UnmapFrame(frame) ==
  LET cap == frameCap[frame]
  IN  /\ booted
      /\ cap # NoCap
      /\ mem' = unmap_page(cap.level, cap.asid, cap.va, frame)
      /\ frameCap' = [frameCap EXCEPT ![frame] = NoCap]
      /\ UNCHANGED <<vspaceOf, ptCap, itRoot, booted>>
      /\ LeftBehind({})

(***************************************************************************)
(* unmap_page_table(asid, vptr, pt).  The loop gives up at a slot for      *)
(* which is_pte_table holds and follows any other, be it empty or a leaf;  *)
(* foreign is what it reads in a page that is not a table.  outcome says   *)
(* where it ends: it gave up, it found pt through the slot, or neither.    *)
(***************************************************************************)
ReadSlot(slot, foreign) == IF slot.table \in Tables THEN PteAt(slot) ELSE foreign

unmap_walk(root, va, table, foreign) ==
  LET Slot(page, n) == [table |-> page, index |-> va[n]]
      Step(slot) ==
        LET pte == ReadSlot(slot, foreign)
        IN  IF is_pte_table(pte) THEN "gave up"
            ELSE IF pte.ppn = table THEN "found" ELSE "no"
      slot0 == Slot(root, 0)
      slot1 == Slot(ReadSlot(slot0, foreign).ppn, 1)
  IN  IF Step(slot0) # "no"
      THEN [slot |-> slot0, outcome |-> Step(slot0)]
      ELSE [slot |-> slot1, outcome |-> Step(slot1)]

\* Memory after it: what it zeroes in a foreign page is not a table's entry.
unmap_page_table(asid, va, table, foreign) ==
  LET walk == unmap_walk(vspaceOf[asid], va, table, foreign)
  IN  IF vspaceOf[asid] # NoRoot /\ walk.outcome = "found" /\ walk.slot.table \in Tables
      THEN Written(walk.slot, pte_invalid)
      ELSE mem

\* The caller clears the table once unmap_page_table has returned.
UnmapPageTable(table, foreign) ==
  LET cap == ptCap[table]
  IN  /\ booted
      /\ cap # NoCap
      /\ mem' = [unmap_page_table(cap.asid, cap.va, table, foreign)
                  EXCEPT ![table] = Blank]
      /\ ptCap' = [ptCap EXCEPT ![table] = NoCap]
      /\ UNCHANGED <<vspaceOf, frameCap, itRoot, booted>>
      /\ LeftBehind({table})

Next ==
  \/ \E r \in Roots : CreateItSpace(r)
  \/ \E t \in PageTables, va \in UserVAddr : CreateItPageTable(t, va)
  \/ \E f \in Frames, va \in UserVAddr, l \in BOOLEAN : CreateItFrame(f, va, l)
  \/ FinishBoot
  \/ \E a \in Asids, r \in Roots : CreateVSpace(a, r)
  \/ \E a \in Asids : DeleteVSpace(a)
  \/ \E asids \in SUBSET Asids : DeleteAsidPool(asids)
  \/ \E t \in PageTables, a \in Asids, va \in UserVAddr : MapPageTable(t, a, va)
  \/ \E f \in Frames, a \in Asids, va \in UserVAddr, n \in Levels, rights \in BOOLEAN :
       MapFrame(f, a, va, n, rights)
  \/ \E f \in Frames : UnmapFrame(f)
  \/ \E t \in PageTables, rwx \in BOOLEAN :
       UnmapPageTable(t, [v |-> TRUE, rwx |-> rwx, ppn |-> t])

Spec == Init /\ [][Next]_vars

------------------------------------------------------------------------------
\* What the walker makes of va in the space of asid: a frame and the level of
\* its leaf, or NoCap.
Translation(asid, va) ==
  IF vspaceOf[asid] = NoRoot
  THEN NoCap
  ELSE LET lu  == lookup_pt_slot(vspaceOf[asid], va)
           pte == PteAt(lu)
       IN  IF pte.v /\ pte.rwx THEN [frame |-> pte.ppn, level |-> lu.level] ELSE NoCap

\* Does the walk to an address pass a table that was left behind?
PassesLeftBehind(asid, va) ==
  \E n \in Levels : Walk(vspaceOf[asid], va)[n].table \in leftBehind

\* A frame can be reached in a live address space only where its capability says it
\* is mapped, or through a table that unmap_page_table left behind.  So once
\* unmap_page has run for the capability, on whichever of its paths, the frame
\* cannot be reached otherwise.
MappedFrameHasCap ==
  \A a \in Asids, va \in UserVAddr :
    LET tr == Translation(a, va)
    IN  tr # NoCap /\ ~ PassesLeftBehind(a, va) =>
          frameCap[tr.frame] = [asid |-> a, va |-> AlignDown(va, tr.level), level |-> tr.level]

\* An entry that lookup_pt_slot follows leads to a page table, and two of them to
\* the same only if unmap_page_table left an entry of it behind: the other tables
\* form trees, and what is done to them through one address space shows in no other.
TablesFormTrees ==
  \A s, u \in Links :
    /\ PteAt(s).ppn \in PageTables
    /\ PteAt(s).ppn = PteAt(u).ppn => s = u \/ PteAt(s).ppn \in leftBehind

\* Every bound root has the kernel's entries, whatever was mapped and unmapped
\* in it: a trap taken in any address space finds the kernel.
KernelHalfIntact ==
  \A a \in Asids : vspaceOf[a] # NoRoot =>
    \A i \in KernelIndex .. IndexSize - 1 : mem[vspaceOf[a]][i] = mem[KernelRoot][i]

\* A translation of a live address space ends only when its frame is unmapped
\* by its own capability, when some page table is, or when the space goes:
\* mapping never overwrites it, a stale capability never removes it.
OnlyItsOwnerUnmaps ==
  [][\A a \in Asids, va \in UserVAddr :
       LET tr == Translation(a, va)
       IN  tr # NoCap =>
             \/ Translation(a, va)' = tr
             \/ frameCap'[tr.frame] = NoCap
             \/ vspaceOf'[a] # vspaceOf[a]
             \/ \E t \in PageTables : ptCap[t] # NoCap /\ ptCap'[t] = NoCap]_vars

\* The doc of is_pte_table says that the entry it accepts is a leaf.  So it is
\* a leaf, where lookup_pt_slot ends, that makes unmap_page_table give up.
UnmapGivesUpAtLeaf ==
  \A a \in Asids, va \in UserVAddr, t \in PageTables :
    LET root == vspaceOf[a]
        walk == unmap_walk(root, va, t, pte_invalid)
        lu   == lookup_pt_slot(root, va)
    IN  root # NoRoot /\ walk.outcome = "gave up" =>
          walk.slot = [table |-> lu.table, index |-> lu.index]
==============================================================================
