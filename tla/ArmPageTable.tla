---------------------------- MODULE ArmPageTable ----------------------------
(***************************************************************************)
(* The page tables of AArch64: four levels, whose entries the crate tells  *)
(* apart by bits 0, 1 and 58.                                              *)
(*                                                                         *)
(*   src/arch/aarch64/pte.rs        entries and lookup_pt_slot             *)
(*   src/arch/aarch64/interface.rs  unmap_page, unmap_page_table           *)
(*   src/arch/aarch64/boot.rs       map_it_*_cap, find_pt                  *)
(*   src/arch/aarch64/utils.rs      indices, get_type, set_attr            *)
(*                                                                         *)
(* A page of physical memory is a model value; a virtual address is the    *)
(* tuple of its table indices; ptBitsLeft is the level of the slot (1 for  *)
(* 1 GiB, 2 for 2 MiB, 3 for 4 KiB).  The kernel has tables of its own, so *)
(* these hold user mappings only.  ASIDs are those of AsidMap; TLBs and    *)
(* caches are not modelled here.                                           *)
(***************************************************************************)
EXTENDS Integers

CONSTANTS
  Asids,        \* ASIDs of address spaces
  ItAsid,       \* the initial thread's
  Roots,        \* root page tables
  PageTables,   \* tables below the root: PUDs, PDs and PTs alike
  Frames,       \* frames
  PageZero,     \* the page of physical address 0
  None,         \* no root is bound, no table is there, a cap is not mapped
  IndexSize,    \* bit!(PT_INDEX_BITS)
  VAddrs        \* the virtual addresses

Levels == 0 .. 3
Index  == 0 .. IndexSize - 1
Tables == Roots \cup PageTables
Pages  == Tables \cup Frames \cup {PageZero}
Slots  == [table : Tables, index : Index]

\* get_type: bits 0 and 1, and bit 58, which only the crate gives a meaning.
\* What an entry leads to goes with its type: a walk never enters a frame.
PTE == [type : {"pte_invalid"}, addr : {PageZero}]
         \cup [type : {"pte_table"}, addr : PageTables]
         \cup [type : {"pte_page", "pte_4k_page"}, addr : Frames]

\* What a mapped capability says of itself.
FrameMapping == [asid : Asids, va : VAddrs, level : Levels]
TableMapping == [asid : Asids, va : VAddrs]

Aligned(va, level) == \A n \in Levels : n > level => va[n] = 0
SamePage(va, wa, level) == \A n \in Levels : n <= level => va[n] = wa[n]

\* Different objects are different pages; page 0 is no object.
ASSUME ArmPageTableAssumption ==
  /\ ItAsid \in Asids
  /\ IndexSize \in Nat
  /\ VAddrs \subseteq [Levels -> Index]
  /\ Roots \cap PageTables = {}
  /\ (Frames \cup {PageZero}) \cap Tables = {}
  /\ PageZero \notin Frames
  /\ None \notin Pages \cup FrameMapping \cup TableMapping \cup [frame : Pages, level : Levels]

VARIABLES
  mem,       \* mem[t]: the entries of the table t
  vspaceOf,  \* vspaceOf[a]: find_vspace_for_asid(a), None if it fails
  frameCap,  \* frameCap[f]: where the capability of f says f is mapped
  ptCap,     \* ptCap[t]: where the capability of t says t is mapped
  itRoot,    \* the root that the boot code is filling
  booted,    \* is the boot code done
  unclaimed, \* history: the slots that hold what no capability tells of
  displaced  \* history: the tables that are reached through such a slot

caps == <<frameCap, ptCap>>
boot == <<itRoot, booted>>
history == <<unclaimed, displaced>>
vars == <<mem, vspaceOf, frameCap, ptCap, itRoot, booted, unclaimed, displaced>>

TypeOK ==
  /\ mem \in [Tables -> [Index -> PTE]]
  /\ vspaceOf \in [Asids -> Roots \cup {None}]
  /\ frameCap \in [Frames -> FrameMapping \cup {None}]
  /\ ptCap \in [PageTables -> TableMapping \cup {None}]
  /\ itRoot \in Roots \cup {None}
  /\ booted \in BOOLEAN
  /\ unclaimed \subseteq Slots
  /\ displaced \subseteq PageTables

------------------------------------------------------------------------------
\* Entries: PTE(0), pte_new_table and PTE::new_page with attribute 3,
\* pte_new_page, pte_new_4k_page.
pte_invalid == [type |-> "pte_invalid", addr |-> PageZero]
pte_new_table(table) == [type |-> "pte_table", addr |-> table]
pte_new_page(frame) == [type |-> "pte_page", addr |-> frame]
pte_new_4k_page(frame) == [type |-> "pte_4k_page", addr |-> frame]

\* Mutants of make_user_pte: one kind of entry for every page size; a small page
\* without bit 58.
make_user_pte_one_size(frame, level) == pte_new_page(frame)
make_user_pte_no_bit_58(frame, level) ==
  IF level = 3 THEN pte_new_table(frame) ELSE pte_new_page(frame)

\* VMPageSize::ARMSmallPage has an entry of its own.
make_user_pte(frame, level) ==
  IF level = 3 THEN pte_new_4k_page(frame) ELSE pte_new_page(frame)

Blank == [i \in Index |-> pte_invalid]

PteAt(slot) == mem[slot.table][slot.index]
get_type(slot) == PteAt(slot).type
SlotIn(table, va, level) == [table |-> table, index |-> va[level]]

(***************************************************************************)
(* The tables on the way to va, by level: the loops of lookup_pt_slot and  *)
(* of unmap_page_table follow entries of type pte_table only.              *)
(***************************************************************************)
Walk(root, va) ==
  LET down[n \in Levels] ==
        IF n = 0 THEN root
        ELSE LET up == down[n - 1]
             IN  IF up # None /\ get_type(SlotIn(up, va, n - 1)) = "pte_table"
                 THEN PteAt(SlotIn(up, va, n - 1)).addr
                 ELSE None
  IN  down

\* lookup_pt_slot: the last slot of that walk, and its level.
lookup_pt_slot(root, va) ==
  LET walk == Walk(root, va)
      level == CHOOSE n \in Levels : walk[n] # None /\ (n = 3 \/ walk[n + 1] = None)
  IN  [slot |-> SlotIn(walk[level], va, level), level |-> level]

\* Memory after the entry is written, and cleaned to the point of unification.
update(slot, pte) == [mem EXCEPT ![slot.table][slot.index] = pte]

(***************************************************************************)
(* What unmap_page_table and use_large leave behind.  A slot is unclaimed  *)
(* until it is cleared or mapped anew.  What a displaced table leads to is *)
(* displaced, until it is clear and no entry leads to it any more.  An     *)
(* action says which slots it leaves unclaimed and which tables it adds.   *)
(***************************************************************************)
Leads(table) == \E s \in Slots : mem'[s.table][s.index] = pte_new_table(table)
LeadsInto(tables) ==
  \A t \in tables, i \in Index :
    mem'[t][i].type = "pte_table" => mem'[t][i].addr \in tables
Spread(tables) ==
  {t \in PageTables :
     \A X \in SUBSET PageTables : tables \subseteq X /\ LeadsInto(X) => t \in X}

LeftBehind(slots, tables) ==
  /\ unclaimed' = {s \in slots : mem'[s.table][s.index] # pte_invalid}
  /\ displaced' = {t \in Spread(displaced \cup tables) : mem'[t] # Blank \/ Leads(t)}

------------------------------------------------------------------------------
Init ==
  /\ mem = [t \in Tables |-> Blank]
  /\ vspaceOf = [a \in Asids |-> None]
  /\ frameCap = [f \in Frames |-> None]
  /\ ptCap = [t \in PageTables |-> None]
  /\ itRoot = None
  /\ booted = FALSE
  /\ unclaimed = {}
  /\ displaced = {}

\* A table is mapped where the lookup ends early, on an empty slot.
TableFits(root, table, va) ==
  LET lu == lookup_pt_slot(root, va)
  IN  /\ ptCap[table] = None
      /\ lu.level < 3
      /\ Aligned(va, lu.level)
      /\ get_type(lu.slot) = "pte_invalid"

\* A frame is mapped where the lookup ends at its level, over another frame's page
\* if there is one.  The caller's part is not to map it over a table.
FrameFits(root, va, level) ==
  LET lu == lookup_pt_slot(root, va)
  IN  /\ lu.level = level
      /\ Aligned(va, level)
      /\ get_type(lu.slot) # "pte_table"

------------------------------------------------------------------------------
(* The boot code builds the initial thread's space, tables before frames.  *)

CreateItSpace(root) ==
  /\ itRoot = None /\ ~ booted
  /\ itRoot' = root
  /\ UNCHANGED <<mem, vspaceOf, caps, booted, history>>

\* The slot of a level, whatever is on the way; the boot code sees to it that
\* tables are.  map_it_pud_cap and map_it_pd_cap walk by hand to the same slot.
find_pt(root, va, level) ==
  LET down[n \in Levels] ==
        IF n = 0 THEN SlotIn(root, va, 0)
        ELSE SlotIn(PteAt(down[n - 1]).addr, va, n)
  IN  down[level]

map_it_pud_cap(table, va) == update(find_pt(itRoot, va, 0), pte_new_table(table))
map_it_pd_cap(table, va)  == update(find_pt(itRoot, va, 1), pte_new_table(table))
map_it_pt_cap(table, va)  == update(find_pt(itRoot, va, 2), pte_new_table(table))
map_it_frame_cap(frame, va) == update(find_pt(itRoot, va, 3), pte_new_4k_page(frame))

\* create_it_pud_cap, create_it_pd_cap, create_it_pt_cap.
CreateItTable(table, va) ==
  /\ itRoot # None
  /\ TableFits(itRoot, table, va)
  /\ mem' = CASE lookup_pt_slot(itRoot, va).level = 0 -> map_it_pud_cap(table, va)
              [] lookup_pt_slot(itRoot, va).level = 1 -> map_it_pd_cap(table, va)
              [] lookup_pt_slot(itRoot, va).level = 2 -> map_it_pt_cap(table, va)
  /\ ptCap' = [ptCap EXCEPT ![table] = [asid |-> ItAsid, va |-> va]]
  /\ LeftBehind(unclaimed, {})
  /\ UNCHANGED <<vspaceOf, frameCap, boot>>

(***************************************************************************)
(* create_mapped_it_frame_cap: with use_large the capability is that of a  *)
(* large page, but map_it_frame_cap goes down to the last level all the    *)
(* same and writes a 4k page.  unmap_page will look for a large one.       *)
(***************************************************************************)
CreateItFrame(frame, va, use_large) ==
  LET size == IF use_large THEN 2 ELSE 3
      slot == find_pt(itRoot, va, 3)
  IN  /\ itRoot # None
      /\ frameCap[frame] = None
      /\ Aligned(va, size) /\ FrameFits(itRoot, va, 3)
      /\ mem' = map_it_frame_cap(frame, va)
      /\ frameCap' = [frameCap EXCEPT ![frame] = [asid |-> ItAsid, va |-> va, level |-> size]]
      /\ LeftBehind(IF use_large THEN unclaimed \cup {slot} ELSE unclaimed \ {slot}, {})
      /\ UNCHANGED <<vspaceOf, ptCap, boot>>

\* write_it_asid_pool binds the space and the boot code ends.
FinishBoot ==
  /\ itRoot # None
  /\ vspaceOf' = [vspaceOf EXCEPT ![ItAsid] = itRoot]
  /\ booted' = TRUE
  /\ itRoot' = None
  /\ UNCHANGED <<mem, caps, history>>

------------------------------------------------------------------------------
(* The kernel's invocations.                                               *)

\* A retyped root is clear; it gets an ASID.
CreateVSpace(asid, root) ==
  /\ booted
  /\ vspaceOf[asid] = None
  /\ \A a \in Asids : vspaceOf[a] # root
  /\ mem' = [mem EXCEPT ![root] = Blank]
  /\ vspaceOf' = [vspaceOf EXCEPT ![asid] = root]
  /\ LeftBehind(unclaimed, {})
  /\ UNCHANGED <<caps, boot>>

\* delete_asid: the tables of the space stay as they are.
DeleteVSpace(asid) ==
  /\ booted
  /\ vspaceOf[asid] # None
  /\ vspaceOf' = [vspaceOf EXCEPT ![asid] = None]
  /\ UNCHANGED <<mem, caps, boot, history>>

\* delete_asid_pool: the spaces with an ASID in the pool, whichever these are, go
\* together.
DeleteAsidPool(asids) ==
  /\ booted
  /\ \A a \in asids : vspaceOf[a] # None
  /\ vspaceOf' = [a \in Asids |-> IF a \in asids THEN None ELSE vspaceOf[a]]
  /\ UNCHANGED <<mem, caps, boot, history>>

MapPageTable(table, asid, va) ==
  /\ booted
  /\ vspaceOf[asid] # None
  /\ TableFits(vspaceOf[asid], table, va)
  /\ mem' = update(lookup_pt_slot(vspaceOf[asid], va).slot, pte_new_table(table))
  /\ ptCap' = [ptCap EXCEPT ![table] = [asid |-> asid, va |-> va]]
  /\ LeftBehind(unclaimed, {})
  /\ UNCHANGED <<vspaceOf, frameCap, boot>>

\* There is no page of the size that the root serves.  A frame is mapped where it
\* is mapped already, or anywhere if it is not.
MapFrame(frame, asid, va, level) ==
  LET cap == [asid |-> asid, va |-> va, level |-> level]
      slot == lookup_pt_slot(vspaceOf[asid], va).slot
  IN  /\ booted
      /\ vspaceOf[asid] # None
      /\ level > 0
      /\ frameCap[frame] \in {None, cap}
      /\ FrameFits(vspaceOf[asid], va, level)
      /\ mem' = update(slot, make_user_pte(frame, level))
      /\ frameCap' = [frameCap EXCEPT ![frame] = cap]
      /\ LeftBehind(unclaimed \ {slot}, {})
      /\ UNCHANGED <<vspaceOf, ptCap, boot>>

\* Mutants of unmap_page: whatever frame is mapped at the address goes; only
\* one of the two kinds of leaf is one.
unmap_page_any_frame(level, asid, va, frame) ==
  LET lu == lookup_pt_slot(vspaceOf[asid], va)
  IN  IF /\ vspaceOf[asid] # None
         /\ lu.level = level
         /\ get_type(lu.slot) \in {"pte_page", "pte_4k_page"}
      THEN update(lu.slot, pte_invalid)
      ELSE mem
unmap_page_blocks_only(level, asid, va, frame) ==
  LET lu == lookup_pt_slot(vspaceOf[asid], va)
  IN  IF /\ vspaceOf[asid] # None
         /\ lu.level = level
         /\ get_type(lu.slot) = "pte_page"
         /\ PteAt(lu.slot).addr = frame
      THEN update(lu.slot, pte_invalid)
      ELSE mem

\* Memory after unmap_page(page_size, asid, vptr, pptr): every outcome but a
\* leaf of that size that names the frame changes nothing.
unmap_page(level, asid, va, frame) ==
  LET lu == lookup_pt_slot(vspaceOf[asid], va)
  IN  IF /\ vspaceOf[asid] # None
         /\ lu.level = level
         /\ get_type(lu.slot) \in {"pte_page", "pte_4k_page"}
         /\ PteAt(lu.slot).addr = frame
      THEN update(lu.slot, pte_invalid)
      ELSE mem

UnmapFrame(frame) ==
  LET cap == frameCap[frame]
  IN  /\ booted
      /\ cap # None
      /\ mem' = unmap_page(cap.level, cap.asid, cap.va, frame)
      /\ frameCap' = [frameCap EXCEPT ![frame] = None]
      /\ LeftBehind(unclaimed, {})
      /\ UNCHANGED <<vspaceOf, ptCap, boot>>

\* Where the loop of unmap_page_table finds the table: at a level, or nowhere.
FoundAt(table, asid, va) == {n \in 1 .. 3 : Walk(vspaceOf[asid], va)[n] = table}
Found(table, asid, va) == vspaceOf[asid] # None /\ FoundAt(table, asid, va) # {}
SlotTo(table, asid, va) ==
  LET level == CHOOSE n \in FoundAt(table, asid, va) :
                 \A k \in FoundAt(table, asid, va) : n <= k
  IN  SlotIn(Walk(vspaceOf[asid], va)[level - 1], va, level - 1)

\* Mutant of unmap_page_table: the slot is left alone.
unmap_page_table_keeps_slot(asid, va, table) == mem

(***************************************************************************)
(* Memory after unmap_page_table(asid, vaddr, pt).  The slot is zeroed and *)
(* then, by an update() that reads through the pointer to pt, overwritten  *)
(* with the first entry of the table that is being unmapped.               *)
(***************************************************************************)
unmap_page_table(asid, va, table) ==
  IF Found(table, asid, va)
  THEN update(SlotTo(table, asid, va), mem[table][0])
  ELSE mem

\* The caller clears the table once unmap_page_table has returned.
UnmapPageTable(table) ==
  LET cap == ptCap[table]
  IN  /\ booted
      /\ cap # None
      /\ mem' = [unmap_page_table(cap.asid, cap.va, table) EXCEPT ![table] = Blank]
      /\ ptCap' = [ptCap EXCEPT ![table] = None]
      /\ IF Found(table, cap.asid, cap.va)
         THEN LeftBehind(unclaimed \cup {SlotTo(table, cap.asid, cap.va)},
                         {mem[table][0].addr} \cap PageTables)
         ELSE LeftBehind(unclaimed, {})
      /\ UNCHANGED <<vspaceOf, frameCap, boot>>

Next ==
  \/ \E r \in Roots : CreateItSpace(r)
  \/ \E t \in PageTables, va \in VAddrs : CreateItTable(t, va)
  \/ \E f \in Frames, va \in VAddrs, l \in BOOLEAN : CreateItFrame(f, va, l)
  \/ FinishBoot
  \/ \E a \in Asids, r \in Roots : CreateVSpace(a, r)
  \/ \E a \in Asids : DeleteVSpace(a)
  \/ \E asids \in SUBSET Asids : DeleteAsidPool(asids)
  \/ \E t \in PageTables, a \in Asids, va \in VAddrs : MapPageTable(t, a, va)
  \/ \E f \in Frames, a \in Asids, va \in VAddrs, n \in Levels : MapFrame(f, a, va, n)
  \/ \E f \in Frames : UnmapFrame(f)
  \/ \E t \in PageTables : UnmapPageTable(t)

Spec == Init /\ [][Next]_vars

------------------------------------------------------------------------------
\* The addresses of live spaces, and what the crate finds at one.
Live == {p \in Asids \X VAddrs : vspaceOf[p[1]] # None}
LookupAt(p) == lookup_pt_slot(vspaceOf[p[1]], p[2])
LeafAt(p) ==
  LET lu == LookupAt(p)
  IN  IF get_type(lu.slot) \in {"pte_page", "pte_4k_page"}
      THEN [frame |-> PteAt(lu.slot).addr, level |-> lu.level]
      ELSE None

\* Does the lookup of an address end at an entry that no capability tells of?
Strays(p) == LookupAt(p).slot \in unclaimed \/ LookupAt(p).slot.table \in displaced

\* A frame is mapped only where its capability says so, except at a slot that
\* unmap_page_table left with the first entry of the table it unmapped, in the
\* tables below, and where the boot code mapped a frame with use_large.  So
\* unmap_page, on whichever of its paths, leaves nothing of a frame behind.
MappedFrameHasCap ==
  \A p \in Live :
    LET leaf == LeafAt(p)
    IN  leaf # None /\ ~ Strays(p) =>
          LET cap == frameCap[leaf.frame]
          IN  /\ cap # None
              /\ cap.asid = p[1] /\ cap.level = leaf.level
              /\ SamePage(cap.va, p[2], leaf.level)

\* A table is reached in one way: by one space, at one level, and by addresses
\* that agree on all the indices above it.  So what is done to a table through
\* one address shows at no other.  Only a displaced table may be reached in two.
TablesFormTrees ==
  \A p, q \in Live :
    LET walk == Walk(vspaceOf[p[1]], p[2])
        other == Walk(vspaceOf[q[1]], q[2])
    IN  \A m, n \in Levels :
          walk[m] # None /\ walk[m] \notin displaced /\ walk[m] = other[n] =>
            p[1] = q[1] /\ m = n /\ SamePage(p[2], q[2], m - 1)

\* The processor reads the entries as the crate does: to it a 4k page is a page
\* at the last level and a table above it, a block is invalid at the last level
\* and at the first.  Only what unmap_page_table left behind can be of the wrong
\* kind (use_large is exempt with it, though it writes the right kind).
LeavesFitTheirLevel ==
  \A p \in Live :
    LET lu == LookupAt(p)
    IN  ~ Strays(p) =>
          \/ get_type(lu.slot) = "pte_invalid"
          \/ get_type(lu.slot) = "pte_4k_page" /\ lu.level = 3
          \/ get_type(lu.slot) = "pte_page" /\ lu.level \in {1, 2}

\* A mapping of a live space ends only when its frame is unmapped by its own
\* capability, when another frame is mapped over it, when some page table is
\* unmapped, or when the space goes.
OnlyItsOwnerUnmaps ==
  [][\A p \in Live :
       LET leaf == LeafAt(p)
       IN  leaf # None =>
             \/ vspaceOf'[p[1]] # vspaceOf[p[1]]
             \/ LeafAt(p)' = leaf
             \/ frameCap'[leaf.frame] = None
             \/ \E f \in Frames :
                  frameCap'[f] # None /\ LeafAt(p)' = [frame |-> f, level |-> leaf.level]
             \/ \E t \in PageTables : ptCap[t] # None /\ ptCap'[t] = None]_vars
==============================================================================
