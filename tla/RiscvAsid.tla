------------------------------ MODULE RiscvAsid ------------------------------
(***************************************************************************)
(* The RISC-V ASID table and the register that activates an address space. *)
(*                                                                         *)
(*   src/arch/riscv64/asid.rs        riscvKSASIDTable and its operations   *)
(*   src/arch/riscv64/structures.rs  asid_pool_t                           *)
(*   src/arch/riscv64/interface.rs   set_vm_root                           *)
(*   src/arch/riscv64/satp.rs        set_vspace_root                       *)
(*   src/arch/riscv64/pagetable.rs   activate_kernel_vspace                *)
(*                                                                         *)
(* The crate holds no lock: its callers run it one operation at a time (on *)
(* several harts, under the kernel lock), so an operation is one step.     *)
(* The harts' translation hardware runs between the steps.                 *)
(*                                                                         *)
(* An address space is its root page table here; what the tables hold is   *)
(* the business of other modules.  A TLB entry is the pair of the root it  *)
(* was walked from and the ASID it is tagged with.                         *)
(***************************************************************************)
EXTENDS Integers

CONSTANTS
  Harts,          \* the harts
  Roots,          \* root page tables of user address spaces
  Pools,          \* ASID pool objects
  KernelRoot,     \* KERNEL_ROOT_PAGE_TABLE
  Null,           \* the null pointer
  NonVSpaceCap,   \* any capability that is not a page table capability
  HighSize,       \* bit!(ASID_HIGH_BITS): entries of riscvKSASIDTable
  LowSize,        \* bit!(ASID_LOW_BITS): entries of a pool
  ItAsid          \* IT_ASID: the ASID of the initial thread

High  == 0 .. HighSize - 1
Low   == 0 .. LowSize - 1
Asids == 0 .. HighSize * LowSize - 1

\* The ASID of the kernel's own page table; no address space is given it.
KernelAsid == 0

ASSUME RiscvAsidAssumption ==
  /\ HighSize \in Nat \ {0}
  /\ LowSize \in Nat \ {0}
  /\ ItAsid \in Low \ {KernelAsid}
  /\ Null \notin Roots \cup Pools \cup {KernelRoot}
  /\ KernelRoot \notin Roots

\* satp holds a root and an ASID; a page table capability names the same two.
Space       == [root : Roots, asid : Asids \ {KernelAsid}]
KernelSpace == [root |-> KernelRoot, asid |-> KernelAsid]
BootSpace   == [root |-> Null, asid |-> KernelAsid]

VARIABLES
  riscvKSASIDTable,  \* the pool that serves each block of ASIDs, or Null
  array,             \* array[p][l]: the root the pool p holds at l, or Null
  satp,              \* satp[h]: the address space active on h
  tlb,               \* tlb[h]: the translations cached on h
  caps,              \* the root page table capabilities bound to an ASID
  poolCaps,          \* the ASID pool capabilities: <<index, pool>>
  poolCopies,        \* those of pools that have been deleted since
  booted             \* has the initial thread been given its ASID

tables == <<riscvKSASIDTable, array>>
hart   == <<satp, tlb>>
vars   == <<riscvKSASIDTable, array, satp, tlb, caps, poolCaps, poolCopies, booted>>

TypeOK ==
  /\ riscvKSASIDTable \in [High -> Pools \cup {Null}]
  /\ array \in [Pools -> [Low -> Roots \cup {Null}]]
  /\ satp \in [Harts -> Space \cup {KernelSpace, BootSpace}]
  /\ tlb \in [Harts -> SUBSET (Space \cup {KernelSpace, BootSpace})]
  /\ caps \subseteq Space
  /\ poolCaps \subseteq High \X Pools /\ poolCopies \subseteq High \X Pools
  /\ booted \in BOOLEAN

Init ==
  /\ riscvKSASIDTable = [i \in High |-> Null]
  /\ array = [p \in Pools |-> [l \in Low |-> Null]]
  /\ satp = [h \in Harts |-> BootSpace]
  /\ tlb = [h \in Harts |-> {}]
  /\ caps = {}
  /\ poolCaps = {} /\ poolCopies = {}
  /\ booted = FALSE

------------------------------------------------------------------------------
\* Mutant of HighOf: a mask where the shift should be.
HighOf_masked(asid) == asid % HighSize

\* asid >> ASID_LOW_BITS and asid & mask_bits!(ASID_LOW_BITS).
HighOf(asid) == asid \div LowSize
LowOf(asid)  == asid % LowSize

(***************************************************************************)
(* The root bound to an ASID.  Null stands for EXCEPTION_LOOKUP_FAULT,     *)
(* which the code returns for a missing pool and for an empty entry alike. *)
(***************************************************************************)
find_vspace_for_asid(asid) ==
  LET pool == riscvKSASIDTable[HighOf(asid)]
  IN  IF pool = Null THEN Null ELSE array[pool][LowOf(asid)]

set_asid_pool_by_index(index, pool) ==
  riscvKSASIDTable' = [riscvKSASIDTable EXCEPT ![index] = pool]

set_vspace_by_index(pool, index, root) ==
  array' = [array EXCEPT ![pool][index] = root]

------------------------------------------------------------------------------
\* Mutant of set_vspace_root: no fence after the write.
set_vspace_root_unfenced(h, space) ==
  /\ satp' = [satp EXCEPT ![h] = space]
  /\ UNCHANGED tlb

\* Writes satp and fences the hart's own TLB (sfence or sfence_local).
set_vspace_root(h, space) ==
  /\ satp' = [satp EXCEPT ![h] = space]
  /\ tlb'  = [tlb EXCEPT ![h] = {}]

activate_kernel_vspace(h) == set_vspace_root(h, KernelSpace)

\* Mutant of set_vm_root: the capability's ASID is not written to satp.
set_vm_root_no_asid(h, cap) ==
  IF cap = NonVSpaceCap
  THEN set_vspace_root(h, KernelSpace)
  ELSE set_vspace_root(h, [root |-> cap.root, asid |-> KernelAsid])

(***************************************************************************)
(* A page table capability whose ASID does not resolve to its root makes   *)
(* the code install the kernel's table and then, as that branch does not   *)
(* return, install the capability's own space over it: whatever the lookup *)
(* finds, only the second write is left when the operation ends.  What the *)
(* lookup decides is the result, Err with its fault, which is not state.   *)
(***************************************************************************)
set_vm_root(h, cap) ==
  IF cap = NonVSpaceCap
  THEN set_vspace_root(h, KernelSpace)
  ELSE set_vspace_root(h, [root |-> cap.root, asid |-> cap.asid])

------------------------------------------------------------------------------
\* A hart runs the crate's operations on the kernel's page table.
Active(h)  == satp[h] # BootSpace
Running(h) == booted /\ Active(h)

\* At boot every hart turns the kernel's page table on.
ActivateKernel(h) ==
  /\ ~ Active(h)
  /\ activate_kernel_vspace(h)
  /\ UNCHANGED <<tables, caps, poolCaps, poolCopies, booted>>

\* The boot code, with a fresh pool and the initial thread's root.  It indexes
\* the pool by IT_ASID itself, not by its low bits.
write_it_asid_pool(pool, root) ==
  /\ array' = [array EXCEPT ![pool] = [l \in Low |-> IF l = ItAsid THEN root ELSE Null]]
  /\ set_asid_pool_by_index(HighOf(ItAsid), pool)

InitialThread(h, pool, root) ==
  /\ Active(h) /\ ~ booted
  /\ booted' = TRUE
  /\ write_it_asid_pool(pool, root)
  /\ caps' = {[root |-> root, asid |-> ItAsid]}
  /\ poolCaps' = {<<HighOf(ItAsid), pool>>}
  /\ UNCHANGED <<hart, poolCopies>>

\* A caller makes a new, zeroed pool, of an object that no capability names, for
\* an index that has none.
InstallPool(h, index, pool) ==
  /\ Running(h)
  /\ riscvKSASIDTable[index] = Null
  /\ \A c \in poolCaps \cup poolCopies : c[2] # pool
  /\ set_asid_pool_by_index(index, pool)
  /\ array' = [array EXCEPT ![pool] = [l \in Low |-> Null]]
  /\ poolCaps' = poolCaps \cup {<<index, pool>>}
  /\ UNCHANGED <<hart, caps, poolCopies, booted>>

\* A caller gives a root that has no ASID a free entry of an installed pool.
AssignAsid(h, asid, root) ==
  LET pool == riscvKSASIDTable[HighOf(asid)]
  IN  /\ Running(h)
      /\ asid # KernelAsid
      /\ pool # Null
      /\ array[pool][LowOf(asid)] = Null
      /\ \A c \in caps : c.root # root
      /\ set_vspace_by_index(pool, LowOf(asid), root)
      /\ caps' = caps \cup {[root |-> root, asid |-> asid]}
      /\ UNCHANGED <<riscvKSASIDTable, hart, poolCaps, poolCopies, booted>>

\* A thread is switched to: its root may be any capability, a stale one too.
SwitchThread(h, cap) ==
  /\ Running(h)
  /\ UNCHANGED <<tables, caps, poolCaps, poolCopies, booted>>
  /\ set_vm_root(h, cap)

\* Mutants of delete_asid: the entry is cleared whoever owns it; the entry is
\* flushed but not cleared.
delete_asid_unchecked(h, asid, vspace, default) ==
  LET pool == riscvKSASIDTable[HighOf(asid)]
  IN  IF pool # Null
      THEN /\ set_vspace_by_index(pool, LowOf(asid), Null)
           /\ UNCHANGED riscvKSASIDTable
           /\ set_vm_root(h, default)
      ELSE UNCHANGED <<tables, hart>>

delete_asid_keeps_entry(h, asid, vspace, default) ==
  UNCHANGED tables /\ set_vm_root(h, default)

(***************************************************************************)
(* delete_asid(asid, vspace, default): only the entry that still names     *)
(* vspace is cleared.  hw_asid_flush on the same hart comes first; the     *)
(* fence of set_vm_root, later in the operation, drops what it drops.      *)
(***************************************************************************)
delete_asid(h, asid, vspace, default) ==
  LET pool == riscvKSASIDTable[HighOf(asid)]
  IN  IF pool # Null /\ array[pool][LowOf(asid)] = vspace
      THEN /\ set_vspace_by_index(pool, LowOf(asid), Null)
           /\ UNCHANGED riscvKSASIDTable
           /\ set_vm_root(h, default)
      ELSE UNCHANGED <<tables, hart>>

\* The capability goes with its ASID; default is the current thread's root,
\* which may be the capability that goes.
DeleteAsid(h, cap, default) ==
  /\ Running(h)
  /\ delete_asid(h, cap.asid, cap.root, default)
  /\ caps' = caps \ {cap}
  /\ UNCHANGED <<poolCaps, poolCopies, booted>>

\* Mutants of delete_asid_pool: the table keeps pointing to the pool; whichever pool
\* the index has goes.
delete_asid_pool_keeps_index(h, asid_base, pool, default) ==
  UNCHANGED tables /\ set_vm_root(h, default)

delete_asid_pool_unchecked(h, asid_base, pool, default) ==
  /\ set_asid_pool_by_index(HighOf(asid_base), Null)
  /\ UNCHANGED array
  /\ set_vm_root(h, default)

\* delete_asid_pool(asid_base, pool, default): the pool keeps its entries.
delete_asid_pool(h, asid_base, pool, default) ==
  IF riscvKSASIDTable[HighOf(asid_base)] = pool
  THEN /\ set_asid_pool_by_index(HighOf(asid_base), Null)
       /\ UNCHANGED array
       /\ set_vm_root(h, default)
  ELSE UNCHANGED <<tables, hart>>

\* The capability goes, but one that was copied from it may stay, for a pool that
\* is not at that index any more.
DeleteAsidPool(h, index, pool, copied, default) ==
  /\ Running(h)
  /\ delete_asid_pool(h, index * LowSize, pool, default)
  /\ poolCaps' = poolCaps \ {<<index, pool>>}
  /\ poolCopies' = IF copied THEN poolCopies \cup {<<index, pool>>}
                             ELSE poolCopies \ {<<index, pool>>}
  /\ UNCHANGED <<caps, booted>>

\* The hart's walker caches a translation of the active address space.
TlbFill(h) ==
  /\ tlb' = [tlb EXCEPT ![h] = @ \cup {satp[h]}]
  /\ UNCHANGED <<tables, satp, caps, poolCaps, poolCopies, booted>>

ThreadRoots == caps \cup {NonVSpaceCap}

Next ==
  \E h \in Harts :
    \/ ActivateKernel(h)
    \/ \E p \in Pools, r \in Roots : InitialThread(h, p, r)
    \/ \E i \in High, p \in Pools : InstallPool(h, i, p)
    \/ \E a \in Asids, r \in Roots : AssignAsid(h, a, r)
    \/ \E c \in ThreadRoots : SwitchThread(h, c)
    \/ \E c \in caps, d \in ThreadRoots : DeleteAsid(h, c, d)
    \/ \E c \in poolCaps \cup poolCopies, copied \in BOOLEAN, d \in ThreadRoots :
         DeleteAsidPool(h, c[1], c[2], copied, d)
    \/ TlbFill(h)

Spec == Init /\ [][Next]_vars

------------------------------------------------------------------------------
BoundTo(asid, root) == find_vspace_for_asid(asid) = root

\* An ASID resolves only while the capability of the root it resolves to
\* exists, through a pool whose capability exists: neither delete_asid nor
\* delete_asid_pool leaves a binding behind for a freed root or a freed pool.
NothingOutlivesItsCap ==
  /\ \A i \in High :
       riscvKSASIDTable[i] # Null => <<i, riscvKSASIDTable[i]>> \in poolCaps
  /\ \A a \in Asids, r \in Roots :
       BoundTo(a, r) => [root |-> r, asid |-> a] \in caps

\* No two ASIDs resolve to one root, so the flush of an ASID that
\* hw_asid_flush does reaches every entry walked from that root.
RootHasOneAsid ==
  \A a, b \in Asids, r \in Roots : BoundTo(a, r) /\ BoundTo(b, r) => a = b

\* A hart never translates the active ASID with an entry that was walked from
\* another root, whoever held that ASID before: the fence of set_vspace_root
\* is what makes an ASID safe to give away again.
NoAsidAliasing ==
  \A h \in Harts : \A e \in tlb[h] : e.asid = satp[h].asid => e = satp[h]

\* An ASID loses its root only when that root's capability, or that of the
\* pool, is deleted in the same step: deleting a capability whose ASID has
\* since been given to another root leaves the new owner alone.
StaleDeleteHarmless ==
  [][\A a \in Asids, r \in Roots :
        BoundTo(a, r) /\ ~ BoundTo(a, r)' =>
          \/ [root |-> r, asid |-> a] \notin caps'
          \/ <<HighOf(a), riscvKSASIDTable[HighOf(a)]>> \notin poolCaps']_vars

\* The code's table and pools implement the map of AsidMap.
AbstractMap == INSTANCE AsidMap WITH
  NoRoot <- Null,
  Blocks <- {{a \in Asids : HighOf(a) = i} : i \in High},
  vspaceOf <- [a \in Asids |-> find_vspace_for_asid(a)]

ImplementsAsidMap == AbstractMap!Spec

\* What the doc of set_vm_root says of a root that is not legal: the hart runs
\* on the kernel's page table.
IllegalRootFallsBack ==
  [][\A h \in Harts, s \in Space :
        satp'[h] = s /\ satp[h] # s => BoundTo(s.asid, s.root)']_vars
==============================================================================
