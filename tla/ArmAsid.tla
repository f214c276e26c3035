------------------------------- MODULE ArmAsid -------------------------------
(***************************************************************************)
(* The AArch64 ASID table and the register that selects a user space.      *)
(*                                                                         *)
(*   src/arch/aarch64/asid.rs       armKSASIDTable and its operations      *)
(*   src/arch/aarch64/interface.rs  set_vm_root, activate_kernel_vspace,   *)
(*                                  set_vm_root_for_flush_with_thread_root *)
(*   src/arch/aarch64/machine.rs    set_current_user_vspace_root, ttbr_new *)
(*                                                                         *)
(* As in RiscvAsid, operations run one at a time under the kernel lock and *)
(* are one step each; only a cache flush is two, because the hart works in *)
(* another address space in between.  The kernel has a register of its own *)
(* (TTBR1), so what a hart falls back on is an empty user space.  Barriers *)
(* and the TLB are not modelled here.                                      *)
(***************************************************************************)
EXTENDS Integers

CONSTANTS
  Harts,            \* the processors
  Roots,            \* root page tables of user address spaces
  Pools,            \* ASID pool objects
  GlobalUserVSpace, \* armKSGlobalUserVSpace, the empty user space
  Null,             \* no pool, an asid_map_none entry, no cap, no register value
  NonVSpaceCap,     \* a capability for which is_valid_native_root fails
  HighSize,         \* bit!(ASID_HIGH_BITS): entries of armKSASIDTable
  LowSize,          \* bit!(ASID_LOW_BITS): entries of a pool
  ItAsid            \* IT_ASID: the ASID of the initial thread

High  == 0 .. HighSize - 1
Low   == 0 .. LowSize - 1
Asids == 0 .. HighSize * LowSize - 1

\* The ASID that no address space is given.
NoAsid == 0

ASSUME ArmAsidAssumption ==
  /\ HighSize \in Nat \ {0}
  /\ LowSize \in Nat \ {0}
  /\ ItAsid \in Low \ {NoAsid}
  /\ Null \notin Roots \cup Pools \cup {GlobalUserVSpace}
  /\ GlobalUserVSpace \notin Roots

\* A VSpace capability, and what TTBR0 holds: an ASID and the address of a
\* root, as a physical address or as the kernel's pointer to it.
Space == [root : Roots, asid : Asids \ {NoAsid}]
TTBR  == [addr : {"paddr"}, root : Roots \cup {GlobalUserVSpace}, asid : {NoAsid}]
           \cup [addr : {"pptr"}, root : Roots, asid : Asids \ {NoAsid}]

\* ttbr_new, and the two ways the code writes the register elsewhere.
ttbr_new(asid, addr, root) == [addr |-> addr, root |-> root, asid |-> asid]
GlobalTTBR == ttbr_new(NoAsid, "paddr", GlobalUserVSpace)

VARIABLES
  armKSASIDTable,  \* the pool that serves each block of ASIDs, or Null
  pools,           \* pools[p][l]: the root that the entry l of p maps to, or Null
  ttbr0,           \* ttbr0[h]: the user space of the hart, Null before boot
  flush,           \* the flush under way, or Null
  caps,            \* the VSpace capabilities bound to an ASID
  poolCaps,        \* the ASID pool capabilities: <<index, pool>>
  poolCopies,      \* those of pools that have been deleted since
  booted           \* has the initial thread been given its ASID

tables == <<armKSASIDTable, pools>>
vars   == <<armKSASIDTable, pools, ttbr0, flush, caps, poolCaps, poolCopies, booted>>

\* A flush: its hart, the space it is for, the current thread's root, and
\* whether the hart was moved to another space for it.
Flush == [hart : Harts, cap : Space, thread : Space \cup {NonVSpaceCap}, switched : BOOLEAN]

ASSUME ArmFlushAssumption == Null \notin Flush

TypeOK ==
  /\ armKSASIDTable \in [High -> Pools \cup {Null}]
  /\ pools \in [Pools -> [Low -> Roots \cup {Null}]]
  /\ ttbr0 \in [Harts -> TTBR \cup {Null}]
  /\ flush \in Flush \cup {Null}
  /\ caps \subseteq Space
  /\ poolCaps \subseteq High \X Pools /\ poolCopies \subseteq High \X Pools
  /\ booted \in BOOLEAN

Init ==
  /\ armKSASIDTable = [i \in High |-> Null]
  /\ pools = [p \in Pools |-> [l \in Low |-> Null]]
  /\ ttbr0 = [h \in Harts |-> Null]
  /\ flush = Null
  /\ caps = {}
  /\ poolCaps = {} /\ poolCopies = {}
  /\ booted = FALSE

------------------------------------------------------------------------------
\* Mutant of HighOf: the index is not shifted far enough.
HighOf_unshifted(asid) == asid % HighSize

\* asid >> ASID_LOW_BITS and asid & mask_bits!(ASID_LOW_BITS).
HighOf(asid) == asid \div LowSize
LowOf(asid)  == asid % LowSize

\* The root that an ASID has in a table; Null for EXCEPTION_LOOKUP_FAULT, be it
\* that there is no pool (find_map_for_asid) or that the entry is no asid_map_vspace.
Lookup(table, content, asid) ==
  LET pool == table[HighOf(asid)]
  IN  IF pool = Null THEN Null ELSE content[pool][LowOf(asid)]

find_vspace_for_asid(asid) == Lookup(armKSASIDTable, pools, asid)

set_asid_pool_by_index(index, pool) ==
  armKSASIDTable' = [armKSASIDTable EXCEPT ![index] = pool]

SetEntry(pool, index, root) == pools' = [pools EXCEPT ![pool][index] = root]

------------------------------------------------------------------------------
\* The address space of the hart from here on.
set_current_user_vspace_root(h, ttbr) == ttbr0' = [ttbr0 EXCEPT ![h] = ttbr]

\* Mutants of set_vm_root: the lookup is not compared with the capability; the
\* root is written as the pointer that the capability holds.
set_vm_root_uncompared(h, cap) ==
  set_current_user_vspace_root(h,
    IF cap = NonVSpaceCap THEN GlobalTTBR ELSE ttbr_new(NoAsid, "paddr", cap.root))

set_vm_root_pptr(h, cap) ==
  set_current_user_vspace_root(h,
    IF cap = NonVSpaceCap THEN GlobalTTBR ELSE ttbr_new(NoAsid, "pptr", cap.root))

(***************************************************************************)
(* An ASID that is bound to another root makes the hart fall back on the   *)
(* empty user space.  An ASID that is not bound at all does not: the check *)
(* is under "if let Some", and the code goes on to install the root.  The  *)
(* register gets the bare address, so its ASID is 0 for every space.  The  *)
(* callers change the tables first, hence the primes.                      *)
(***************************************************************************)
set_vm_root(h, cap) ==
  LET found == Lookup(armKSASIDTable', pools', cap.asid)
  IN  set_current_user_vspace_root(h,
        IF cap = NonVSpaceCap \/ found \notin {Null, cap.root}
        THEN GlobalTTBR
        ELSE ttbr_new(NoAsid, "paddr", cap.root))

\* Mutant of set_vm_root_for_flush_with_thread_root: it always answers no.
set_vm_root_for_flush_answers_no(h, cap, thread) ==
  LET switched == thread = NonVSpaceCap \/ thread.root # cap.root
  IN  /\ flush' = [hart |-> h, cap |-> cap, thread |-> thread, switched |-> FALSE]
      /\ IF switched
         THEN set_current_user_vspace_root(h, ttbr_new(cap.asid, "pptr", cap.root))
         ELSE UNCHANGED ttbr0

\* Moves the hart to the space to be flushed unless the current thread is in
\* it; what it answers is kept in flush.
set_vm_root_for_flush_with_thread_root(h, cap, thread) ==
  LET switched == thread = NonVSpaceCap \/ thread.root # cap.root
  IN  /\ flush' = [hart |-> h, cap |-> cap, thread |-> thread, switched |-> switched]
      /\ IF switched
         THEN set_current_user_vspace_root(h, ttbr_new(cap.asid, "pptr", cap.root))
         ELSE UNCHANGED ttbr0

------------------------------------------------------------------------------
\* A hart runs the crate's operations once it runs on the kernel's tables, and
\* one at a time.
Active(h)  == ttbr0[h] # Null
Running(h) == booted /\ Active(h) /\ flush = Null

\* Also invalidates the TLB and the caches and sets TTBR1.
activate_kernel_vspace(h) == set_current_user_vspace_root(h, GlobalTTBR)

ActivateKernel(h) ==
  /\ ~ Active(h)
  /\ activate_kernel_vspace(h)
  /\ UNCHANGED <<tables, flush, caps, poolCaps, poolCopies, booted>>

\* The boot code, with a zeroed pool and the initial thread's root.
write_it_asid_pool(pool, root) ==
  /\ pools' = [pools EXCEPT ![pool] = [l \in Low |-> IF l = ItAsid THEN root ELSE Null]]
  /\ set_asid_pool_by_index(HighOf(ItAsid), pool)

InitialThread(h, pool, root) ==
  /\ Active(h) /\ ~ booted
  /\ booted' = TRUE
  /\ write_it_asid_pool(pool, root)
  /\ caps' = {[root |-> root, asid |-> ItAsid]}
  /\ poolCaps' = {<<HighOf(ItAsid), pool>>}
  /\ UNCHANGED <<ttbr0, flush, poolCopies>>

\* A caller makes a new, zeroed pool, of an object that no capability names, for
\* an index that has none.
InstallPool(h, index, pool) ==
  /\ Running(h)
  /\ armKSASIDTable[index] = Null
  /\ \A c \in poolCaps \cup poolCopies : c[2] # pool
  /\ set_asid_pool_by_index(index, pool)
  /\ pools' = [pools EXCEPT ![pool] = [l \in Low |-> Null]]
  /\ poolCaps' = poolCaps \cup {<<index, pool>>}
  /\ UNCHANGED <<ttbr0, flush, caps, poolCopies, booted>>

\* A caller gives a root that has no ASID a free entry of an installed pool.
AssignAsid(h, asid, root) ==
  LET pool == armKSASIDTable[HighOf(asid)]
  IN  /\ Running(h)
      /\ asid # NoAsid
      /\ pool # Null
      /\ pools[pool][LowOf(asid)] = Null
      /\ \A c \in caps : c.root # root
      /\ SetEntry(pool, LowOf(asid), root)
      /\ caps' = caps \cup {[root |-> root, asid |-> asid]}
      /\ UNCHANGED <<armKSASIDTable, ttbr0, flush, poolCaps, poolCopies, booted>>

\* A thread is switched to: its root may be any capability, a stale one too.
SwitchThread(h, cap) ==
  /\ Running(h)
  /\ UNCHANGED <<tables, flush, caps, poolCaps, poolCopies, booted>>
  /\ set_vm_root(h, cap)

\* Mutant of delete_asid: the entry is cleared whoever owns it.
delete_asid_unchecked(h, asid, vspace, default) ==
  LET pool == armKSASIDTable[HighOf(asid)]
  IN  IF pool # Null
      THEN /\ SetEntry(pool, LowOf(asid), Null)
           /\ UNCHANGED armKSASIDTable
           /\ set_vm_root(h, default)
      ELSE UNCHANGED <<tables, ttbr0>>

\* delete_asid(asid, vspace, capability): only the entry that still names
\* vspace is cleared.  set_vm_root then sees the table without it.
delete_asid(h, asid, vspace, default) ==
  LET pool == armKSASIDTable[HighOf(asid)]
  IN  IF pool # Null /\ pools[pool][LowOf(asid)] = vspace
      THEN /\ SetEntry(pool, LowOf(asid), Null)
           /\ UNCHANGED armKSASIDTable
           /\ set_vm_root(h, default)
      ELSE UNCHANGED <<tables, ttbr0>>

\* The capability goes with its ASID; default is the current thread's root,
\* which may be the capability that goes.
DeleteAsid(h, cap, default) ==
  /\ Running(h)
  /\ delete_asid(h, cap.asid, cap.root, default)
  /\ caps' = caps \ {cap}
  /\ UNCHANGED <<flush, poolCaps, poolCopies, booted>>

\* Mutants of delete_asid_pool: the table keeps pointing to the pool; whichever pool
\* the index has goes.
delete_asid_pool_keeps_index(h, asid_base, pool, default) ==
  UNCHANGED tables /\ set_vm_root(h, default)

delete_asid_pool_unchecked(h, asid_base, pool, default) ==
  /\ set_asid_pool_by_index(HighOf(asid_base), Null)
  /\ UNCHANGED pools
  /\ set_vm_root(h, default)

\* delete_asid_pool(asid_base, pool, default): after the TLB flush of every ASID
\* it holds; the pool keeps its entries.
delete_asid_pool(h, asid_base, pool, default) ==
  IF armKSASIDTable[HighOf(asid_base)] = pool
  THEN /\ set_asid_pool_by_index(HighOf(asid_base), Null)
       /\ UNCHANGED pools
       /\ set_vm_root(h, default)
  ELSE UNCHANGED <<tables, ttbr0>>

\* The capability goes, but one that was copied from it may stay, for a pool that
\* is not at that index any more.
DeleteAsidPool(h, index, pool, copied, default) ==
  /\ Running(h)
  /\ delete_asid_pool(h, index * LowSize, pool, default)
  /\ poolCaps' = poolCaps \ {<<index, pool>>}
  /\ poolCopies' = IF copied THEN poolCopies \cup {<<index, pool>>}
                             ELSE poolCopies \ {<<index, pool>>}
  /\ UNCHANGED <<flush, caps, booted>>

\* A caller flushes caches in a space whose ASID it has just looked up ...
BeginFlush(h, cap, thread) ==
  /\ Running(h)
  /\ find_vspace_for_asid(cap.asid) = cap.root
  /\ set_vm_root_for_flush_with_thread_root(h, cap, thread)
  /\ UNCHANGED <<tables, caps, poolCaps, poolCopies, booted>>

\* ... and goes back to the current thread's root if it was moved.
EndFlush ==
  /\ flush # Null
  /\ UNCHANGED <<tables, caps, poolCaps, poolCopies, booted>>
  /\ IF flush.switched THEN set_vm_root(flush.hart, flush.thread) ELSE UNCHANGED ttbr0
  /\ flush' = Null

ThreadRoots == caps \cup {NonVSpaceCap}

Next ==
  \/ \E h \in Harts :
       \/ ActivateKernel(h)
       \/ \E p \in Pools, r \in Roots : InitialThread(h, p, r)
       \/ \E i \in High, p \in Pools : InstallPool(h, i, p)
       \/ \E a \in Asids, r \in Roots : AssignAsid(h, a, r)
       \/ \E c \in ThreadRoots : SwitchThread(h, c)
       \/ \E c \in caps, d \in ThreadRoots : DeleteAsid(h, c, d)
       \/ \E c \in poolCaps \cup poolCopies, copied \in BOOLEAN, d \in ThreadRoots :
            DeleteAsidPool(h, c[1], c[2], copied, d)
       \/ \E c \in caps, t \in ThreadRoots : BeginFlush(h, c, t)
  \/ EndFlush

Spec == Init /\ [][Next]_vars

------------------------------------------------------------------------------
BoundTo(asid, root) == find_vspace_for_asid(asid) = root

\* An ASID resolves only while the capability of the root it resolves to
\* exists, through a pool whose capability exists: neither delete_asid nor
\* delete_asid_pool leaves a binding behind for a freed root or a freed pool.
NothingOutlivesItsCap ==
  /\ \A i \in High :
       armKSASIDTable[i] # Null => <<i, armKSASIDTable[i]>> \in poolCaps
  /\ \A a \in Asids, r \in Roots :
       BoundTo(a, r) => [root |-> r, asid |-> a] \in caps

\* Outside a flush no hart is left on an address that is not a physical one,
\* though every flush of another thread's space puts one there.
HartsAreOnPhysicalRoots ==
  flush = Null => \A h \in Harts : ttbr0[h] # Null => ttbr0[h].addr = "paddr"

\* Deleting a capability whose ASID has since been given to another root, or a
\* pool whose index has, leaves the new owner alone.
StaleDeleteHarmless ==
  [][\A a \in Asids, r \in Roots :
        BoundTo(a, r) /\ ~ BoundTo(a, r)' =>
          \/ [root |-> r, asid |-> a] \notin caps'
          \/ <<HighOf(a), armKSASIDTable[HighOf(a)]>> \notin poolCaps']_vars

\* No hart goes to a root, at a thread switch or at the end of a flush, by a
\* capability whose ASID belongs to another root by then.
ReassignedAsidFallsBack ==
  [][\A h \in Harts, c \in caps :
        /\ ttbr0'[h] # ttbr0[h]
        /\ ttbr0'[h] = ttbr_new(NoAsid, "paddr", c.root)
        => find_vspace_for_asid(c.asid)' \in {Null, c.root}]_vars

\* The code's table and pools implement the map of AsidMap.
AbstractMap == INSTANCE AsidMap WITH
  NoRoot <- Null,
  Blocks <- {{a \in Asids : HighOf(a) = i} : i \in High},
  vspaceOf <- [a \in Asids |-> find_vspace_for_asid(a)]

ImplementsAsidMap == AbstractMap!Spec

\* What the doc of set_vm_root says of a root that is not legal: the hart does
\* not run on it, but falls back.
IllegalRootFallsBack ==
  [][\A h \in Harts, c \in caps :
        /\ ttbr0'[h] # ttbr0[h]
        /\ ttbr0'[h] = ttbr_new(NoAsid, "paddr", c.root)
        => BoundTo(c.asid, c.root)']_vars
==============================================================================
