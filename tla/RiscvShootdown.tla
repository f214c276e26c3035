--------------------------- MODULE RiscvShootdown ---------------------------
(***************************************************************************)
(* How a change of a page table entry reaches every hart (enable_smp).     *)
(*                                                                         *)
(*   src/arch/riscv64/satp.rs       sfence, sfence_local, set_vspace_root  *)
(*   src/arch/riscv64/pte.rs        update                                 *)
(*   src/arch/riscv64/pagetable.rs  unmap_page                             *)
(*   src/arch/riscv64/asid.rs       hw_asid_flush in delete_asid           *)
(*                                                                         *)
(* One entry of one address space, at the grain of instructions.  The hart *)
(* in the kernel holds its lock; its store sits in a buffer until it       *)
(* drains; every hart that runs in the space refills its TLB at any time,  *)
(* with what memory holds, empty entries too.                              *)
(***************************************************************************)
EXTENDS Naturals

CONSTANTS
  Harts,     \* the harts
  Frames,    \* what the entry may map
  NoFrame,   \* the value of an empty entry
  None       \* no hart, no store

Values == Frames \cup {NoFrame}

ASSUME RiscvShootdownAssumption ==
  /\ NoFrame \notin Frames
  /\ None \notin Harts \cup Values

VARIABLES
  pte,      \* the entry in memory
  buffer,   \* buffer[h]: the store of h that has not reached memory, or None
  tlb,      \* tlb[h]: the values of the entry cached on h
  active,   \* active[h]: does satp of h name the space
  bound,    \* does the ASID resolve to the space
  lock,     \* the hart in the kernel, or None
  pc,       \* what the hart in the kernel does next
  goal,     \* the value it writes
  pending   \* the harts that have not answered remote_sfence_vma

entry  == <<pte, buffer>>
kernel == <<lock, pc, goal, pending>>
vars   == <<pte, buffer, tlb, active, bound, lock, pc, goal, pending>>

\* Also where the operation stands: only a hart in the kernel is in the middle
\* of one, and answers are awaited nowhere but in remote_sfence_vma.
TypeOK ==
  /\ pte \in Values
  /\ buffer \in [Harts -> Values \cup {None}]
  /\ tlb \in [Harts -> SUBSET Values]
  /\ active \in [Harts -> BOOLEAN]
  /\ bound \in BOOLEAN
  /\ lock \in Harts \cup {None}
  /\ pc \in {"idle", "store", "fence", "local", "remote", "wait"}
  /\ goal \in Values
  /\ pending \subseteq Harts
  /\ lock = None <=> pc = "idle"
  /\ pending # {} => pc = "wait"

Init ==
  /\ pte = NoFrame
  /\ buffer = [h \in Harts |-> None]
  /\ tlb = [h \in Harts |-> {}]
  /\ active = [h \in Harts |-> FALSE]
  /\ bound = FALSE
  /\ lock = None
  /\ pc = "idle"
  /\ goal = NoFrame
  /\ pending = {}

------------------------------------------------------------------------------
(* Operations that are one step under the lock.                            *)

\* A caller clears the root and gives it an ASID again.  Nothing in the crate looks
\* whether a hart still runs in the space, as one can once its ASID is gone: that the
\* root is cleared only when none does is assumed of the caller.
BindSpace ==
  /\ lock = None /\ ~ bound
  /\ \A h \in Harts : ~ active[h]
  /\ bound' = TRUE
  /\ pte' = NoFrame
  /\ UNCHANGED <<buffer, tlb, active, kernel>>

\* Mutant of set_vspace_root: satp is written and not fenced.
set_vspace_root_unfenced(h, in) ==
  /\ active' = [active EXCEPT ![h] = in]
  /\ UNCHANGED tlb

\* satp is written, then sfence_local.
set_vspace_root(h, in) ==
  /\ active' = [active EXCEPT ![h] = in]
  /\ tlb' = [tlb EXCEPT ![h] = {}]

\* set_vm_root: a hart switches to a thread of the space, or away from the space.  A
\* root whose ASID is gone is installed like any other, after the kernel's.
SwitchThread(h, in) ==
  /\ lock = None
  /\ set_vspace_root(h, in)
  /\ UNCHANGED <<entry, bound, kernel>>

\* delete_asid: hw_asid_flush on this hart only, the binding goes, and
\* set_vm_root to the current thread's root, another space's or this one's.
DeleteAsid(h, in) ==
  /\ lock = None
  /\ bound
  /\ bound' = FALSE
  /\ set_vspace_root(h, in)
  /\ UNCHANGED <<entry, kernel>>

------------------------------------------------------------------------------
(* Changing the entry: one store, then sfence().                           *)

\* unmap_page: where it does not return early, for want of a space or a frame.
UnmapPage(h) ==
  /\ lock = None
  /\ bound
  /\ pte \in Frames
  /\ lock' = h /\ pc' = "store" /\ goal' = NoFrame
  /\ UNCHANGED <<entry, tlb, active, bound, pending>>

\* PTE::update, by a caller that found the entry empty.
MapPage(h, frame) ==
  /\ lock = None
  /\ bound
  /\ pte = NoFrame
  /\ lock' = h /\ pc' = "store" /\ goal' = frame
  /\ UNCHANGED <<entry, tlb, active, bound, pending>>

Store(h) ==
  /\ lock = h /\ pc = "store"
  /\ buffer' = [buffer EXCEPT ![h] = goal]
  /\ pc' = "fence"
  /\ UNCHANGED <<pte, tlb, active, bound, lock, goal, pending>>

\* Mutant of FenceWRW: sfence without its first instruction.
FenceWRW_missing(h) ==
  /\ lock = h /\ pc = "fence"
  /\ pc' = "local"
  /\ UNCHANGED <<entry, tlb, active, bound, lock, goal, pending>>

\* fence w, rw: the earlier store is in memory before what follows.
FenceWRW(h) ==
  /\ lock = h /\ pc = "fence"
  /\ buffer[h] = None
  /\ pc' = "local"
  /\ UNCHANGED <<entry, tlb, active, bound, lock, goal, pending>>

\* sfence_local.
SfenceLocal(h) ==
  /\ lock = h /\ pc = "local"
  /\ tlb' = [tlb EXCEPT ![h] = {}]
  /\ pc' = "remote"
  /\ UNCHANGED <<entry, active, bound, lock, goal, pending>>

\* remote_sfence_vma to every other hart.
RemoteSfence(h) ==
  /\ lock = h /\ pc = "remote"
  /\ pending' = Harts \ {h}
  /\ pc' = "wait"
  /\ UNCHANGED <<entry, tlb, active, bound, lock, goal>>

\* The firmware of another hart fences for it, and answers.
RemoteFenced(r) ==
  /\ r \in pending
  /\ tlb' = [tlb EXCEPT ![r] = {}]
  /\ pending' = pending \ {r}
  /\ UNCHANGED <<entry, active, bound, lock, pc, goal>>

\* Mutant of Return: as long as one hart has not answered, all are asked again.
Return_asks_again(h) ==
  /\ lock = h /\ pc = "wait"
  /\ IF pending = {} THEN lock' = None /\ pc' = "idle" ELSE lock' = h /\ pc' = "remote"
  /\ UNCHANGED <<entry, tlb, active, bound, goal, pending>>

\* Mutant of Return: the call does not wait for the answers.
Return_early(h) ==
  /\ lock = h /\ pc = "wait"
  /\ lock' = None /\ pc' = "idle"
  /\ UNCHANGED <<entry, tlb, active, bound, goal, pending>>

\* The call returns when every hart has answered, and the operation with it.
Return(h) ==
  /\ lock = h /\ pc = "wait"
  /\ pending = {}
  /\ lock' = None /\ pc' = "idle"
  /\ UNCHANGED <<entry, tlb, active, bound, goal, pending>>

------------------------------------------------------------------------------
(* The hardware.                                                           *)

Drain(h) ==
  /\ buffer[h] # None
  /\ pte' = buffer[h]
  /\ buffer' = [buffer EXCEPT ![h] = None]
  /\ UNCHANGED <<tlb, active, bound, kernel>>

\* A walker reads memory, or the store its own hart has not drained yet.
TlbFill(h) ==
  /\ active[h]
  /\ \E v \in {pte, buffer[h]} \ {None} : tlb' = [tlb EXCEPT ![h] = @ \cup {v}]
  /\ UNCHANGED <<entry, active, bound, kernel>>

Operation(h) ==
  Store(h) \/ FenceWRW(h) \/ SfenceLocal(h) \/ RemoteSfence(h) \/ Return(h)

Next ==
  \/ BindSpace
  \/ \E h \in Harts :
       \/ \E in \in BOOLEAN : SwitchThread(h, in) \/ DeleteAsid(h, in)
       \/ UnmapPage(h)
       \/ \E f \in Frames : MapPage(h, f)
       \/ Operation(h)
       \/ RemoteFenced(h)
       \/ Drain(h)
       \/ TlbFill(h)

\* Instructions are executed, buffers drain and the firmware of every hart
\* answers; nobody has to start an operation.
Fairness ==
  \A h \in Harts : WF_vars(Operation(h)) /\ WF_vars(Drain(h)) /\ WF_vars(RemoteFenced(h))

Spec == Init /\ [][Next]_vars
FairSpec == Spec /\ Fairness

------------------------------------------------------------------------------
\* When no operation is under way, no hart holds a value of the entry other
\* than the one in memory: unmap_page does not return while a hart can still
\* reach the frame, nor update() while one can still fault on the page.
CoherentBetweenOperations ==
  lock = None => \A h \in Harts : buffer[h] = None /\ tlb[h] \subseteq {pte}

\* A hart that has left the space caches nothing of it, so that its next visit
\* to the ASID, then perhaps bound to a new space, starts clean.
NothingCachedOutside == \A h \in Harts : ~ active[h] => tlb[h] = {}

\* Every operation on an entry returns, though it waits for all the harts.
OperationsReturn == \A h \in Harts : lock = h ~> lock = None

\* The doc of hw_asid_flush says it clears the TLB entries of the ASID: once
\* delete_asid has returned, no TLB holds any.
DeletedAsidNotCached ==
  [][bound /\ ~ bound' => \A h \in Harts : tlb'[h] = {}]_vars
==============================================================================
