-------------------------------- MODULE ArmTlb --------------------------------
(***************************************************************************)
(* TTBR0, TTBR1 and the TLB of each AArch64 processor, instruction by      *)
(* instruction.                                                            *)
(*                                                                         *)
(*   src/arch/aarch64/machine.rs    set_current_*_vspace_root, *_local_tlb* *)
(*   src/arch/aarch64/interface.rs  invalidate_tlb_by_asid*, set_vm_root,  *)
(*                                  activate_kernel_vspace, unmap_page     *)
(*   src/arch/aarch64/asid.rs       delete_asid, delete_asid_pool          *)
(*                                                                         *)
(* Each function is the sequence of the instructions that it executes and  *)
(* an operation puts the sequences of its calls one after the other.       *)
(* Three things are slower than the code reads: a register that is written *)
(* may be walked with its old value until an isb; an invalidation may take *)
(* effect as late as the next dsb; the walker of a processor adds entries  *)
(* at any time.  A space is one entry; entries that map nothing are never  *)
(* cached.  ASIDs are named by the space that they are given to.           *)
(***************************************************************************)
EXTENDS Naturals, SequencesExt

CONSTANTS
  Procs,     \* the processors
  Spaces,    \* root page tables of user spaces, and their ASIDs
  Global,    \* armKSGlobalUserVSpace
  Kernel,    \* armKSGlobalKernelPGD
  Boot,      \* the tables that the boot loader left, in both registers
  Frames,    \* what an entry may map
  BootFrame, \* what the boot loader's tables map
  None       \* an empty entry, no processor, no invalidation, no space

\* The ASID that set_vm_root writes to TTBR0, and the operand of vmalle1.
NoAsid == 0
All    == 1
Roots  == Spaces \cup {Global, Kernel, Boot}
TTBR   == [root : Roots, asid : {NoAsid} \cup Spaces]
Entry  == [root : Roots, asid : {NoAsid} \cup Spaces, frame : Frames \cup {BootFrame}]

\* What has a name of its own is nothing else.
ASSUME ArmTlbAssumption ==
  /\ IsFiniteSet(Spaces)
  /\ {Global, Kernel, Boot} \cap Spaces = {}
  /\ Global # Kernel /\ Global # Boot /\ Kernel # Boot
  /\ {NoAsid, All} \cap Spaces = {}
  /\ None \notin Procs \cup Roots \cup Frames \cup {BootFrame, NoAsid, All}

VARIABLES
  pte,       \* pte[r]: what the entry of the space r maps
  bound,     \* the spaces whose ASID resolves
  caps,      \* the spaces that still have a capability
  ttbr,      \* ttbr[p]: the values of TTBR0 and TTBR1
  unsynced,  \* unsynced[p]: earlier values that p may still walk
  tlb,       \* tlb[p]: the cached entries
  tlbi,      \* the invalidation that has not taken effect, or None
  lock,      \* the processor in the kernel, or None
  program,   \* the instructions that it has yet to execute
  leaving,   \* the space that this operation switches away from, or None
  pending    \* the processors that have not answered a remote invalidation

spaces == <<pte, bound, caps>>
vars   == <<pte, bound, caps, ttbr, unsynced, tlb, tlbi, lock, program, leaving, pending>>

Instruction ==
  {"dsb", "isb"} \X {None}
    \cup {"ttbr0", "ttbr1"} \X TTBR
    \cup {"tlbi", "remote", "wait"} \X ({All} \cup Spaces)
    \cup {"store"} \X (Spaces \X (Frames \cup {None}))

TypeOK ==
  /\ pte \in [Roots -> Frames \cup {BootFrame, None}]
  /\ bound \subseteq caps /\ caps \subseteq Spaces
  /\ ttbr \in [Procs -> [{"ttbr0", "ttbr1"} -> TTBR]]
  /\ unsynced \in [Procs -> SUBSET TTBR]
  /\ tlb \in [Procs -> SUBSET Entry]
  /\ tlbi \in {None, All} \cup Spaces
  /\ lock \in Procs \cup {None}
  /\ program \in Seq(Instruction)
  /\ leaving \in Roots \cup {None}
  /\ pending \subseteq Procs
  /\ lock = None => program = <<>> /\ tlbi = None /\ leaving = None

\* asid | root: no space is known to be where its ASID says.
ttbr_new(asid, root) == [root |-> root, asid |-> asid]

Init ==
  /\ pte = [r \in Roots |-> IF r = Boot THEN BootFrame ELSE None]
  /\ bound = {} /\ caps = {}
  /\ ttbr = [p \in Procs |-> [r \in {"ttbr0", "ttbr1"} |-> ttbr_new(NoAsid, Boot)]]
  /\ unsynced = [p \in Procs |-> {}]
  /\ tlb = [p \in Procs |-> {}]
  /\ tlbi = None
  /\ lock = None /\ program = <<>> /\ leaving = None
  /\ pending = {}

------------------------------------------------------------------------------
(* What each function executes.                                            *)

dsb == <<"dsb", None>>
isb == <<"isb", None>>
Tlbi(which) == <<"tlbi", which>>

\* Mutants of set_current_user_vspace_root: no invalidation; no wait for it; the
\* register is not synchronised.
set_current_user_vspace_root_keeps_tlb(val) == <<<<"ttbr0", val>>, dsb, isb>>
set_current_user_vspace_root_no_dsb(val) == <<<<"ttbr0", val>>, Tlbi(All), isb>>
set_current_user_vspace_root_no_isb(val) == <<<<"ttbr0", val>>, Tlbi(All), dsb>>

set_current_kernel_vspace_root(val) == <<<<"ttbr1", val>>, dsb, isb>>
set_current_user_vspace_root(val)   == <<<<"ttbr0", val>>, Tlbi(All), dsb, isb>>

invalidate_local_tlb           == <<dsb, Tlbi(All), dsb, isb>>
invalidate_local_tlb_asid(asid) == <<dsb, Tlbi(asid), dsb, isb>>

\* A space has one address here.
invalidate_local_tlb_va_asid(asid) == <<dsb, Tlbi(asid), dsb, isb>>

\* With enable_smp: asks the others, waits until they have done it.
invalidate_tlb_by_asid(asid) ==
  invalidate_local_tlb_asid(asid) \o <<<<"remote", asid>>, <<"wait", asid>>>>
invalidate_tlb_by_asid_va(asid) ==
  invalidate_local_tlb_va_asid(asid) \o <<<<"remote", asid>>, <<"wait", asid>>>>

\* The bare address of the root, whatever the ASID; also what is installed for
\* a root whose ASID no longer resolves.
set_vm_root(root) == set_current_user_vspace_root(ttbr_new(NoAsid, root))

\* Mutant of activate_kernel_vspace: it relies on the flush that comes with TTBR0.
activate_kernel_vspace_one_flush ==
  set_current_kernel_vspace_root(ttbr_new(NoAsid, Kernel))
    \o set_current_user_vspace_root(ttbr_new(NoAsid, Global))

\* After the cleaning of the caches.
activate_kernel_vspace ==
  set_current_kernel_vspace_root(ttbr_new(NoAsid, Kernel))
    \o set_current_user_vspace_root(ttbr_new(NoAsid, Global))
    \o invalidate_local_tlb

\* PTE::update, the second store of the same value left out.
update(s, frame) == <<<<"store", <<s, frame>>>>>>

------------------------------------------------------------------------------
(* Operations: what the tables say changes at once, under the lock.        *)

Active(p) == ttbr[p]["ttbr0"].root # Boot

Enter(p, instructions, from) ==
  /\ lock = None
  /\ lock' = p /\ program' = instructions /\ leaving' = from
  /\ UNCHANGED <<ttbr, unsynced, tlb, tlbi, pending>>

Switch(p, before, root) ==
  Active(p) /\ Enter(p, before \o set_vm_root(root), ttbr[p]["ttbr0"].root)

ActivateKernel(p) ==
  /\ ~ Active(p)
  /\ Enter(p, activate_kernel_vspace, Boot)
  /\ UNCHANGED spaces

\* A caller clears a root that has no capability and gives it an ASID.
BindSpace(s) ==
  /\ lock = None
  /\ s \notin caps
  /\ bound' = bound \cup {s} /\ caps' = caps \cup {s}
  /\ pte' = [pte EXCEPT ![s] = None]
  /\ UNCHANGED <<ttbr, unsynced, tlb, tlbi, lock, program, leaving, pending>>

SwitchThread(p, root) == Switch(p, <<>>, root) /\ UNCHANGED spaces

\* Of this processor only; then the current thread's root is installed again.
DeleteAsid(p, s, default) ==
  /\ IF s \in bound
     THEN Switch(p, invalidate_local_tlb_asid(s), default)
     ELSE Active(p) /\ Enter(p, <<>>, None)
  /\ bound' = bound \ {s} /\ caps' = caps \ {s}
  /\ UNCHANGED pte

\* Every space is in one pool here, in any order; each is invalidated in turn.
DeleteAsidPool(p, default) ==
  /\ bound # {}
  /\ \E flushed \in SetToSeqs(bound) :
       LET Turn(n) == invalidate_local_tlb_asid(flushed[(n + 3) \div 4])
       IN  Switch(p, [n \in 1 .. 4 * Len(flushed) |-> Turn(n)[((n - 1) % 4) + 1]], default)
  /\ bound' = {}
  /\ UNCHANGED <<pte, caps>>

\* A frame is mapped where there is none, without any invalidation.
MapPage(p, s, frame) ==
  /\ Active(p) /\ s \in bound /\ pte[s] = None
  /\ Enter(p, update(s, frame), None)
  /\ UNCHANGED spaces

\* Or over a mapping, of another frame or with other rights, which the caller
\* then invalidates by its address.
RemapPage(p, s, frame) ==
  /\ Active(p) /\ s \in bound /\ pte[s] # None
  /\ Enter(p, update(s, frame) \o invalidate_tlb_by_asid_va(s), None)
  /\ UNCHANGED spaces

\* unmap_page, and likewise unmap_page_table, where they do not return early.
UnmapPage(p, s) ==
  /\ Active(p) /\ s \in bound /\ pte[s] # None
  /\ Enter(p, update(s, None) \o invalidate_tlb_by_asid(s), None)
  /\ UNCHANGED spaces

------------------------------------------------------------------------------
(* The processor.                                                          *)

At(p, name) ==
  /\ lock = p /\ program # <<>> /\ Head(program)[1] = name
  /\ program' = Tail(program)
Operand == Head(program)[2]

WriteTTBR(p, register) ==
  /\ At(p, register)
  /\ unsynced' = [unsynced EXCEPT ![p] = @ \cup {ttbr[p][register]}]
  /\ ttbr' = [ttbr EXCEPT ![p][register] = Operand]
  /\ UNCHANGED <<spaces, tlb, tlbi, lock, leaving, pending>>

IssueTlbi(p) ==
  /\ At(p, "tlbi")
  /\ tlbi' = Operand
  /\ UNCHANGED <<spaces, ttbr, unsynced, tlb, lock, leaving, pending>>

Without(entries, asid) ==
  IF asid = All THEN {} ELSE {e \in entries : e.asid # asid}

\* The invalidation takes effect ...
CompleteTlbi(p) ==
  /\ lock = p /\ tlbi # None
  /\ tlb' = [tlb EXCEPT ![p] = Without(@, tlbi)]
  /\ tlbi' = None
  /\ UNCHANGED <<spaces, ttbr, unsynced, lock, program, leaving, pending>>

\* ... before a dsb ends.
Dsb(p) ==
  /\ At(p, "dsb")
  /\ tlbi = None
  /\ UNCHANGED <<spaces, ttbr, unsynced, tlb, tlbi, lock, leaving, pending>>

Isb(p) ==
  /\ At(p, "isb")
  /\ unsynced' = [unsynced EXCEPT ![p] = {}]
  /\ UNCHANGED <<spaces, ttbr, tlb, tlbi, lock, leaving, pending>>

Store(p) ==
  /\ At(p, "store")
  /\ pte' = [pte EXCEPT ![Operand[1]] = Operand[2]]
  /\ UNCHANGED <<bound, caps, ttbr, unsynced, tlb, tlbi, lock, leaving, pending>>

\* Mutant of RemoteInvalidate: the caller is asked too, and cannot answer.
RemoteInvalidate_all(p) ==
  /\ At(p, "remote")
  /\ pending' = {q \in Procs : Active(q)}
  /\ UNCHANGED <<spaces, ttbr, unsynced, tlb, tlbi, lock, leaving>>

\* remote_invalidate_tlb_asid and remote_invalidate_translation_single.
RemoteInvalidate(p) ==
  /\ At(p, "remote")
  /\ pending' = {q \in Procs \ {p} : Active(q)}
  /\ UNCHANGED <<spaces, ttbr, unsynced, tlb, tlbi, lock, leaving>>

\* Another processor, interrupted, executes invalidate_local_tlb_asid.
RemoteAnswer(q) ==
  /\ q \in pending \ {lock}
  /\ tlb' = [tlb EXCEPT ![q] = Without(@, Operand)]
  /\ pending' = pending \ {q}
  /\ UNCHANGED <<spaces, ttbr, unsynced, tlbi, lock, program, leaving>>

Wait(p) ==
  /\ At(p, "wait")
  /\ pending = {}
  /\ UNCHANGED <<spaces, ttbr, unsynced, tlb, tlbi, lock, leaving, pending>>

Return(p) ==
  /\ lock = p /\ program = <<>>
  /\ lock' = None /\ leaving' = None
  /\ UNCHANGED <<spaces, ttbr, unsynced, tlb, tlbi, program, pending>>

\* A walk from either register, or from an earlier value of it.
TlbFill(p) ==
  /\ \E v \in {ttbr[p]["ttbr0"], ttbr[p]["ttbr1"]} \cup unsynced[p] :
       /\ pte[v.root] # None
       /\ tlb' = [tlb EXCEPT ![p] =
                    @ \cup {[root |-> v.root, asid |-> v.asid, frame |-> pte[v.root]]}]
  /\ UNCHANGED <<spaces, ttbr, unsynced, tlbi, lock, program, leaving, pending>>

Execute(p) ==
  \/ \E r \in {"ttbr0", "ttbr1"} : WriteTTBR(p, r)
  \/ IssueTlbi(p) \/ Dsb(p) \/ Isb(p) \/ Store(p)
  \/ RemoteInvalidate(p) \/ Wait(p) \/ Return(p)

Next ==
  \/ \E s \in Spaces : BindSpace(s)
  \/ \E p \in Procs :
       \/ ActivateKernel(p)
       \/ \E r \in caps \cup {Global} :
            \/ SwitchThread(p, r)
            \/ \E s \in caps : DeleteAsid(p, s, r)
            \/ DeleteAsidPool(p, r)
       \/ \E s \in Spaces :
            \/ \E f \in Frames : MapPage(p, s, f) \/ RemapPage(p, s, f)
            \/ UnmapPage(p, s)
       \/ Execute(p) \/ CompleteTlbi(p) \/ RemoteAnswer(p) \/ TlbFill(p)

Spec == Init /\ [][Next]_vars

\* Instructions are executed, invalidations complete and the other processors
\* answer; nobody has to start an operation.
FairSpec ==
  /\ Spec
  /\ \A p \in Procs : WF_vars(Execute(p)) /\ WF_vars(CompleteTlbi(p)) /\ WF_vars(RemoteAnswer(p))

------------------------------------------------------------------------------
\* p has finished an operation that moved it from one space to another.
Switched(p) == lock = p /\ lock' = None /\ leaving # None

\* What the flush in set_current_user_vspace_root achieves, though every space
\* has ASID 0 and the old tables may be walked between the flush and the isb:
\* a processor that has switched holds entries of the space it is in and of the
\* one it has just left, and of no space that it was in before that.
SwitchForgetsEarlierSpaces ==
  [][\A p \in Procs : Switched(p) =>
        \A e \in tlb[p] : e.root \in {ttbr[p]["ttbr0"].root, leaving}]_vars

\* The invalidation by ASID in unmap_page and delete_asid misses entries that
\* are all cached under ASID 0, and in the latter the other processors: what
\* makes an unmapped page unreachable from a processor is its next switch, after
\* which it holds only translations that the tables still have.
SwitchForgetsUnmappedPages ==
  [][\A p \in Procs : Switched(p) => \A e \in tlb[p] : e.frame = pte[e.root]]_vars

\* activate_kernel_vspace leaves no translation of the boot loader's tables
\* behind, neither of those in TTBR0 nor of those in TTBR1.
BootTablesForgotten ==
  \A p \in Procs : Active(p) /\ lock # p => \A e \in tlb[p] : e.root # Boot

\* Every operation returns, though invalidate_tlb_by_asid waits for the others.
OperationsReturn == \A p \in Procs : lock = p ~> lock = None
===============================================================================
