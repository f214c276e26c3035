----------------------------- MODULE ArmBootProofs -----------------------------
(***************************************************************************)
(* What the AArch64 kernel guarantees from the first line of               *)
(* rust_map_kernel_window on: of its ASID table, for any number of harts,  *)
(* roots, pools and ASIDs, and of its own page tables, for every size of   *)
(* the tables, place of the image and list of devices that the assumption  *)
(* of ArmBoot allows.                                                      *)
(*                                                                         *)
(* The ASID table is argued about as in RiscvBootProofs: the callers keep  *)
(* the capabilities disjoint (CapsDisjoint), so that an entry that is      *)
(* cleared through one index of the table is read through no other.  New   *)
(* is what a cache flush leaves open between its two steps: the thread     *)
(* that it goes back to, and the register that it has borrowed.            *)
(*                                                                         *)
(* For the page tables an address is taken apart into its four indices; a  *)
(* loop invariant says how many entries each loop has written.             *)
(***************************************************************************)
EXTENDS ArmBoot, TLAPS

------------------------------------------------------------------------------
(* The ASID table, ArmAsid.                                                *)

\* A root has one ASID at a time and a pool serves one index at a time.
CapsDisjoint ==
  /\ \A c, d \in caps : c.root = d.root => c = d
  /\ \A c, d \in poolCaps : c[2] = d[2] => c = d

\* A hart is off the physical roots only while a flush has moved it, and the
\* flush knows.
FlushKnows ==
  \A h \in Harts : ttbr0[h] # Null /\ ttbr0[h].addr # "paddr" =>
    flush # Null /\ flush.hart = h /\ flush.switched

\* The thread that a flush goes back to still has its capability.
FlushComesBack == flush # Null => booted /\ flush.thread \in ThreadRoots

\* The table points only to pools whose capability exists, at their index.
TableBacked ==
  \A i \in High : armKSASIDTable[i] # Null => <<i, armKSASIDTable[i]>> \in poolCaps

\* An ASID resolves only to a root whose capability names that ASID.
BindingBacked ==
  \A a \in Asids, r \in Roots : BoundTo(a, r) => [root |-> r, asid |-> a] \in caps

\* The table is empty until the initial thread has its ASID.
EmptyBeforeBoot == ~ booted => \A i \in High : armKSASIDTable[i] = Null

\* The inductive invariant.
IInv ==
  /\ TypeOK
  /\ CapsDisjoint
  /\ FlushKnows
  /\ FlushComesBack
  /\ TableBacked
  /\ BindingBacked
  /\ EmptyBeforeBoot

------------------------------------------------------------------------------
\* An ASID splits into an index of the table and an index of a pool.
LEMMA AsidSplit ==
  ASSUME NEW a \in Asids
  PROVE  /\ HighOf(a) \in High
         /\ LowOf(a) \in Low
         /\ a = HighOf(a) * LowSize + LowOf(a)
BY ArmAsidAssumption, SMT DEF HighOf, LowOf, High, Low, Asids

\* Two ASIDs with the same indices are the same ASID.
LEMMA AsidInjective ==
  ASSUME NEW a \in Asids, NEW b \in Asids,
         HighOf(a) = HighOf(b), LowOf(a) = LowOf(b)
  PROVE  a = b
BY AsidSplit

\* write_it_asid_pool indexes the pool by IT_ASID itself: its low bits are all
\* of it, and its index is 0.
LEMMA ItAsidIsAsid ==
  ItAsid \in Asids /\ HighOf(ItAsid) = 0 /\ LowOf(ItAsid) = ItAsid
BY ArmAsidAssumption, SMT DEF HighOf, LowOf, Low, Asids

\* The base ASID that delete_asid_pool is given is that of its index.
LEMMA BaseIndex ==
  ASSUME NEW i \in High
  PROVE  HighOf(i * LowSize) = i
BY ArmAsidAssumption, SMT DEF HighOf, High

------------------------------------------------------------------------------
\* Switching the address space of a hart keeps the type of its register.
LEMMA SetVmRootType ==
  ASSUME TypeOK, NEW h \in Harts, NEW c \in Space \cup {NonVSpaceCap}, set_vm_root(h, c)
  PROVE  ttbr0' \in [Harts -> TTBR \cup {Null}]
<1>1. c = NonVSpaceCap \/ c.root \in Roots
  BY DEF Space
<1>2. GlobalTTBR \in TTBR
  BY DEF GlobalTTBR, ttbr_new, TTBR
<1>3. c.root \in Roots => ttbr_new(NoAsid, "paddr", c.root) \in TTBR
  BY DEF ttbr_new, TTBR
<1> QED
  BY <1>1, <1>2, <1>3 DEF set_vm_root, set_current_user_vspace_root, TypeOK

\* ... and leaves the hart on a physical root.
LEMMA SetVmRootPhysical ==
  ASSUME TypeOK, NEW h \in Harts, NEW c, set_vm_root(h, c)
  PROVE  /\ ttbr0'[h].addr = "paddr"
         /\ \A g \in Harts \ {h} : ttbr0'[g] = ttbr0[g]
BY DEF set_vm_root, set_current_user_vspace_root, GlobalTTBR, ttbr_new, TypeOK

\* A thread's root is a space or no space.
LEMMA ThreadRootType ==
  ASSUME TypeOK PROVE ThreadRoots \subseteq Space \cup {NonVSpaceCap}
BY DEF TypeOK, ThreadRoots

\* The initial state is well typed.
LEMMA TypeInit == Init => TypeOK
BY DEF Init, TypeOK

\* Every operation keeps the types.
LEMMA TypeStep == TypeOK /\ [Next]_vars => TypeOK'
<1> SUFFICES ASSUME TypeOK, [Next]_vars PROVE TypeOK'
  OBVIOUS
<1> USE DEF TypeOK
<1>1. CASE UNCHANGED vars
  BY <1>1 DEF vars
<1>2. ASSUME NEW h \in Harts, ActivateKernel(h) PROVE TypeOK'
  BY <1>2 DEF ActivateKernel, activate_kernel_vspace, set_current_user_vspace_root, GlobalTTBR,
              ttbr_new, TTBR, tables
<1>3. ASSUME NEW h \in Harts, NEW p \in Pools, NEW r \in Roots, InitialThread(h, p, r)
      PROVE  TypeOK'
  BY <1>3, ItAsidIsAsid, AsidSplit, ArmAsidAssumption
     DEF InitialThread, write_it_asid_pool, set_asid_pool_by_index, Space, NoAsid
<1>4. ASSUME NEW h \in Harts, NEW i \in High, NEW p \in Pools, InstallPool(h, i, p)
      PROVE  TypeOK'
  BY <1>4 DEF InstallPool, set_asid_pool_by_index
<1>5. ASSUME NEW h \in Harts, NEW a \in Asids, NEW r \in Roots, AssignAsid(h, a, r)
      PROVE  TypeOK'
  BY <1>5, AsidSplit DEF AssignAsid, SetEntry, Space
<1>6. ASSUME NEW h \in Harts, NEW c \in ThreadRoots, SwitchThread(h, c) PROVE TypeOK'
  BY <1>6, SetVmRootType, ThreadRootType DEF SwitchThread, tables
<1>7. ASSUME NEW h \in Harts, NEW c \in caps, NEW d \in ThreadRoots, DeleteAsid(h, c, d)
      PROVE  TypeOK'
  <2>1. c.asid \in Asids
    BY DEF Space
  <2> QED
    <3>1. HighOf(c.asid) \in High /\ LowOf(c.asid) \in Low
      BY <2>1, AsidSplit
    <3>2. d \in Space \cup {NonVSpaceCap}
      BY ThreadRootType
    <3>3. /\ armKSASIDTable' \in [High -> Pools \cup {Null}]
          /\ pools' \in [Pools -> [Low -> Roots \cup {Null}]]
      BY <1>7, <3>1 DEF DeleteAsid, delete_asid, SetEntry, tables
    <3>4. ttbr0' \in [Harts -> TTBR \cup {Null}]
      BY <1>7, <3>2, SetVmRootType DEF DeleteAsid, delete_asid
    <3> QED
      BY <1>7, <3>3, <3>4 DEF DeleteAsid
<1>8. ASSUME NEW h \in Harts, NEW c \in poolCaps \cup poolCopies, NEW k, NEW d \in ThreadRoots,
             DeleteAsidPool(h, c[1], c[2], k, d)
      PROVE  TypeOK'
  <2>1. c[1] \in High /\ HighOf(c[1] * LowSize) = c[1]
    BY BaseIndex
  <2> QED
    BY <1>8, <2>1, SetVmRootType, ThreadRootType
       DEF DeleteAsidPool, delete_asid_pool, set_asid_pool_by_index, tables
<1>9. ASSUME NEW h \in Harts, NEW c \in caps, NEW t \in ThreadRoots, BeginFlush(h, c, t)
      PROVE  TypeOK'
  <2>1. c \in Space /\ c.root \in Roots /\ c.asid \in Asids \ {NoAsid}
    BY DEF Space
  <2>2. ttbr_new(c.asid, "pptr", c.root) \in TTBR
    BY <2>1 DEF ttbr_new, TTBR
  <2>3. flush' \in Flush
    BY <1>9, <2>1, ThreadRootType
       DEF BeginFlush, set_vm_root_for_flush_with_thread_root, Flush
  <2>4. ttbr0' \in [Harts -> TTBR \cup {Null}]
    BY <1>9, <2>2 DEF BeginFlush, set_vm_root_for_flush_with_thread_root,
                      set_current_user_vspace_root
  <2> QED
    BY <1>9, <2>3, <2>4 DEF BeginFlush, tables
<1>10. ASSUME EndFlush PROVE TypeOK'
  <2>1. flush.hart \in Harts /\ flush.thread \in Space \cup {NonVSpaceCap}
    BY <1>10 DEF EndFlush, Flush
  <2>2. ttbr0' \in [Harts -> TTBR \cup {Null}]
    BY <1>10, <2>1, SetVmRootType DEF EndFlush
  <2> QED
    BY <1>10, <2>2 DEF EndFlush, tables
<1> QED
  BY <1>1, <1>2, <1>3, <1>4, <1>5, <1>6, <1>7, <1>8, <1>9, <1>10 DEF Next

\* Every variable keeps its type for any number of harts, roots, pools and
\* ASIDs: a register holds a physical root without an ASID, or, for a flush, a
\* pointer with one.
THEOREM TypeCorrect == Spec => []TypeOK
BY TypeInit, TypeStep, PTL DEF Spec

------------------------------------------------------------------------------
\* Entries of the table that are in use name different pools.
LEMMA PoolServesOneIndex ==
  ASSUME IInv, NEW i \in High, NEW j \in High,
         armKSASIDTable[i] # Null, armKSASIDTable[i] = armKSASIDTable[j]
  PROVE  i = j
<1>1. /\ <<i, armKSASIDTable[i]>> \in poolCaps
      /\ <<j, armKSASIDTable[j]>> \in poolCaps
  BY DEF IInv, TableBacked
<1> QED
  BY <1>1 DEF IInv, CapsDisjoint

\* So two ASIDs that are read from one entry of one pool are the same.
LEMMA EntryServesOneAsid ==
  ASSUME IInv, NEW a \in Asids, NEW b \in Asids,
         armKSASIDTable[HighOf(a)] # Null,
         armKSASIDTable[HighOf(a)] = armKSASIDTable[HighOf(b)],
         LowOf(a) = LowOf(b)
  PROVE  a = b
<1>1. HighOf(a) = HighOf(b)
  BY PoolServesOneIndex, AsidSplit
<1> QED
  BY <1>1, AsidInjective

\* Deleting an ASID leaves every other binding as it was, and its own when
\* the capability is not the one the entry names.
LEMMA DeleteAsidBindings ==
  ASSUME IInv, NEW h \in Harts, NEW c \in caps, NEW d, DeleteAsid(h, c, d),
         NEW a \in Asids
  PROVE  /\ a # c.asid => find_vspace_for_asid(a)' = find_vspace_for_asid(a)
         /\ BoundTo(c.asid, c.root) => find_vspace_for_asid(c.asid)' = Null
         /\ ~ BoundTo(c.asid, c.root)
              => find_vspace_for_asid(a)' = find_vspace_for_asid(a)
<1> DEFINE pool == armKSASIDTable[HighOf(c.asid)]
<1>1. c.asid \in Asids /\ c.root \in Roots /\ c.root # Null
  BY ArmAsidAssumption DEF IInv, TypeOK, Space
<1>2. BoundTo(c.asid, c.root) <=> pool # Null /\ pools[pool][LowOf(c.asid)] = c.root
  BY <1>1 DEF BoundTo, find_vspace_for_asid, Lookup
<1>3. CASE ~ BoundTo(c.asid, c.root)
  <2>1. UNCHANGED tables
    BY <1>2, <1>3 DEF DeleteAsid, delete_asid
  <2> QED
    BY <1>3, <2>1 DEF tables, find_vspace_for_asid, Lookup
<1>4. CASE BoundTo(c.asid, c.root)
  <2>1. /\ armKSASIDTable' = armKSASIDTable
        /\ pools' = [pools EXCEPT ![pool][LowOf(c.asid)] = Null]
    BY <1>2, <1>4 DEF DeleteAsid, delete_asid, SetEntry
  <2>2. pool \in Pools /\ LowOf(c.asid) \in Low
    BY <1>1, <1>2, <1>4, AsidSplit DEF IInv, TypeOK
  <2>3. find_vspace_for_asid(c.asid)' = Null
    BY <1>2, <1>4, <2>1, <2>2 DEF IInv, TypeOK, find_vspace_for_asid, Lookup
  <2>4. ASSUME a # c.asid
        PROVE  find_vspace_for_asid(a)' = find_vspace_for_asid(a)
    <3>1. ~ (armKSASIDTable[HighOf(a)] = pool /\ LowOf(a) = LowOf(c.asid))
      BY <1>1, <1>2, <1>4, <2>4, EntryServesOneAsid
    <3>2. armKSASIDTable[HighOf(a)] \in Pools \cup {Null} /\ LowOf(a) \in Low
      BY AsidSplit DEF IInv, TypeOK
    <3> QED
      BY <2>1, <2>2, <3>1, <3>2 DEF IInv, TypeOK, find_vspace_for_asid, Lookup
  <2> QED
    BY <1>4, <2>3, <2>4
<1> QED
  BY <1>3, <1>4

\* Deleting a pool releases the ASIDs of its index, if the table still names
\* the pool there, and no other.
LEMMA DeletePoolBindings ==
  ASSUME IInv, NEW h \in Harts, NEW c \in poolCaps \cup poolCopies, NEW k, NEW d,
         DeleteAsidPool(h, c[1], c[2], k, d), NEW a \in Asids
  PROVE  /\ HighOf(a) # c[1] => find_vspace_for_asid(a)' = find_vspace_for_asid(a)
         /\ HighOf(a) = c[1] /\ armKSASIDTable[c[1]] = c[2]
              => find_vspace_for_asid(a)' = Null
         /\ armKSASIDTable[c[1]] # c[2]
              => find_vspace_for_asid(a)' = find_vspace_for_asid(a)
<1>1. c[1] \in High /\ HighOf(c[1] * LowSize) = c[1] /\ HighOf(a) \in High
  BY BaseIndex, AsidSplit DEF IInv, TypeOK
<1> QED
  BY <1>1 DEF DeleteAsidPool, delete_asid_pool, set_asid_pool_by_index, tables,
              find_vspace_for_asid, Lookup, IInv, TypeOK

\* A fresh pool holds nothing, and the pools already in use are not touched.
LEMMA InstallPoolBindings ==
  ASSUME IInv, NEW h \in Harts, NEW i \in High, NEW p \in Pools,
         InstallPool(h, i, p), NEW a \in Asids
  PROVE  find_vspace_for_asid(a)' = find_vspace_for_asid(a)
<1>1. HighOf(a) \in High /\ LowOf(a) \in Low /\ p # Null
  BY AsidSplit, ArmAsidAssumption
<1>2. CASE HighOf(a) = i
  BY <1>1, <1>2 DEF InstallPool, set_asid_pool_by_index, find_vspace_for_asid, Lookup, IInv, TypeOK
<1>3. CASE HighOf(a) # i
  <2>1. armKSASIDTable[HighOf(a)] # p
    <3>1. \A c \in poolCaps : c[2] # p
      BY DEF InstallPool
    <3>2. armKSASIDTable[HighOf(a)] # Null
            => <<HighOf(a), armKSASIDTable[HighOf(a)]>> \in poolCaps
      BY <1>1 DEF IInv, TableBacked
    <3> QED
      BY <1>1, <3>1, <3>2
  <2> QED
    BY <1>1, <1>3, <2>1
       DEF InstallPool, set_asid_pool_by_index, find_vspace_for_asid, Lookup, IInv, TypeOK
<1> QED
  BY <1>2, <1>3

\* Assigning an ASID binds a free one, and only that one.
LEMMA AssignBindings ==
  ASSUME IInv, NEW h \in Harts, NEW b \in Asids, NEW r \in Roots,
         AssignAsid(h, b, r), NEW a \in Asids
  PROVE  /\ find_vspace_for_asid(b) = Null
         /\ find_vspace_for_asid(b)' = r
         /\ a # b => find_vspace_for_asid(a)' = find_vspace_for_asid(a)
<1> DEFINE pool == armKSASIDTable[HighOf(b)]
<1>1. /\ HighOf(a) \in High /\ LowOf(a) \in Low
      /\ HighOf(b) \in High /\ LowOf(b) \in Low
  BY AsidSplit
<1>2. /\ pool \in Pools /\ pools[pool][LowOf(b)] = Null
      /\ armKSASIDTable' = armKSASIDTable
      /\ pools' = [pools EXCEPT ![pool][LowOf(b)] = r]
  BY <1>1 DEF AssignAsid, SetEntry, IInv, TypeOK
<1>3. find_vspace_for_asid(b) = Null /\ find_vspace_for_asid(b)' = r
  BY <1>1, <1>2, ArmAsidAssumption DEF find_vspace_for_asid, Lookup, IInv, TypeOK
<1>4. ASSUME a # b PROVE find_vspace_for_asid(a)' = find_vspace_for_asid(a)
  <2>1. ~ (armKSASIDTable[HighOf(a)] = pool /\ LowOf(a) = LowOf(b))
    BY <1>2, <1>4, EntryServesOneAsid, ArmAsidAssumption
  <2>2. armKSASIDTable[HighOf(a)] \in Pools \cup {Null}
    BY <1>1 DEF IInv, TypeOK
  <2> QED
    BY <1>1, <1>2, <2>1, <2>2 DEF find_vspace_for_asid, Lookup, IInv, TypeOK
<1> QED
  BY <1>3, <1>4

\* The boot code binds the initial thread's ASID in a table that was empty.
LEMMA BootBindings ==
  ASSUME IInv, NEW h \in Harts, NEW p \in Pools, NEW r \in Roots,
         InitialThread(h, p, r), NEW a \in Asids
  PROVE  /\ find_vspace_for_asid(a) = Null
         /\ find_vspace_for_asid(a)' = IF a = ItAsid THEN r ELSE Null
<1>1. HighOf(a) \in High /\ LowOf(a) \in Low
  BY AsidSplit
<1>2. \A i \in High : armKSASIDTable[i] = Null
  BY DEF InitialThread, IInv, EmptyBeforeBoot
<1>3. /\ armKSASIDTable' = [armKSASIDTable EXCEPT ![0] = p]
      /\ pools'[p] = [l \in Low |-> IF l = ItAsid THEN r ELSE Null]
      /\ 0 \in High /\ p # Null
  BY ItAsidIsAsid, AsidSplit, ArmAsidAssumption
     DEF InitialThread, write_it_asid_pool, set_asid_pool_by_index, IInv, TypeOK
<1>4. a = ItAsid <=> HighOf(a) = 0 /\ LowOf(a) = ItAsid
  BY ItAsidIsAsid, AsidInjective
<1> QED
  BY <1>1, <1>2, <1>3, <1>4 DEF find_vspace_for_asid, Lookup, IInv, TypeOK

\* The other operations read the tables only.
LEMMA SameBindings ==
  ASSUME UNCHANGED tables, NEW a
  PROVE  find_vspace_for_asid(a)' = find_vspace_for_asid(a)
BY DEF tables, find_vspace_for_asid, Lookup

------------------------------------------------------------------------------
\* The inductive invariant holds before any hart is up.
LEMMA IInvInit == Init => IInv
<1> SUFFICES ASSUME Init PROVE IInv
  OBVIOUS
<1>1. \A a \in Asids : find_vspace_for_asid(a) = Null
  BY AsidSplit DEF Init, find_vspace_for_asid, Lookup
<1> QED
  BY <1>1, TypeInit, ArmAsidAssumption
     DEF Init, IInv, CapsDisjoint, FlushKnows, FlushComesBack, TableBacked, BindingBacked, BoundTo,
         EmptyBeforeBoot

\* A flush borrows one register at a time and gives it back.
LEMMA FlushStep == IInv /\ [Next]_vars => FlushKnows' /\ FlushComesBack'
<1> SUFFICES ASSUME IInv, [Next]_vars PROVE FlushKnows' /\ FlushComesBack'
  OBVIOUS
<1> USE DEF IInv
<1>1. CASE UNCHANGED vars
  BY <1>1 DEF vars, FlushKnows, FlushComesBack, ThreadRoots
<1>2. ASSUME NEW h \in Harts, ActivateKernel(h) PROVE FlushKnows' /\ FlushComesBack'
  BY <1>2 DEF ActivateKernel, activate_kernel_vspace, set_current_user_vspace_root, GlobalTTBR,
              ttbr_new, TypeOK, FlushKnows, FlushComesBack, ThreadRoots
<1>3. ASSUME flush = Null, UNCHANGED <<ttbr0, flush>> PROVE FlushKnows' /\ FlushComesBack'
  BY <1>3 DEF FlushKnows, FlushComesBack
<1>4. ASSUME flush = Null, UNCHANGED flush, NEW h \in Harts, NEW c, set_vm_root(h, c)
      PROVE  FlushKnows' /\ FlushComesBack'
  BY <1>4, SetVmRootPhysical DEF FlushKnows, FlushComesBack
<1>5. ASSUME NEW h \in Harts, NEW c, SwitchThread(h, c) PROVE FlushKnows' /\ FlushComesBack'
  BY <1>4, <1>5 DEF SwitchThread, Running
<1>6. ASSUME NEW h \in Harts, NEW c \in caps, NEW d, DeleteAsid(h, c, d)
      PROVE  FlushKnows' /\ FlushComesBack'
  BY <1>3, <1>4, <1>6 DEF DeleteAsid, delete_asid, Running
<1>7. ASSUME NEW h \in Harts, NEW c \in poolCaps \cup poolCopies, NEW k, NEW d,
             DeleteAsidPool(h, c[1], c[2], k, d)
      PROVE  FlushKnows' /\ FlushComesBack'
  BY <1>3, <1>4, <1>7 DEF DeleteAsidPool, delete_asid_pool, Running
<1>8. ASSUME NEW h \in Harts, NEW x, NEW y,
             InitialThread(h, x, y) \/ InstallPool(h, x, y) \/ AssignAsid(h, x, y)
      PROVE  FlushKnows' /\ FlushComesBack'
  BY <1>3, <1>8 DEF InitialThread, InstallPool, AssignAsid, Running, FlushComesBack
<1>9. ASSUME NEW h \in Harts, NEW c \in caps, NEW t \in ThreadRoots, BeginFlush(h, c, t)
      PROVE  FlushKnows' /\ FlushComesBack'
  <2> DEFINE switched == t = NonVSpaceCap \/ t.root # c.root
  <2>1. /\ flush = Null /\ booted /\ booted' = booted /\ caps' = caps
        /\ flush' = [hart |-> h, cap |-> c, thread |-> t, switched |-> switched]
        /\ IF switched THEN set_current_user_vspace_root(h, ttbr_new(c.asid, "pptr", c.root))
                       ELSE UNCHANGED ttbr0
    BY <1>9 DEF BeginFlush, Running, set_vm_root_for_flush_with_thread_root
  <2>2. flush' # Null
    <3>1. c \in Space /\ t \in Space \cup {NonVSpaceCap} /\ switched \in BOOLEAN
      BY ThreadRootType DEF TypeOK
    <3>2. flush' \in Flush
      BY <2>1, <3>1 DEF Flush
    <3> QED
      BY <3>2, ArmFlushAssumption
  <2>3. flush'.hart = h /\ flush'.thread = t /\ (flush'.switched <=> switched)
    BY <2>1
  <2>4. FlushComesBack'
    BY <2>1, <2>3 DEF FlushComesBack, ThreadRoots
  <2>5. \A g \in Harts : ttbr0[g] # Null => ttbr0[g].addr = "paddr"
    BY <2>1 DEF FlushKnows
  <2>6. CASE switched
    BY <2>1, <2>2, <2>3, <2>4, <2>5, <2>6
       DEF set_current_user_vspace_root, TypeOK, FlushKnows
  <2>7. CASE ~ switched
    BY <2>1, <2>4, <2>5, <2>7 DEF FlushKnows
  <2> QED
    BY <2>6, <2>7
<1>10. ASSUME EndFlush PROVE FlushKnows' /\ FlushComesBack'
  <2>1. flush # Null /\ flush.hart \in Harts /\ flush' = Null
    BY <1>10 DEF EndFlush, TypeOK, Flush
  <2>2. CASE flush.switched
    <3>1. set_vm_root(flush.hart, flush.thread)
      BY <1>10, <2>2 DEF EndFlush
    <3>2. /\ ttbr0'[flush.hart].addr = "paddr"
          /\ \A g \in Harts \ {flush.hart} : ttbr0'[g] = ttbr0[g]
      BY <2>1, <3>1, SetVmRootPhysical
    <3> QED
      BY <2>1, <3>2 DEF FlushKnows, FlushComesBack
  <2>3. CASE ~ flush.switched
    BY <1>10, <2>1, <2>3 DEF EndFlush, FlushKnows, FlushComesBack
  <2> QED
    BY <2>2, <2>3
<1> QED
  BY <1>1, <1>2, <1>5, <1>6, <1>7, <1>8, <1>9, <1>10 DEF Next

\* The capabilities stay disjoint and back the table and its bindings.
CapsInv == CapsDisjoint /\ TableBacked /\ BindingBacked /\ EmptyBeforeBoot

\* Every operation keeps them: the bindings of the other ASIDs do not change.
LEMMA CapsStep == IInv /\ [Next]_vars => CapsInv'
<1> SUFFICES ASSUME IInv, [Next]_vars PROVE CapsInv'
  OBVIOUS
<1> USE DEF CapsInv
<1>1. ASSUME UNCHANGED <<tables, caps, poolCaps, booted>> PROVE CapsInv'
  BY <1>1, SameBindings
     DEF IInv, CapsDisjoint, TableBacked, BindingBacked, BoundTo, EmptyBeforeBoot, tables
<1>2. ASSUME NEW h \in Harts, NEW p \in Pools, NEW r \in Roots, InitialThread(h, p, r)
      PROVE  CapsInv'
  <2>1. CapsDisjoint' /\ EmptyBeforeBoot'
    BY <1>2 DEF InitialThread, CapsDisjoint, EmptyBeforeBoot
  <2>2. TableBacked'
    BY <1>2, ItAsidIsAsid
       DEF InitialThread, write_it_asid_pool, set_asid_pool_by_index, TableBacked, IInv,
           TypeOK, EmptyBeforeBoot
  <2>3. BindingBacked'
    BY <1>2, BootBindings, ArmAsidAssumption DEF InitialThread, BindingBacked, BoundTo
  <2> QED
    BY <2>1, <2>2, <2>3
<1>3. ASSUME NEW h \in Harts, NEW i \in High, NEW p \in Pools, InstallPool(h, i, p)
      PROVE  CapsInv'
  <2>1. CapsDisjoint' /\ EmptyBeforeBoot'
    BY <1>3 DEF InstallPool, Running, CapsDisjoint, EmptyBeforeBoot, IInv
  <2>2. TableBacked'
    BY <1>3 DEF InstallPool, set_asid_pool_by_index, TableBacked, IInv, TypeOK
  <2>3. BindingBacked'
    BY <1>3, InstallPoolBindings DEF InstallPool, BindingBacked, BoundTo, IInv
  <2> QED
    BY <2>1, <2>2, <2>3
<1>4. ASSUME NEW h \in Harts, NEW a \in Asids, NEW r \in Roots, AssignAsid(h, a, r)
      PROVE  CapsInv'
  <2>1. CapsDisjoint' /\ EmptyBeforeBoot' /\ TableBacked'
    BY <1>4 DEF AssignAsid, Running, CapsDisjoint, EmptyBeforeBoot, TableBacked, IInv
  <2>2. BindingBacked'
    BY <1>4, AssignBindings DEF AssignAsid, BindingBacked, BoundTo, IInv
  <2> QED
    BY <2>1, <2>2
<1>5. ASSUME NEW h \in Harts, NEW c \in caps, NEW d \in ThreadRoots, DeleteAsid(h, c, d)
      PROVE  CapsInv'
  <2>1. armKSASIDTable' = armKSASIDTable
    BY <1>5 DEF DeleteAsid, delete_asid, tables
  <2>2. CapsDisjoint' /\ EmptyBeforeBoot' /\ TableBacked'
    BY <1>5, <2>1 DEF DeleteAsid, CapsDisjoint, EmptyBeforeBoot, TableBacked, IInv
  <2>3. ASSUME NEW a \in Asids, NEW r \in Roots, BoundTo(a, r)'
        PROVE  [root |-> r, asid |-> a] \in caps'
    <3>1. r # Null /\ find_vspace_for_asid(a)' = r
      BY <2>3, ArmAsidAssumption DEF BoundTo
    <3>2. BoundTo(a, r) /\ ~ (a = c.asid /\ r = c.root)
      BY <1>5, <3>1, DeleteAsidBindings DEF BoundTo
    <3>3. [root |-> r, asid |-> a] \in caps
      BY <3>2 DEF IInv, BindingBacked
    <3>4. [root |-> r, asid |-> a] # c
      BY <3>2
    <3> QED
      BY <1>5, <3>3, <3>4 DEF DeleteAsid
  <2> QED
    BY <2>2, <2>3 DEF BindingBacked
<1>6. ASSUME NEW h \in Harts, NEW c \in poolCaps \cup poolCopies, NEW k, NEW d \in ThreadRoots,
             DeleteAsidPool(h, c[1], c[2], k, d)
      PROVE  CapsInv'
  <2>1. c = <<c[1], c[2]>> /\ c[1] \in High /\ HighOf(c[1] * LowSize) = c[1]
    BY BaseIndex DEF IInv, TypeOK
  <2>2. CapsDisjoint' /\ EmptyBeforeBoot'
    BY <1>6 DEF DeleteAsidPool, Running, CapsDisjoint, EmptyBeforeBoot, IInv
  <2>3. TableBacked'
    BY <1>6, <2>1 DEF DeleteAsidPool, delete_asid_pool, set_asid_pool_by_index, tables,
                      TableBacked, IInv, TypeOK
  <2>4. BindingBacked'
    BY <1>6, DeletePoolBindings, ArmAsidAssumption
       DEF DeleteAsidPool, BindingBacked, BoundTo, IInv
  <2> QED
    BY <2>2, <2>3, <2>4
<1>7. ASSUME NEW h \in Harts, NEW c, NEW d,
             ActivateKernel(h) \/ SwitchThread(h, c) \/ BeginFlush(h, c, d)
      PROVE  CapsInv'
  BY <1>1, <1>7 DEF ActivateKernel, SwitchThread, BeginFlush
<1>8. CASE EndFlush
  BY <1>1, <1>8 DEF EndFlush
<1>9. CASE UNCHANGED vars
  BY <1>1, <1>9 DEF vars, tables
<1> QED
  BY <1>2, <1>3, <1>4, <1>5, <1>6, <1>7, <1>8, <1>9 DEF Next

\* Every step preserves the inductive invariant.
LEMMA IInvStep == IInv /\ [Next]_vars => IInv'
BY TypeStep, FlushStep, CapsStep DEF IInv, CapsInv

\* Hence it always holds.
LEMMA IInvAlways == Spec => []IInv
BY IInvInit, IInvStep, PTL DEF Spec

------------------------------------------------------------------------------
\* No ASID resolves to a root whose capability is gone, nor through a pool
\* whose capability is gone, after any sequence of assignments and deletions.
THEOREM BindingsAreBacked == Spec => []NothingOutlivesItsCap
<1>1. IInv => NothingOutlivesItsCap
  BY DEF IInv, TableBacked, BindingBacked, NothingOutlivesItsCap
<1> QED
  BY <1>1, IInvAlways, PTL

\* A cache flush for another thread's space writes a pointer where the register
\* wants a physical address; when no flush is under way no hart is left on one.
THEOREM FlushesComeBack == Spec => []HartsAreOnPhysicalRoots
<1>1. IInv => HartsAreOnPhysicalRoots
  BY DEF IInv, FlushKnows, HartsAreOnPhysicalRoots
<1> QED
  BY <1>1, IInvAlways, PTL

\* A hart is put on a root by a capability only if its ASID resolves to that
\* root or to nothing, also at the end of a flush and in the middle of the
\* deletion of an ASID or of a pool.
THEOREM ReassignedAsidsFallBack == Spec => ReassignedAsidFallsBack
<1> DEFINE FallsBack ==
      \A h \in Harts, c \in caps :
        /\ ttbr0'[h] # ttbr0[h]
        /\ ttbr0'[h] = ttbr_new(NoAsid, "paddr", c.root)
        => find_vspace_for_asid(c.asid)' \in {Null, c.root}
<1>1. ASSUME IInv, [Next]_vars PROVE FallsBack
  <2> SUFFICES ASSUME NEW g \in Harts, NEW c \in caps,
                      ttbr0'[g] # ttbr0[g],
                      ttbr0'[g] = ttbr_new(NoAsid, "paddr", c.root)
               PROVE  find_vspace_for_asid(c.asid)' \in {Null, c.root}
    OBVIOUS
  <2> USE <1>1 DEF IInv
  <2>1. c.root \in Roots /\ c.root # GlobalUserVSpace
    BY ArmAsidAssumption DEF TypeOK, Space
  <2>2. ttbr0'[g] # GlobalTTBR
    <3>1. ttbr0'[g].root = c.root
      BY DEF ttbr_new
    <3>2. GlobalTTBR.root = GlobalUserVSpace
      BY DEF GlobalTTBR, ttbr_new
    <3> QED
      BY <2>1, <3>1, <3>2
  <2>3. ASSUME NEW h \in Harts, NEW d \in ThreadRoots, set_vm_root(h, d)
        PROVE  find_vspace_for_asid(c.asid)' \in {Null, c.root}
    <3> DEFINE found == Lookup(armKSASIDTable', pools', d.asid)
    <3>1. g = h /\ ttbr0'[h] = IF d = NonVSpaceCap \/ found \notin {Null, d.root}
                               THEN GlobalTTBR ELSE ttbr_new(NoAsid, "paddr", d.root)
      BY <2>3 DEF set_vm_root, set_current_user_vspace_root, TypeOK
    <3> HIDE DEF found
    <3>2. /\ d # NonVSpaceCap /\ found \in {Null, d.root}
          /\ ttbr0'[g] = ttbr_new(NoAsid, "paddr", d.root)
      BY <2>2, <3>1
    <3>3. d \in caps
      BY <3>2 DEF ThreadRoots
    <3>4. d.root = c.root
      <4>1. ttbr_new(NoAsid, "paddr", d.root).root = d.root
        BY DEF ttbr_new
      <4>2. ttbr_new(NoAsid, "paddr", c.root).root = c.root
        BY DEF ttbr_new
      <4> QED
        BY <3>2, <4>1, <4>2
    <3>5. c = d
      BY <3>3, <3>4 DEF CapsDisjoint
    <3> QED
      BY <3>2, <3>5 DEF found, find_vspace_for_asid
  <2>4. CASE UNCHANGED ttbr0
    BY <2>4
  <2>5. ASSUME NEW h \in Harts, ActivateKernel(h) PROVE FALSE
    BY <2>2, <2>5 DEF ActivateKernel, activate_kernel_vspace, set_current_user_vspace_root, TypeOK
  <2>6. ASSUME NEW h \in Harts, NEW d \in ThreadRoots, SwitchThread(h, d)
        PROVE  find_vspace_for_asid(c.asid)' \in {Null, c.root}
    BY <2>3, <2>6 DEF SwitchThread
  <2>7. ASSUME NEW h \in Harts, NEW b \in caps, NEW d \in ThreadRoots, DeleteAsid(h, b, d)
        PROVE  find_vspace_for_asid(c.asid)' \in {Null, c.root}
    BY <2>3, <2>4, <2>7 DEF DeleteAsid, delete_asid
  <2>8. ASSUME NEW h \in Harts, NEW b \in poolCaps \cup poolCopies, NEW k, NEW d \in ThreadRoots,
               DeleteAsidPool(h, b[1], b[2], k, d)
        PROVE  find_vspace_for_asid(c.asid)' \in {Null, c.root}
    BY <2>3, <2>4, <2>8 DEF DeleteAsidPool, delete_asid_pool
  <2>9. ASSUME NEW h \in Harts, NEW b \in caps, NEW t \in ThreadRoots, BeginFlush(h, b, t)
        PROVE  find_vspace_for_asid(c.asid)' \in {Null, c.root}
    <3>1. ttbr_new(b.asid, "pptr", b.root).addr # ttbr_new(NoAsid, "paddr", c.root).addr
      BY DEF ttbr_new
    <3>2. ttbr0'[g] # ttbr_new(b.asid, "pptr", b.root)
      BY <3>1
    <3> QED
      BY <2>4, <2>9, <3>2 DEF BeginFlush, set_vm_root_for_flush_with_thread_root,
                              set_current_user_vspace_root, TypeOK
  <2>10. ASSUME EndFlush PROVE find_vspace_for_asid(c.asid)' \in {Null, c.root}
    <3>1. flush.hart \in Harts /\ flush.thread \in ThreadRoots
      BY <2>10 DEF EndFlush, TypeOK, Flush, FlushComesBack
    <3> QED
      BY <2>3, <2>4, <2>10, <3>1 DEF EndFlush
  <2>11. ASSUME NEW h \in Harts, NEW x, NEW y,
                InitialThread(h, x, y) \/ InstallPool(h, x, y) \/ AssignAsid(h, x, y)
         PROVE  find_vspace_for_asid(c.asid)' \in {Null, c.root}
    BY <2>4, <2>11 DEF InitialThread, InstallPool, AssignAsid
  <2>12. CASE UNCHANGED vars
    BY <2>4, <2>12 DEF vars
  <2> QED
    BY <2>5, <2>6, <2>7, <2>8, <2>9, <2>10, <2>11, <2>12 DEF Next
<1>2. IInv /\ [Next]_vars => [FallsBack]_vars
  BY <1>1
<1>3. Spec => [][FallsBack]_vars
  BY <1>2, IInvAlways, PTL DEF Spec
<1> QED
  BY <1>3 DEF ReassignedAsidFallsBack

\* What a step does to the map of ASIDs: nothing, one binding, one release of
\* an ASID with its capability, or one release of a pool's ASIDs with its own.
MapSteps ==
  \/ \A a \in Asids : find_vspace_for_asid(a)' = find_vspace_for_asid(a)
  \/ \E b \in Asids, r \in Roots :
       /\ \A a \in Asids : ~ BoundTo(a, r)
       /\ find_vspace_for_asid(b) = Null
       /\ \A a \in Asids :
            find_vspace_for_asid(a)' = IF a = b THEN r ELSE find_vspace_for_asid(a)
  \/ \E c \in caps :
       /\ caps' = caps \ {c}
       /\ BoundTo(c.asid, c.root)
       /\ \A a \in Asids :
            find_vspace_for_asid(a)' = IF a = c.asid THEN Null ELSE find_vspace_for_asid(a)
  \/ \E i \in High :
       /\ <<i, armKSASIDTable[i]>> \notin poolCaps'
       /\ \A a \in Asids :
            find_vspace_for_asid(a)' = IF HighOf(a) = i THEN Null ELSE find_vspace_for_asid(a)

\* Every step of the code is one of those.
LEMMA StepOfMap == IInv /\ [Next]_vars => MapSteps
<1> SUFFICES ASSUME IInv, [Next]_vars PROVE MapSteps
  OBVIOUS
<1>1. ASSUME UNCHANGED tables PROVE MapSteps
  BY <1>1, SameBindings DEF MapSteps
<1>2. ASSUME NEW h \in Harts, NEW p \in Pools, NEW r \in Roots, InitialThread(h, p, r)
      PROVE  MapSteps
  <2>1. \A a \in Asids : ~ BoundTo(a, r)
    BY <1>2, BootBindings, ArmAsidAssumption DEF BoundTo
  <2> QED
    BY <1>2, <2>1, BootBindings, ItAsidIsAsid DEF MapSteps
<1>3. ASSUME NEW h \in Harts, NEW i \in High, NEW p \in Pools, InstallPool(h, i, p)
      PROVE  MapSteps
  BY <1>3, InstallPoolBindings DEF MapSteps
<1>4. ASSUME NEW h \in Harts, NEW b \in Asids, NEW r \in Roots, AssignAsid(h, b, r)
      PROVE  MapSteps
  <2>1. ASSUME NEW a \in Asids, BoundTo(a, r) PROVE FALSE
    <3>1. [root |-> r, asid |-> a] \in caps
      BY <2>1 DEF IInv, BindingBacked
    <3>2. [root |-> r, asid |-> a].root = r
      OBVIOUS
    <3> QED
      BY <1>4, <3>1, <3>2 DEF AssignAsid
  <2> QED
    BY <1>4, <2>1, AssignBindings DEF MapSteps
<1>5. ASSUME NEW h \in Harts, NEW c \in caps, NEW d \in ThreadRoots, DeleteAsid(h, c, d)
      PROVE  MapSteps
  <2>1. CASE BoundTo(c.asid, c.root)
    <3>1. c.asid \in Asids
      BY DEF IInv, TypeOK, Space
    <3>2. \A a \in Asids :
            find_vspace_for_asid(a)' = IF a = c.asid THEN Null ELSE find_vspace_for_asid(a)
      BY <1>5, <2>1, DeleteAsidBindings
    <3>3. caps' = caps \ {c}
      BY <1>5 DEF DeleteAsid
    <3> QED
      BY <2>1, <3>2, <3>3 DEF MapSteps
  <2>2. CASE ~ BoundTo(c.asid, c.root)
    BY <1>5, <2>2, DeleteAsidBindings DEF MapSteps
  <2> QED
    BY <2>1, <2>2
<1>6. ASSUME NEW h \in Harts, NEW c \in poolCaps \cup poolCopies, NEW k, NEW d \in ThreadRoots,
             DeleteAsidPool(h, c[1], c[2], k, d)
      PROVE  MapSteps
  <2>1. c = <<c[1], c[2]>> /\ c[1] \in High
    BY DEF IInv, TypeOK
  <2>2. CASE armKSASIDTable[c[1]] = c[2]
    <3>1. <<c[1], armKSASIDTable[c[1]]>> \notin poolCaps'
      BY <1>6, <2>2 DEF DeleteAsidPool
    <3>2. \A a \in Asids :
            find_vspace_for_asid(a)' = IF HighOf(a) = c[1] THEN Null ELSE find_vspace_for_asid(a)
      BY <1>6, <2>2, DeletePoolBindings
    <3> QED
      BY <2>1, <3>1, <3>2 DEF MapSteps
  <2>3. CASE armKSASIDTable[c[1]] # c[2]
    BY <1>6, <2>3, DeletePoolBindings DEF MapSteps
  <2> QED
    BY <2>2, <2>3
<1>7. ASSUME NEW h \in Harts, NEW c, NEW d,
             ActivateKernel(h) \/ SwitchThread(h, c) \/ BeginFlush(h, c, d)
      PROVE  MapSteps
  BY <1>1, <1>7 DEF ActivateKernel, SwitchThread, BeginFlush
<1>8. CASE EndFlush
  BY <1>1, <1>8 DEF EndFlush
<1>9. CASE UNCHANGED vars
  BY <1>1, <1>9 DEF vars, tables
<1> QED
  BY <1>2, <1>3, <1>4, <1>5, <1>6, <1>7, <1>8, <1>9 DEF Next

\* Deleting a capability whose ASID has been given to another root since, or a
\* pool whose index has, never takes the ASID from its new owner.
THEOREM StaleDeletesAreHarmless == Spec => StaleDeleteHarmless
<1> DEFINE Kept ==
      \A a \in Asids, r \in Roots :
        BoundTo(a, r) /\ ~ BoundTo(a, r)' =>
          \/ [root |-> r, asid |-> a] \notin caps'
          \/ <<HighOf(a), armKSASIDTable[HighOf(a)]>> \notin poolCaps'
<1>1. ASSUME IInv, [Next]_vars PROVE Kept
  <2> SUFFICES ASSUME NEW a \in Asids, NEW r \in Roots, BoundTo(a, r), ~ BoundTo(a, r)'
               PROVE  \/ [root |-> r, asid |-> a] \notin caps'
                      \/ <<HighOf(a), armKSASIDTable[HighOf(a)]>> \notin poolCaps'
    OBVIOUS
  <2>1. r # Null /\ find_vspace_for_asid(a) = r /\ find_vspace_for_asid(a)' # r
    BY ArmAsidAssumption DEF BoundTo
  <2>2. ASSUME NEW c \in caps, BoundTo(c.asid, c.root), a = c.asid
        PROVE  c = [root |-> r, asid |-> a]
    <3>1. c \in [root : Roots, asid : Asids \ {NoAsid}]
      BY <1>1 DEF IInv, TypeOK, Space
    <3>2. c.root = r
      BY <2>1, <2>2 DEF BoundTo
    <3> QED
      BY <2>2, <3>1, <3>2
  <2> QED
    BY <1>1, <2>1, <2>2, StepOfMap DEF MapSteps
<1>2. IInv /\ [Next]_vars => [Kept]_vars
  BY <1>1
<1>3. Spec => [][Kept]_vars
  BY <1>2, IInvAlways, PTL DEF Spec
<1> QED
  BY <1>3 DEF StaleDeleteHarmless

\* The table and the pools are a map from ASIDs to roots: every operation
\* binds one free ASID, releases one, releases a pool's, or changes none.
THEOREM TableIsAMap == Spec => ImplementsAsidMap
<1> DEFINE map == [a \in Asids |-> find_vspace_for_asid(a)]
           blocks == {{a \in Asids : HighOf(a) = i} : i \in High}
<1>1. Init => AbstractMap!Init
  BY AsidSplit DEF Init, find_vspace_for_asid, Lookup, AbstractMap!Init
<1>2. ASSUME IInv, [Next]_vars PROVE [AbstractMap!Next]_map
  <2> DEFINE Goal ==
        \/ map' = map
        \/ \E b \in Asids, r \in Roots : AbstractMap!Bind(b, r)
        \/ \E b \in Asids : AbstractMap!Release(b)
        \/ \E block \in blocks : AbstractMap!ReleaseBlock(block)
  <2>1. ASSUME \A a \in Asids : find_vspace_for_asid(a)' = find_vspace_for_asid(a)
        PROVE  map' = map
    BY <2>1
  <2>2. ASSUME NEW b \in Asids, NEW r \in Roots,
               \A a \in Asids : ~ BoundTo(a, r),
               find_vspace_for_asid(b) = Null,
               \A a \in Asids :
                 find_vspace_for_asid(a)' = IF a = b THEN r ELSE find_vspace_for_asid(a)
        PROVE  AbstractMap!Bind(b, r)
    BY <2>2 DEF AbstractMap!Bind, BoundTo
  <2>3. ASSUME NEW b \in Asids,
               \A a \in Asids :
                 find_vspace_for_asid(a)' = IF a = b THEN Null ELSE find_vspace_for_asid(a)
        PROVE  AbstractMap!Release(b)
    BY <2>3 DEF AbstractMap!Release
  <2>4. ASSUME NEW i \in High,
               \A a \in Asids :
                 find_vspace_for_asid(a)' = IF HighOf(a) = i THEN Null ELSE find_vspace_for_asid(a)
        PROVE  \E block \in blocks : AbstractMap!ReleaseBlock(block)
    <3>1. AbstractMap!ReleaseBlock({a \in Asids : HighOf(a) = i})
      BY <2>4 DEF AbstractMap!ReleaseBlock
    <3> QED
      BY <3>1
  <2>5. \A c \in caps : c.asid \in Asids
    BY <1>2 DEF IInv, TypeOK, Space
  <2> HIDE DEF map, blocks
  <2>6. Goal
    <3>1. CASE \A a \in Asids : find_vspace_for_asid(a)' = find_vspace_for_asid(a)
      BY <2>1, <3>1
    <3>2. ASSUME NEW b \in Asids, NEW r \in Roots,
                 \A a \in Asids : ~ BoundTo(a, r),
                 find_vspace_for_asid(b) = Null,
                 \A a \in Asids :
                   find_vspace_for_asid(a)' = IF a = b THEN r ELSE find_vspace_for_asid(a)
          PROVE  Goal
      BY <2>2, <3>2
    <3>3. ASSUME NEW c \in caps,
                 \A a \in Asids :
                   find_vspace_for_asid(a)' = IF a = c.asid THEN Null ELSE find_vspace_for_asid(a)
          PROVE  Goal
      BY <2>3, <2>5, <3>3
    <3>4. ASSUME NEW i \in High,
                 \A a \in Asids :
                   find_vspace_for_asid(a)' = IF HighOf(a) = i THEN Null ELSE find_vspace_for_asid(a)
          PROVE  Goal
      BY <2>4, <3>4
    <3> HIDE DEF Goal
    <3>5. MapSteps
      BY <1>2, StepOfMap
    <3> QED
      BY <3>1, <3>2, <3>3, <3>4, <3>5 DEF MapSteps
  <2> QED
    BY <2>6 DEF AbstractMap!Next, map, blocks
<1>3. IInv /\ [Next]_vars => [AbstractMap!Next]_map
  BY <1>2
<1> QED
  BY <1>1, <1>3, IInvAlways, PTL DEF Spec, ImplementsAsidMap, AbstractMap!Spec

------------------------------------------------------------------------------
(* The kernel's page tables, ArmKernelWindow.                              *)

\* What an entry of each level spans, and how many blocks the window has.
C == PageSize(0)
B == PageSize(1)
A == PageSize(2)
Blocks == Last * IndexSize

\* The address that has these indices.
Address(i, j, k, l) == i * C + (j * B + (k * A + l))

------------------------------------------------------------------------------
\* A number is read back from a multiple and a rest.
LEMMA DivMod ==
  ASSUME NEW d \in Nat \ {0}, NEW k \in Int, NEW x \in 0 .. d - 1
  PROVE  (k * d + x) \div d = k /\ (k * d + x) % d = x
BY SMT

\* Every number is one.
LEMMA Split ==
  ASSUME NEW d \in Nat \ {0}, NEW n \in Nat
  PROVE  /\ n \div d \in Nat
         /\ n % d \in 0 .. d - 1
         /\ n = (n \div d) * d + (n % d)
BY SMT

\* Multiples with a rest are ordered as their factors.
LEMMA Between ==
  ASSUME NEW d \in Nat \ {0}, NEW i \in Int, NEW k \in Int, NEW x \in 0 .. d - 1
  PROVE  i * d + x < k * d <=> i < k
<1>1. CASE i < k
  <2>1. (i + 1) * d <= k * d
    BY <1>1, SMT
  <2>2. (i + 1) * d = i * d + d
    BY SMT
  <2> QED
    BY <1>1, <2>1, <2>2, SMT
<1>2. CASE i >= k
  BY <1>2, SMT
<1> QED
  BY <1>1, <1>2, SMT

\* A multiple of a multiple.
LEMMA Nest ==
  ASSUME NEW d \in Int, NEW e \in Int, NEW a \in Int, NEW b \in Int
  PROVE  (a * e + b) * d = a * (e * d) + b * d
<1>1. (a * e + b) * d = (a * e) * d + b * d
  BY SMT
<1>2. (a * e) * d = a * (e * d)
  BY SMT
<1> QED
  BY <1>1, <1>2

\* An entry spans a table of the next level.
LEMMA Sizes ==
  /\ IndexSize \in Nat \ {0, 1} /\ Last \in Nat /\ Last = IndexSize - 1
  /\ A \in Nat \ {0} /\ B \in Nat \ {0} /\ C \in Nat \ {0}
  /\ A = IndexSize /\ B = IndexSize * A /\ C = IndexSize * B
  /\ PageSize(3) = 1
<1>1. IndexSize \in Nat \ {0, 1}
  BY ArmWindowAssumption
<1>2. Last \in Nat /\ Last = IndexSize - 1
  BY <1>1, SMT DEF Last
<1>3. A = IndexSize /\ B = IndexSize * IndexSize
      /\ C = IndexSize * IndexSize * IndexSize /\ PageSize(3) = 1
  BY DEF A, B, C, PageSize
<1>4. IndexSize * IndexSize \in Nat \ {0}
  BY <1>1, SMT
<1>5. IndexSize * IndexSize * IndexSize = IndexSize * (IndexSize * IndexSize)
  BY <1>1, SMT
<1>6. IndexSize * (IndexSize * IndexSize) \in Nat \ {0}
  <2> DEFINE s == IndexSize * IndexSize
  <2>1. s \in Nat \ {0}
    BY <1>4
  <2> HIDE DEF s
  <2>2. IndexSize * s \in Nat \ {0}
    BY <1>1, <2>1, SMT
  <2> QED
    BY <2>2 DEF s
<1> QED
  BY <1>1, <1>2, <1>3, <1>4, <1>5, <1>6

\* An index and a rest stay within a table.
LEMMA Rest ==
  ASSUME NEW d \in Nat \ {0}, NEW k \in TableIndex, NEW y \in 0 .. d - 1
  PROVE  k * d + y \in 0 .. IndexSize * d - 1
<1>1. k \in Nat /\ k < IndexSize /\ IndexSize \in Nat
  BY Sizes, SMT DEF TableIndex
<1>2. k * d + y < IndexSize * d
  BY <1>1, Between
<1>3. k * d \in Nat /\ IndexSize * d \in Nat
  BY <1>1, SMT
<1> QED
  BY <1>2, <1>3, SMT

\* An address counted in pages of each level.
LEMMA Forms ==
  ASSUME NEW i \in TableIndex, NEW j \in TableIndex, NEW k \in TableIndex, NEW l \in TableIndex
  PROVE  /\ Address(i, j, k, l) \in Nat
         /\ l \in 0 .. A - 1
         /\ k * A + l \in 0 .. B - 1
         /\ j * B + (k * A + l) \in 0 .. C - 1
         /\ i * IndexSize + j \in Nat
         /\ (i * IndexSize + j) * IndexSize + k \in Nat
         /\ Address(i, j, k, l) = (i * IndexSize + j) * B + (k * A + l)
         /\ Address(i, j, k, l) = ((i * IndexSize + j) * IndexSize + k) * A + l
<1>1. {i, j, k, l, A, B, C, IndexSize} \subseteq Nat
  BY Sizes DEF TableIndex
<1>2. l \in 0 .. A - 1
  BY Sizes DEF TableIndex
<1>3. k * A + l \in 0 .. B - 1
  BY <1>2, Sizes, Rest
<1>4. j * B + (k * A + l) \in 0 .. C - 1
  BY <1>3, Sizes, Rest
<1>5. {i * C, j * B, k * A, i * IndexSize} \subseteq Nat
  BY <1>1, SMT
<1> DEFINE q == i * IndexSize + j
           r == q * IndexSize + k
<1>6. q \in Nat /\ r \in Nat
  <2>1. q \in Nat
    BY <1>1, <1>5, SMT
  <2> HIDE DEF q
  <2>2. q * IndexSize \in Nat
    BY <1>1, <2>1, SMT
  <2> QED
    BY <1>1, <2>1, <2>2, SMT
<1>7. q * B = i * C + j * B
  BY <1>1, Nest, Sizes
<1>8. r * A = q * B + k * A
  <2> HIDE DEF q
  <2> QED
    BY <1>1, <1>6, Nest, Sizes
<1> DEFINE c == i * C
           b == j * B
           a == k * A
<1>9. c \in Nat /\ b \in Nat /\ a \in Nat /\ q * B = c + b /\ r * A = (c + b) + a
  BY <1>5, <1>7, <1>8
<1>10. Address(i, j, k, l) = c + (b + (a + l))
  BY DEF Address
<1> HIDE DEF a, b, c, q, r
<1>11. /\ Address(i, j, k, l) \in Nat
       /\ Address(i, j, k, l) = q * B + (a + l)
       /\ Address(i, j, k, l) = r * A + l
  BY <1>1, <1>9, <1>10, SMT
<1> QED
  BY <1>2, <1>3, <1>4, <1>6, <1>11 DEF a, b, c, q, r

\* What get_kpt_index makes of it.
LEMMA Indices ==
  ASSUME NEW i \in TableIndex, NEW j \in TableIndex, NEW k \in TableIndex, NEW l \in TableIndex
  PROVE  /\ get_kpt_index(Address(i, j, k, l), 0) = i
         /\ get_kpt_index(Address(i, j, k, l), 1) = j
         /\ get_kpt_index(Address(i, j, k, l), 2) = k
         /\ get_kpt_index(Address(i, j, k, l), 3) = l
         /\ Address(i, j, k, l) % PageSize(2) = l
<1> DEFINE va == Address(i, j, k, l)
           q  == i * IndexSize + j
           r  == q * IndexSize + k
           x  == j * B + (k * A + l)
           y  == k * A + l
<1>1. /\ va \in Nat /\ l \in 0 .. A - 1 /\ y \in 0 .. B - 1 /\ x \in 0 .. C - 1
      /\ q \in Nat /\ r \in Nat
      /\ va = i * C + x /\ va = q * B + y /\ va = r * A + l
  BY Forms DEF Address
<1>2. /\ {i, j, k, l} \subseteq 0 .. IndexSize - 1 /\ i \in Int /\ IndexSize \in Nat \ {0}
      /\ A \in Nat \ {0} /\ B \in Nat \ {0} /\ C \in Nat \ {0}
  BY Sizes DEF TableIndex
<1>3. q % IndexSize = j
  BY <1>2, DivMod
<1>4. r % IndexSize = k
  <2>1. q \in Int /\ k \in 0 .. IndexSize - 1
    BY <1>1, <1>2, SMT
  <2> HIDE DEF q
  <2> QED
    BY <1>2, <2>1, DivMod
<1> HIDE DEF va, q, r, x, y
<1>5. va \div C = i /\ va \div B = q /\ va \div A = r /\ va % A = l
  <2>1. q \in Int /\ r \in Int
    BY <1>1, SMT
  <2>2. (i * C + x) \div C = i
    BY <1>1, <1>2, DivMod
  <2>3. (q * B + y) \div B = q
    BY <1>1, <1>2, <2>1, DivMod
  <2>4. (r * A + l) \div A = r /\ (r * A + l) % A = l
    BY <1>1, <1>2, <2>1, DivMod
  <2> QED
    BY <1>1, <2>2, <2>3, <2>4
<1>6. i % IndexSize = i
  BY <1>2, SMT
<1>7. (va \div 1) % IndexSize = l
  <2>1. va \div 1 = va
    BY <1>1, SMT
  <2>2. va % A = l /\ A = IndexSize
    BY <1>5, Sizes
  <2> QED
    BY <2>1, <2>2
<1> QED
  BY <1>3, <1>4, <1>5, <1>6, <1>7, Sizes DEF get_kpt_index, va, A, B, C

\* Every address has indices.
LEMMA HasIndices ==
  ASSUME NEW va \in 0 .. IndexSize * C - 1
  PROVE  \E i, j, k, l \in TableIndex : va = Address(i, j, k, l)
<1> USE Sizes
<1> DEFINE i == va \div C
           x == va % C
           j == x \div B
           y == x % B
           k == y \div A
           l == y % A
<1>1. i \in Nat /\ x \in 0 .. C - 1 /\ va = i * C + x
  <2>1. va \in Nat
    BY SMT
  <2> QED
    BY <2>1, Split
<1> HIDE DEF i, x
<1>2. j \in Nat /\ y \in 0 .. B - 1 /\ x = j * B + y
  <2>1. x \in Nat
    BY <1>1, SMT
  <2> QED
    BY <2>1, Split
<1> HIDE DEF j, y
<1>3. k \in Nat /\ l \in 0 .. A - 1 /\ y = k * A + l
  <2>1. y \in Nat
    BY <1>2, SMT
  <2> QED
    BY <2>1, Split
<1> HIDE DEF k, l
<1>4. i \in TableIndex
  <2>1. i * C + x < IndexSize * C
    BY <1>1, SMT
  <2>2. i < IndexSize
    BY <1>1, <2>1, Between
  <2> QED
    BY <1>1, <2>2, SMT DEF TableIndex
<1>5. j \in TableIndex
  <2>1. j * B + y < IndexSize * B
    BY <1>1, <1>2
  <2>2. j < IndexSize
    BY <1>2, <2>1, Between
  <2> QED
    BY <1>2, <2>2, SMT DEF TableIndex
<1>6. k \in TableIndex
  <2>1. k * A + l < IndexSize * A
    BY <1>2, <1>3
  <2>2. k < IndexSize
    BY <1>3, <2>1, Between
  <2> QED
    BY <1>3, <2>2, SMT DEF TableIndex
<1>7. l \in TableIndex
  BY <1>3 DEF TableIndex
<1>8. va = Address(i, j, k, l)
  BY <1>1, <1>2, <1>3 DEF Address
<1> QED
  BY <1>4, <1>5, <1>6, <1>7, <1>8

------------------------------------------------------------------------------
(* The layout, taken apart.                                                *)

\* The window begins with the first directory of the last entry and ends with
\* the last; it has as many blocks as fit in between.
LEMMA Layout ==
  /\ PPTR_BASE = Last * C /\ Last * C \in Nat
  /\ Blocks \in Nat /\ Blocks = Last * IndexSize
  /\ Blocks * A = Last * B /\ Blocks * A \in Nat
  /\ PPTR_TOP = PPTR_BASE + Blocks * A
  /\ PADDR_BASE \in Nat /\ PADDR_TOP = PADDR_BASE + Blocks * A
  /\ PPTR_BASE = Address(Last, 0, 0, 0) /\ PPTR_TOP = Address(Last, Last, 0, 0)
  /\ 0 \in TableIndex /\ Last \in TableIndex
<1>1. {Last, IndexSize, A, B, C} \subseteq Nat /\ Last = IndexSize - 1
      /\ B = IndexSize * A /\ C = IndexSize * B
  BY Sizes
<1>2. Last * IndexSize \in Nat /\ {Last * C, Last * B} \subseteq Nat
  BY <1>1, SMT
<1>3. (Last * IndexSize) * A = Last * B
  <2>1. (Last * IndexSize + 0) * A = Last * (IndexSize * A) + 0 * A
    BY <1>1, Nest
  <2>2. Last * IndexSize + 0 = Last * IndexSize /\ Last * B + 0 * A = Last * B
    BY <1>1, <1>2, SMT
  <2> QED
    BY <1>1, <2>1, <2>2
<1>4. Last * B = C - B /\ Last * C = IndexSize * C - C
  BY <1>1, SMT
<1>5. PPTR_BASE = Last * C /\ PPTR_TOP = IndexSize * C - B
      /\ PADDR_BASE \in Nat /\ PADDR_TOP = PADDR_BASE + (PPTR_TOP - PPTR_BASE)
  BY <1>1, ArmWindowAssumption DEF B, C
<1>6. PPTR_TOP = PPTR_BASE + Last * B /\ PADDR_TOP = PADDR_BASE + Last * B
  <2> DEFINE s == IndexSize * C
             t == Last * B
             u == Last * C
  <2>1. t = C - B /\ u = s - C /\ {t, u} \subseteq Nat /\ s \in Int
    BY <1>1, <1>2, <1>4, SMT
  <2>2. PPTR_BASE = u /\ PPTR_TOP = s - B
    BY <1>5
  <2> HIDE DEF s, t, u
  <2> QED
    BY <1>1, <1>5, <2>1, <2>2, SMT DEF t
<1>7. 0 * A = 0 /\ 0 * B = 0
  BY <1>1, SMT
<1>8. Address(Last, 0, 0, 0) = Last * C /\ Address(Last, Last, 0, 0) = Last * C + Last * B
  BY <1>2, <1>7, SMT DEF Address
<1>9. 0 \in TableIndex /\ Last \in TableIndex
  BY Sizes, SMT DEF TableIndex
<1> QED
  BY <1>2, <1>3, <1>5, <1>6, <1>8, <1>9 DEF Blocks

\* The indices that the boot code asks for.
LEMMA WindowIndices ==
  /\ get_kpt_index(PPTR_BASE, 0) = Last
  /\ get_kpt_index(PPTR_BASE, 1) = 0
  /\ get_kpt_index(PPTR_TOP, 1) = Last
BY Layout, Indices

\* The blocks are those of the directories before the last.
LEMMA BlockIndices ==
  ASSUME NEW j \in TableIndex, NEW k \in TableIndex
  PROVE  /\ j * IndexSize + k \in Nat
         /\ j * IndexSize + k < Blocks <=> j < Last
         /\ (j * IndexSize + k) * A = j * B + k * A
<1>1. j \in Nat /\ k \in Nat /\ k \in 0 .. IndexSize - 1 /\ IndexSize \in Nat \ {0} /\ Last \in Nat
      /\ A \in Nat /\ B = IndexSize * A
  BY Sizes DEF TableIndex
<1>2. j * IndexSize + k \in Nat
  BY <1>1, SMT
<1>3. j * IndexSize + k < Last * IndexSize <=> j < Last
  BY <1>1, Between
<1>4. (j * IndexSize + k) * A = j * B + k * A
  BY <1>1, Nest
<1> QED
  BY <1>2, <1>3, <1>4 DEF Blocks

\* Different pairs of indices are different blocks.
LEMMA BlocksDiffer ==
  ASSUME NEW j \in TableIndex, NEW k \in TableIndex, NEW s \in TableIndex, NEW t \in TableIndex,
         j * IndexSize + k = s * IndexSize + t
  PROVE  j = s /\ k = t
<1>1. /\ {j, s} \subseteq Int /\ {k, t} \subseteq 0 .. IndexSize - 1 /\ IndexSize \in Nat \ {0}
  BY Sizes DEF TableIndex
<1>2. /\ (j * IndexSize + k) \div IndexSize = j /\ (j * IndexSize + k) % IndexSize = k
      /\ (s * IndexSize + t) \div IndexSize = s /\ (s * IndexSize + t) % IndexSize = t
  BY <1>1, DivMod
<1> QED
  BY <1>2

\* Where the loop over the blocks writes.
LEMMA BlockAddress ==
  ASSUME NEW m \in Nat, m < Blocks
  PROVE  \E j, k \in TableIndex :
           /\ m = j * IndexSize + k
           /\ get_kpt_index(PPTR_BASE + m * A, 1) = j
           /\ get_kpt_index(PPTR_BASE + m * A, 2) = k
<1> DEFINE j == m \div IndexSize
           k == m % IndexSize
<1>1. j \in Nat /\ k \in 0 .. IndexSize - 1 /\ m = j * IndexSize + k
  BY Sizes, Split
<1> HIDE DEF j, k
<1>2. j < Last
  <2>1. j * IndexSize + k < Last * IndexSize
    BY <1>1 DEF Blocks
  <2> QED
    BY <1>1, <2>1, Sizes, Between
<1>3. j \in TableIndex /\ k \in TableIndex
  BY <1>1, <1>2, Sizes, SMT DEF TableIndex
<1>4. m * A = j * B + k * A
  BY <1>1, <1>3, BlockIndices
<1>5. PPTR_BASE + m * A = Address(Last, j, k, 0)
  <2> DEFINE a == k * A
  <2>1. a + 0 = a
    BY <1>1, Sizes, SMT
  <2> QED
    BY <1>4, <2>1, Layout DEF Address
<1>6. get_kpt_index(Address(Last, j, k, 0), 1) = j /\ get_kpt_index(Address(Last, j, k, 0), 2) = k
  BY <1>3, Layout, Indices
<1> QED
  BY <1>1, <1>3, <1>5, <1>6

\* The entry of a device in the last table.
Slot(n) == get_kpt_index(kernel_device_frames[n].pptr, 3)

\* A device has an address of the last table.
LEMMA DeviceAddress ==
  ASSUME NEW n \in DOMAIN kernel_device_frames
  PROVE  /\ Slot(n) \in TableIndex
         /\ kernel_device_frames[n].pptr = Address(Last, Last, Last, Slot(n))
<1> DEFINE va == kernel_device_frames[n].pptr
           l  == va - (IndexSize * C - A)
<1>1. va \in IndexSize * C - A .. IndexSize * C - 1
  <2>1. kernel_device_frames \in
          Seq([paddr : Nat, armExecuteNever : {0, 1}, userAvailable : BOOLEAN,
               pptr : IndexSize * C - A .. IndexSize * C - 1])
    BY ArmWindowAssumption DEF A, C
  <2> DEFINE D == [paddr : Nat, armExecuteNever : {0, 1}, userAvailable : BOOLEAN,
                   pptr : IndexSize * C - A .. IndexSize * C - 1]
  <2>2. kernel_device_frames[n] \in D
    <3> HIDE DEF D
    <3>1. kernel_device_frames \in Seq(D)
      BY <2>1 DEF D
    <3> QED
      BY <3>1
  <2> QED
    BY <2>2
<1>2. {IndexSize, Last, A, B, C} \subseteq Nat /\ Last = IndexSize - 1 /\ A = IndexSize
      /\ B = IndexSize * A /\ C = IndexSize * B
  BY Sizes
<1>3. Last * A = B - A /\ Last * B = C - B /\ Last * C = IndexSize * C - C
  BY <1>2, SMT
<1> HIDE DEF va
<1>4. l \in 0 .. IndexSize - 1 /\ va = (IndexSize * C - A) + l
  <2> DEFINE s == IndexSize * C
  <2>1. s \in Int
    BY <1>2, SMT
  <2> HIDE DEF s
  <2>2. va \in s - A .. s - 1
    BY <1>1 DEF s
  <2>3. va - (s - A) \in 0 .. IndexSize - 1 /\ va = (s - A) + (va - (s - A))
    BY <1>2, <2>1, <2>2, SMT
  <2> QED
    BY <2>3 DEF s
<1> HIDE DEF l
<1>5. va = Address(Last, Last, Last, l)
  <2> DEFINE s == IndexSize * C
             c == Last * C
             b == Last * B
             a == Last * A
  <2>1. {s, c, b, a} \subseteq Int
    BY <1>2, SMT
  <2>2. a = B - A /\ b = C - B /\ c = s - C /\ va = (s - A) + l
    BY <1>3, <1>4
  <2>3. Address(Last, Last, Last, l) = c + (b + (a + l))
    BY DEF Address
  <2> HIDE DEF s, a, b, c
  <2> QED
    BY <1>2, <1>4, <2>1, <2>2, <2>3, SMT
<1>6. l \in TableIndex
  BY <1>4 DEF TableIndex
<1>7. get_kpt_index(Address(Last, Last, Last, l), 3) = l
  BY <1>6, Layout, Indices
<1>8. Slot(n) = l
  BY <1>5, <1>7 DEF Slot, va
<1> QED
  BY <1>5, <1>6, <1>8 DEF va

\* No two devices have one entry.
LEMMA SlotsDiffer ==
  ASSUME NEW m \in DOMAIN kernel_device_frames, NEW n \in DOMAIN kernel_device_frames,
         Slot(m) = Slot(n)
  PROVE  m = n
<1>1. kernel_device_frames[m].pptr = kernel_device_frames[n].pptr
  BY DeviceAddress
<1> QED
  BY <1>1, ArmWindowAssumption

------------------------------------------------------------------------------
(* What the tables hold when a loop has come so far.                       *)

Upper(j) == pte_new_table(kpptr_to_paddr(get_kernel_page_directory_base_by_index(j)))
Block(m) == pte_new_page(PADDR_BASE + m * A, "NORMAL")

PGDBuilt ==
  \A i \in TableIndex :
    armKSGlobalKernelPGD[i] = IF i = Last THEN pte_new_table(kpptr_to_paddr(PUDAddress))
                              ELSE ZeroPTE

\* The directories before the n-th.
PUDUpTo(n) == \A j \in TableIndex : j < n => armKSGlobalKernelPUD[j] = Upper(j)

\* The blocks before the m-th.
PDsUpTo(m) ==
  \A j, k \in TableIndex :
    armKSGlobalKernelPDs[j][k] = IF j * IndexSize + k < m THEN Block(j * IndexSize + k)
                                 ELSE ZeroPTE

\* All of them, and the table of the devices.
PDsBuilt ==
  \A j, k \in TableIndex :
    armKSGlobalKernelPDs[j][k] =
      IF j < Last THEN Block(j * IndexSize + k)
      ELSE IF k = Last THEN pte_new_table(kpptr_to_paddr(PTAddress))
      ELSE ZeroPTE

PTBlank == \A l \in TableIndex : armKSGlobalKernelPT[l] = ZeroPTE

\* The devices before the n-th have their pages, and nothing else has.
DevicesUpTo(n) ==
  /\ \A m \in DOMAIN kernel_device_frames :
       m < n =>
         /\ armKSGlobalKernelPT[Slot(m)].kind = "page"
         /\ armKSGlobalKernelPT[Slot(m)].addr = kernel_device_frames[m].paddr
         /\ ~ kernel_device_frames[m].userAvailable => kernel_device_frames[m].paddr \in reserved
  /\ \A l \in TableIndex :
       armKSGlobalKernelPT[l].kind = "page" =>
         \E m \in DOMAIN kernel_device_frames : m < n /\ Slot(m) = l

UpperBuilt == PGDBuilt /\ PUDUpTo(IndexSize) /\ PDsBuilt

\* What each loop finds and keeps.
LoopInvariant ==
  \/ /\ stage = "pgd" /\ \A i \in TableIndex : armKSGlobalKernelPGD[i] = ZeroPTE
     /\ PDsUpTo(0) /\ PTBlank
     /\ vaddr = PPTR_BASE /\ paddr = PADDR_BASE
  \/ /\ stage = "pud" /\ PGDBuilt
     /\ idx \in 0 .. Last /\ PUDUpTo(idx)
     /\ PDsUpTo(0) /\ PTBlank
     /\ vaddr = PPTR_BASE /\ paddr = PADDR_BASE
  \/ /\ stage = "pds" /\ PGDBuilt /\ PUDUpTo(Last)
     /\ \E m \in 0 .. Blocks :
          vaddr = PPTR_BASE + m * A /\ paddr = PADDR_BASE + m * A /\ PDsUpTo(m)
     /\ PTBlank
  \/ stage = "pt" /\ PGDBuilt /\ PUDUpTo(Last) /\ PDsUpTo(Blocks) /\ PTBlank
  \/ stage = "devices" /\ UpperBuilt /\ idx \in Nat \ {0} /\ DevicesUpTo(idx)
  \/ stage = "done" /\ UpperBuilt /\ DevicesUpTo(Len(kernel_device_frames) + 1)

Domains ==
  /\ DOMAIN armKSGlobalKernelPGD = TableIndex
  /\ DOMAIN armKSGlobalKernelPUD = TableIndex
  /\ DOMAIN armKSGlobalKernelPDs = TableIndex
  /\ \A j \in TableIndex : DOMAIN armKSGlobalKernelPDs[j] = TableIndex
  /\ DOMAIN armKSGlobalKernelPT = TableIndex

WInv == Domains /\ LoopInvariant

LEMMA WindowInitial == WindowInit => WInv
<1> SUFFICES ASSUME WindowInit PROVE WInv
  OBVIOUS
<1>1. Domains
  BY DEF WindowInit, Domains
<1>2. PDsUpTo(0)
  <2> SUFFICES ASSUME NEW j \in TableIndex, NEW k \in TableIndex
               PROVE  armKSGlobalKernelPDs[j][k] = IF j * IndexSize + k < 0
                                                   THEN Block(j * IndexSize + k) ELSE ZeroPTE
    BY DEF PDsUpTo
  <2>1. ~ j * IndexSize + k < 0
    BY BlockIndices
  <2>2. armKSGlobalKernelPDs[j][k] = ZeroPTE
    BY DEF WindowInit
  <2> QED
    BY <2>1, <2>2
<1> QED
  BY <1>1, <1>2 DEF WindowInit, WInv, LoopInvariant, PTBlank

LEMMA PGDStep == WInv /\ MapPGD => WInv'
<1> SUFFICES ASSUME WInv, MapPGD PROVE WInv'
  OBVIOUS
<1>1. /\ stage' = "pud" /\ idx' = 0
      /\ armKSGlobalKernelPGD' =
           [armKSGlobalKernelPGD EXCEPT ![Last] = pte_new_table(kpptr_to_paddr(PUDAddress))]
      /\ UNCHANGED <<armKSGlobalKernelPUD, armKSGlobalKernelPDs, armKSGlobalKernelPT,
                     vaddr, paddr, reserved>>
  BY WindowIndices DEF MapPGD
<1>2. /\ \A i \in TableIndex : armKSGlobalKernelPGD[i] = ZeroPTE
      /\ PDsUpTo(0) /\ PTBlank /\ vaddr = PPTR_BASE /\ paddr = PADDR_BASE /\ Domains
  BY DEF WInv, LoopInvariant, MapPGD
<1>3. Domains'
  BY <1>1, <1>2 DEF Domains
<1>4. PGDBuilt'
  BY <1>1, <1>2 DEF PGDBuilt, Domains, kpptr_to_paddr
<1>5. PUDUpTo(idx)'
  BY <1>1, SMT DEF PUDUpTo, TableIndex
<1>6. PDsUpTo(0)' /\ PTBlank'
  BY <1>1, <1>2 DEF PDsUpTo, PTBlank, Block
<1>7. idx' \in 0 .. Last
  BY <1>1, Sizes
<1> QED
  BY <1>1, <1>2, <1>3, <1>4, <1>5, <1>6, <1>7 DEF WInv, LoopInvariant

LEMMA PUDStep == WInv /\ MapPUD => WInv'
<1> SUFFICES ASSUME WInv, MapPUD PROVE WInv'
  OBVIOUS
<1>1. /\ PGDBuilt /\ idx \in 0 .. Last /\ PUDUpTo(idx) /\ Domains
      /\ PDsUpTo(0) /\ PTBlank /\ vaddr = PPTR_BASE /\ paddr = PADDR_BASE
      /\ stage = "pud"
  BY DEF WInv, LoopInvariant, MapPUD
<1>2. UNCHANGED <<armKSGlobalKernelPGD, armKSGlobalKernelPDs, armKSGlobalKernelPT,
                  vaddr, paddr, reserved>>
  BY DEF MapPUD
<1>3. PGDBuilt' /\ PTBlank'
  BY <1>1, <1>2 DEF PGDBuilt, PTBlank, kpptr_to_paddr
<1>4. PDsUpTo(0)'
  BY <1>1, <1>2 DEF PDsUpTo, Block
<1>5. CASE idx < Last
  <2>1. /\ armKSGlobalKernelPUD' = [armKSGlobalKernelPUD EXCEPT ![idx] = Upper(idx)]
        /\ idx' = idx + 1 /\ stage' = "pud"
    BY <1>1, <1>5, WindowIndices DEF MapPUD, Upper
  <2>2. Domains'
    BY <1>1, <1>2, <2>1 DEF Domains
  <2>3. idx \in TableIndex /\ idx' \in 0 .. Last
    BY <1>1, <1>5, <2>1, Sizes, SMT DEF TableIndex
  <2>4. PUDUpTo(idx)'
    <3> SUFFICES ASSUME NEW j \in TableIndex, j < idx + 1
                 PROVE  armKSGlobalKernelPUD'[j] = Upper(j)
      BY <2>1 DEF PUDUpTo
    <3>1. j = idx \/ j < idx
      BY <1>1, SMT DEF TableIndex
    <3> QED
      BY <1>1, <2>1, <2>3, <3>1 DEF PUDUpTo, Domains
  <2> QED
    BY <1>1, <1>2, <1>3, <1>4, <2>1, <2>2, <2>3, <2>4 DEF WInv, LoopInvariant
<1>6. CASE ~ idx < Last
  <2>1. stage' = "pds" /\ UNCHANGED <<armKSGlobalKernelPUD, idx>>
    BY <1>6, WindowIndices DEF MapPUD
  <2>2. idx = Last
    BY <1>1, <1>6, Sizes, SMT
  <2>3. Domains' /\ PUDUpTo(Last)'
    BY <1>1, <1>2, <2>1, <2>2 DEF Domains, PUDUpTo, Upper, kpptr_to_paddr
  <2>4. 0 \in 0 .. Blocks /\ PPTR_BASE + 0 * A = PPTR_BASE /\ PADDR_BASE + 0 * A = PADDR_BASE
    <3>1. 0 * A = 0
      BY Sizes, SMT
    <3> QED
      BY <3>1, Layout, SMT
  <2> QED
    BY <1>1, <1>2, <1>3, <1>4, <2>1, <2>3, <2>4 DEF WInv, LoopInvariant
<1> QED
  BY <1>5, <1>6

LEMMA PDsStep == WInv /\ MapPDs => WInv'
<1> SUFFICES ASSUME WInv, MapPDs PROVE WInv'
  OBVIOUS
<1>1. PGDBuilt /\ PUDUpTo(Last) /\ PTBlank /\ Domains /\ stage = "pds"
  BY DEF WInv, LoopInvariant, MapPDs
<1>2. PICK m \in 0 .. Blocks :
        vaddr = PPTR_BASE + m * A /\ paddr = PADDR_BASE + m * A /\ PDsUpTo(m)
  BY DEF WInv, LoopInvariant, MapPDs
<1>3. UNCHANGED <<armKSGlobalKernelPGD, armKSGlobalKernelPUD, armKSGlobalKernelPT,
                  idx, reserved>>
  BY DEF MapPDs
<1>4. PGDBuilt' /\ PUDUpTo(Last)' /\ PTBlank'
  BY <1>1, <1>3 DEF PGDBuilt, PTBlank, PUDUpTo, Upper, kpptr_to_paddr
<1>5. m \in Nat /\ Blocks \in Nat /\ A \in Nat \ {0} /\ m * A \in Nat
      /\ PADDR_BASE \in Nat /\ PPTR_BASE \in Nat
  <2>1. m \in Nat /\ Blocks \in Nat /\ A \in Nat \ {0}
    BY Layout, Sizes
  <2>2. m * A \in Nat
    BY <2>1, SMT
  <2> QED
    BY <2>1, <2>2, Layout
<1>6. paddr < PADDR_TOP <=> m < Blocks
  <2>1. m * A + 0 < Blocks * A <=> m < Blocks
    BY <1>5, Between
  <2> DEFINE a == m * A
             b == Blocks * A
  <2>2. a \in Nat /\ b \in Nat /\ paddr = PADDR_BASE + a /\ PADDR_TOP = PADDR_BASE + b
    BY <1>2, <1>5, Layout
  <2>3. a + 0 < b <=> m < Blocks
    BY <2>1
  <2> HIDE DEF a, b
  <2> QED
    BY <1>5, <2>2, <2>3, SMT
<1>7. CASE m < Blocks
  <2>1. PICK j \in TableIndex, k \in TableIndex :
          /\ m = j * IndexSize + k
          /\ get_kpt_index(PPTR_BASE + m * A, 1) = j
          /\ get_kpt_index(PPTR_BASE + m * A, 2) = k
    BY <1>5, <1>7, BlockAddress
  <2>2. /\ armKSGlobalKernelPDs' = [armKSGlobalKernelPDs EXCEPT ![j][k] = Block(m)]
        /\ vaddr' = vaddr + A /\ paddr' = paddr + A /\ stage' = "pds"
    BY <1>1, <1>2, <1>6, <1>7, <2>1 DEF MapPDs, Block, A
  <2>3. Domains'
    BY <1>1, <1>3, <2>2 DEF Domains
  <2>4. m + 1 \in 0 .. Blocks
    BY <1>5, <1>7, SMT
  <2>5. vaddr' = PPTR_BASE + (m + 1) * A /\ paddr' = PADDR_BASE + (m + 1) * A
    <3>1. (m + 1) * A = m * A + A
      BY <1>5, SMT
    <3> DEFINE a == m * A
    <3>2. a \in Nat /\ (m + 1) * A = a + A /\ vaddr = PPTR_BASE + a /\ paddr = PADDR_BASE + a
      BY <1>2, <1>5, <3>1
    <3> HIDE DEF a
    <3> QED
      BY <1>5, <2>2, <3>2, SMT
  <2>6. PDsUpTo(m + 1)'
    <3> SUFFICES ASSUME NEW s \in TableIndex, NEW t \in TableIndex
                 PROVE  armKSGlobalKernelPDs'[s][t] = IF s * IndexSize + t < m + 1
                                                      THEN Block(s * IndexSize + t) ELSE ZeroPTE
      BY DEF PDsUpTo, Block
    <3> DEFINE n == s * IndexSize + t
    <3>1. n \in Nat
      BY BlockIndices
    <3>2. armKSGlobalKernelPDs[s][t] = IF n < m THEN Block(n) ELSE ZeroPTE
      BY <1>2 DEF PDsUpTo
    <3>3. CASE s = j /\ t = k
      <4>1. n = m
        BY <2>1, <3>3
      <4>2. armKSGlobalKernelPDs'[s][t] = Block(m)
        BY <1>1, <2>2, <3>3 DEF Domains
      <4>3. n < m + 1
        BY <1>5, <4>1, SMT
      <4> QED
        BY <4>1, <4>2, <4>3
    <3>4. CASE ~ (s = j /\ t = k)
      <4>1. n # m
        BY <2>1, <3>4, BlocksDiffer
      <4>2. armKSGlobalKernelPDs'[s][t] = armKSGlobalKernelPDs[s][t]
        BY <1>1, <2>2, <3>4 DEF Domains
      <4> HIDE DEF n
      <4>3. n < m + 1 <=> n < m
        BY <1>5, <3>1, <4>1, SMT
      <4>4. armKSGlobalKernelPDs'[s][t] = IF n < m + 1 THEN Block(n) ELSE ZeroPTE
        BY <3>2, <4>2, <4>3
      <4> QED
        BY <4>4 DEF n
    <3> QED
      BY <3>3, <3>4
  <2> QED
    BY <1>4, <2>2, <2>3, <2>4, <2>5, <2>6 DEF WInv, LoopInvariant
<1>8. CASE ~ m < Blocks
  <2>1. stage' = "pt" /\ UNCHANGED <<armKSGlobalKernelPDs, vaddr, paddr>>
    BY <1>6, <1>8 DEF MapPDs
  <2>2. m = Blocks
    BY <1>5, <1>8, SMT
  <2>3. Domains' /\ PDsUpTo(Blocks)'
    BY <1>1, <1>2, <1>3, <2>1, <2>2 DEF Domains, PDsUpTo, Block
  <2> QED
    BY <1>4, <2>1, <2>3 DEF WInv, LoopInvariant
<1> QED
  BY <1>7, <1>8

LEMMA PTStep == WInv /\ MapPT => WInv'
<1> SUFFICES ASSUME WInv, MapPT PROVE WInv'
  OBVIOUS
<1>1. PGDBuilt /\ PUDUpTo(Last) /\ PDsUpTo(Blocks) /\ PTBlank /\ Domains
  BY DEF WInv, LoopInvariant, MapPT
<1>2. /\ armKSGlobalKernelPUD' = [armKSGlobalKernelPUD EXCEPT ![Last] = Upper(Last)]
      /\ armKSGlobalKernelPDs' =
           [armKSGlobalKernelPDs EXCEPT ![Last][Last] = pte_new_table(kpptr_to_paddr(PTAddress))]
      /\ idx' = 1 /\ stage' = "devices"
      /\ UNCHANGED <<armKSGlobalKernelPGD, armKSGlobalKernelPT, vaddr, paddr, reserved>>
  BY WindowIndices DEF MapPT, Upper
<1>3. Domains'
  BY <1>1, <1>2 DEF Domains
<1>4. PGDBuilt'
  BY <1>1, <1>2 DEF PGDBuilt, kpptr_to_paddr
<1>5. PUDUpTo(IndexSize)'
  <2> SUFFICES ASSUME NEW j \in TableIndex
               PROVE  armKSGlobalKernelPUD'[j] = Upper(j)
    BY DEF PUDUpTo, Upper, kpptr_to_paddr
  <2>1. j = Last \/ j < Last
    BY Sizes, SMT DEF TableIndex
  <2> QED
    BY <1>1, <1>2, <2>1 DEF PUDUpTo, Domains
<1>6. PDsBuilt'
  <2> SUFFICES ASSUME NEW j \in TableIndex, NEW k \in TableIndex
               PROVE  armKSGlobalKernelPDs'[j][k] =
                        IF j < Last THEN Block(j * IndexSize + k)
                        ELSE IF k = Last THEN pte_new_table(kpptr_to_paddr(PTAddress))
                        ELSE ZeroPTE
    BY DEF PDsBuilt, Block, kpptr_to_paddr
  <2>1. armKSGlobalKernelPDs[j][k] = IF j < Last THEN Block(j * IndexSize + k) ELSE ZeroPTE
    BY <1>1, BlockIndices DEF PDsUpTo
  <2>2. j = Last \/ j < Last
    BY Sizes, SMT DEF TableIndex
  <2>3. ~ Last < Last
    BY Sizes, SMT
  <2>4. CASE j = Last /\ k = Last
    BY <1>1, <1>2, <2>3, <2>4, Layout DEF Domains
  <2>5. CASE ~ (j = Last /\ k = Last)
    <3>1. armKSGlobalKernelPDs'[j][k] = armKSGlobalKernelPDs[j][k]
      BY <1>1, <1>2, <2>5 DEF Domains
    <3> QED
      BY <2>1, <2>2, <2>5, <3>1
  <2> QED
    BY <2>4, <2>5
<1>7. DevicesUpTo(idx)'
  <2>1. \A m \in DOMAIN kernel_device_frames : ~ m < 1
    <3>1. DOMAIN kernel_device_frames = 1 .. Len(kernel_device_frames)
      BY ArmWindowAssumption
    <3> QED
      BY <3>1, SMT
  <2>2. \A l \in TableIndex : armKSGlobalKernelPT'[l].kind # "page"
    BY <1>1, <1>2 DEF PTBlank, ZeroPTE, PTE
  <2> QED
    BY <1>2, <2>1, <2>2 DEF DevicesUpTo
<1> QED
  BY <1>2, <1>3, <1>4, <1>5, <1>6, <1>7 DEF WInv, LoopInvariant, UpperBuilt

\* No device takes the page of an earlier one.
LEMMA DeviceStep == WInv /\ MapDevice => WInv'
<1> SUFFICES ASSUME WInv, MapDevice PROVE WInv'
  OBVIOUS
<1>1. UpperBuilt /\ idx \in Nat \ {0} /\ DevicesUpTo(idx) /\ Domains /\ stage = "devices"
  BY DEF WInv, LoopInvariant, MapDevice
<1>2. UNCHANGED <<armKSGlobalKernelPGD, armKSGlobalKernelPUD, armKSGlobalKernelPDs, vaddr, paddr>>
  BY DEF MapDevice
<1>3. UpperBuilt'
  <2>1. PGDBuilt'
    BY <1>1, <1>2 DEF UpperBuilt, PGDBuilt, kpptr_to_paddr
  <2>2. PUDUpTo(IndexSize)'
    BY <1>1, <1>2 DEF UpperBuilt, PUDUpTo, Upper, kpptr_to_paddr
  <2>3. PDsBuilt'
    BY <1>1, <1>2 DEF UpperBuilt, PDsBuilt, Block, kpptr_to_paddr
  <2> QED
    BY <2>1, <2>2, <2>3 DEF UpperBuilt
<1>4. /\ DOMAIN kernel_device_frames = 1 .. Len(kernel_device_frames)
      /\ Len(kernel_device_frames) \in Nat
  BY ArmWindowAssumption
<1>5. CASE idx <= Len(kernel_device_frames)
  <2> DEFINE frame == kernel_device_frames[idx]
             attr  == IF frame.armExecuteNever % 2 # 0 THEN "NORMAL" ELSE "DEVICE_nGnRnE"
             page  == pte_new_4k_page(frame.paddr, attr)
  <2>1. /\ armKSGlobalKernelPT' = [armKSGlobalKernelPT EXCEPT ![Slot(idx)] = page]
        /\ reserved' = IF frame.userAvailable THEN reserved ELSE reserved \cup {frame.paddr}
        /\ idx' = idx + 1 /\ stage' = "devices"
    BY <1>1, <1>5 DEF MapDevice, map_kernel_frame, Slot
  <2>2. page.kind = "page" /\ page.addr = frame.paddr
    BY DEF pte_new_4k_page, PTE
  <2>3. idx \in DOMAIN kernel_device_frames
    BY <1>1, <1>4, <1>5, SMT
  <2>4. Slot(idx) \in TableIndex
    BY <2>3, DeviceAddress
  <2> HIDE DEF page
  <2>5. Domains'
    BY <1>1, <1>2, <2>1 DEF Domains
  <2>6. armKSGlobalKernelPT'[Slot(idx)] = page
    BY <1>1, <2>1, <2>4 DEF Domains
  <2>7. \A l \in TableIndex : l # Slot(idx) => armKSGlobalKernelPT'[l] = armKSGlobalKernelPT[l]
    BY <1>1, <2>1 DEF Domains
  <2>8. \A m \in DOMAIN kernel_device_frames : m < idx + 1 <=> m < idx \/ m = idx
    BY <1>1, <1>4, SMT
  <2>9. \A m \in DOMAIN kernel_device_frames :
          m < idx + 1 =>
            /\ armKSGlobalKernelPT'[Slot(m)].kind = "page"
            /\ armKSGlobalKernelPT'[Slot(m)].addr = kernel_device_frames[m].paddr
            /\ ~ kernel_device_frames[m].userAvailable
                 => kernel_device_frames[m].paddr \in reserved'
    <3> SUFFICES ASSUME NEW m \in DOMAIN kernel_device_frames, m < idx + 1
                 PROVE  /\ armKSGlobalKernelPT'[Slot(m)].kind = "page"
                        /\ armKSGlobalKernelPT'[Slot(m)].addr = kernel_device_frames[m].paddr
                        /\ ~ kernel_device_frames[m].userAvailable
                             => kernel_device_frames[m].paddr \in reserved'
      OBVIOUS
    <3>1. CASE m = idx
      BY <2>1, <2>2, <2>6, <3>1
    <3>2. CASE m # idx
      <4>1. m < idx
        BY <2>8, <3>2
      <4>2. Slot(m) \in TableIndex
        BY DeviceAddress
      <4>3. Slot(m) # Slot(idx)
        BY <2>3, <3>2, SlotsDiffer
      <4> QED
        BY <1>1, <2>1, <2>7, <4>1, <4>2, <4>3 DEF DevicesUpTo
    <3> QED
      BY <3>1, <3>2
  <2>10. \A l \in TableIndex :
           armKSGlobalKernelPT'[l].kind = "page" =>
             \E m \in DOMAIN kernel_device_frames : m < idx + 1 /\ Slot(m) = l
    BY <1>1, <2>3, <2>7, <2>8 DEF DevicesUpTo
  <2>11. DevicesUpTo(idx)'
    BY <2>1, <2>9, <2>10 DEF DevicesUpTo
  <2>12. idx' \in Nat \ {0}
    BY <1>1, <2>1, SMT
  <2> QED
    BY <1>3, <2>1, <2>5, <2>11, <2>12 DEF WInv, LoopInvariant
<1>6. CASE ~ idx <= Len(kernel_device_frames)
  <2>1. stage' = "done" /\ UNCHANGED <<armKSGlobalKernelPT, idx, reserved>>
    BY <1>1, <1>6 DEF MapDevice
  <2>2. Domains'
    BY <1>1, <1>2, <2>1 DEF Domains
  <2>3. \A m \in DOMAIN kernel_device_frames : m < idx /\ m < Len(kernel_device_frames) + 1
    BY <1>1, <1>4, <1>6, SMT
  <2>4. DevicesUpTo(Len(kernel_device_frames) + 1)'
    BY <1>1, <2>1, <2>3 DEF DevicesUpTo
  <2> QED
    BY <1>3, <2>1, <2>2, <2>4 DEF WInv, LoopInvariant
<1> QED
  BY <1>5, <1>6

LEMMA WindowStep == WInv /\ [WindowNext]_windowVars => WInv'
<1> SUFFICES ASSUME WInv, [WindowNext]_windowVars PROVE WInv'
  OBVIOUS
<1>1. CASE UNCHANGED windowVars
  <2>1. UNCHANGED <<armKSGlobalKernelPGD, armKSGlobalKernelPUD, armKSGlobalKernelPDs,
                    armKSGlobalKernelPT, stage, vaddr, paddr, idx, reserved>>
    BY <1>1 DEF windowVars, kernelTables
  <2>2. Domains'
    BY <2>1 DEF WInv, Domains
  <2>3. LoopInvariant'
    BY <2>1 DEF WInv, LoopInvariant, PGDBuilt, PUDUpTo, PDsUpTo, PDsBuilt, PTBlank, DevicesUpTo,
                UpperBuilt, Upper, Block, kpptr_to_paddr
  <2> QED
    BY <2>2, <2>3 DEF WInv
<1>2. CASE WindowNext
  BY <1>2, PGDStep, PUDStep, PDsStep, PTStep, DeviceStep DEF WindowNext
<1> QED
  BY <1>1, <1>2

\* What each loop keeps, from the first line of the boot code on.
THEOREM WindowInvariant == BootSpec => []WInv
<1>1. BootInit => WInv
  BY WindowInitial DEF BootInit
<1>2. WInv /\ [BootNext]_<<vars, windowVars>> => WInv'
  <2>1. [BootNext]_<<vars, windowVars>> => [WindowNext]_windowVars
    BY DEF BootNext
  <2> QED
    BY <2>1, WindowStep
<1> QED
  BY <1>1, <1>2, PTL DEF BootSpec

------------------------------------------------------------------------------
(* What the hardware makes of the finished tables.                         *)

\* The entries have the addresses to which the loader has put the tables.
LEMMA Loaded == \A x \in Nat : PhysicalOf(x) = kpptr_to_paddr(x)
<1> SUFFICES ASSUME NEW x \in Nat PROVE PhysicalOf(x) = kpptr_to_paddr(x)
  OBVIOUS
<1>1. KERNEL_ELF_BASE \in Int /\ KERNEL_ELF_PADDR_BASE \in Int
  BY ArmWindowAssumption
<1> QED
  BY <1>1, SMT DEF PhysicalOf, kpptr_to_paddr, KERNEL_ELF_BASE_OFFSET

\* The directory that an entry of the upper one has the address of is its own.
LEMMA OwnDirectory ==
  ASSUME NEW j \in TableIndex
  PROVE  {i \in TableIndex :
            PhysicalOf(get_kernel_page_directory_base_by_index(i)) = Upper(j).addr} = {j}
<1>1. PDsAddress \in Nat /\ KERNEL_ELF_BASE \in Int /\ KERNEL_ELF_PADDR_BASE \in Int
  BY ArmWindowAssumption
<1>2. \A i \in TableIndex :
        PhysicalOf(get_kernel_page_directory_base_by_index(i))
          = (PDsAddress + i) - KERNEL_ELF_BASE_OFFSET
  <2> SUFFICES ASSUME NEW i \in TableIndex
               PROVE  PhysicalOf(PDsAddress + i) = (PDsAddress + i) - KERNEL_ELF_BASE_OFFSET
    BY DEF get_kernel_page_directory_base_by_index
  <2>1. PDsAddress + i \in Nat
    BY <1>1, SMT DEF TableIndex
  <2> QED
    BY <2>1, Loaded DEF kpptr_to_paddr
<1>3. Upper(j).addr = (PDsAddress + j) - KERNEL_ELF_BASE_OFFSET
  BY DEF Upper, pte_new_table, PTE, kpptr_to_paddr, get_kernel_page_directory_base_by_index
<1>4. KERNEL_ELF_BASE_OFFSET \in Int
  BY <1>1, SMT DEF KERNEL_ELF_BASE_OFFSET
<1>5. \A i \in TableIndex :
        (PDsAddress + i) - KERNEL_ELF_BASE_OFFSET = (PDsAddress + j) - KERNEL_ELF_BASE_OFFSET
          <=> i = j
  BY <1>1, <1>4, SMT DEF TableIndex
<1> QED
  BY <1>2, <1>3, <1>5

\* The walk, index by index.
LEMMA TranslateAddress ==
  ASSUME UpperBuilt,
         NEW i \in TableIndex, NEW j \in TableIndex, NEW k \in TableIndex, NEW l \in TableIndex
  PROVE  LET va  == Address(i, j, k, l)
             pte == armKSGlobalKernelPT[l]
         IN  /\ i # Last => Translate(va) = Fault
             /\ i = Last /\ j < Last
                  => Translate(va) = Phys(PADDR_BASE + (j * IndexSize + k) * A + l, "NORMAL")
             /\ i = Last /\ j = Last /\ k # Last => Translate(va) = Fault
             /\ i = Last /\ j = Last /\ k = Last
                  => Translate(va) = IF pte.kind = "page" THEN Phys(pte.addr, pte.attr) ELSE Fault
<1> DEFINE va   == Address(i, j, k, l)
           pgde == armKSGlobalKernelPGD[i]
           pude == armKSGlobalKernelPUD[j]
           dirs == {s \in TableIndex :
                      PhysicalOf(get_kernel_page_directory_base_by_index(s)) = pude.addr}
           pde  == armKSGlobalKernelPDs[j][k]
           pte  == armKSGlobalKernelPT[l]
<1>1. /\ get_kpt_index(va, 0) = i /\ get_kpt_index(va, 1) = j
      /\ get_kpt_index(va, 2) = k /\ get_kpt_index(va, 3) = l
      /\ va % PageSize(2) = l
  BY Indices
<1>2. pude = Upper(j)
  <2>1. j < IndexSize
    BY Sizes, SMT DEF TableIndex
  <2> QED
    BY <2>1 DEF UpperBuilt, PUDUpTo
<1>3. pude.kind = "table" /\ dirs = {j}
  BY <1>2, OwnDirectory DEF Upper, pte_new_table, PTE
<1>4. pgde = IF i = Last THEN pte_new_table(PhysicalOf(PUDAddress)) ELSE ZeroPTE
  BY ArmWindowAssumption, Loaded DEF UpperBuilt, PGDBuilt
<1>5. pde = IF j < Last THEN Block(j * IndexSize + k)
            ELSE IF k = Last THEN pte_new_table(PhysicalOf(PTAddress))
            ELSE ZeroPTE
  BY ArmWindowAssumption, Loaded DEF UpperBuilt, PDsBuilt
<1> DEFINE Dirs(e) == {s \in TableIndex :
                         PhysicalOf(get_kernel_page_directory_base_by_index(s)) = e.addr}
           Down(D, t) == armKSGlobalKernelPDs[CHOOSE s \in D : TRUE][t]
           Outcome(e, f, D, g, h, x) ==
             IF e.kind # "table" \/ e.addr # PhysicalOf(PUDAddress) THEN Fault
             ELSE IF f.kind # "table" \/ D = {} THEN Fault
             ELSE IF g.kind = "block" THEN Phys(g.addr + x, g.attr)
             ELSE IF g.kind # "table" \/ g.addr # PhysicalOf(PTAddress) THEN Fault
             ELSE IF h.kind # "page" THEN Fault
             ELSE Phys(h.addr, h.attr)
<1>6. Translate(va) =
        Outcome(armKSGlobalKernelPGD[get_kpt_index(va, 0)],
                armKSGlobalKernelPUD[get_kpt_index(va, 1)],
                Dirs(armKSGlobalKernelPUD[get_kpt_index(va, 1)]),
                Down(Dirs(armKSGlobalKernelPUD[get_kpt_index(va, 1)]), get_kpt_index(va, 2)),
                armKSGlobalKernelPT[get_kpt_index(va, 3)],
                va % PageSize(2))
  BY DEF Translate
<1>7. Translate(va) = Outcome(pgde, pude, dirs, pde, pte, l)
  <2>1. Dirs(pude) = {j}
    BY <1>3
  <2>2. Down({j}, k) = pde
    <3>1. (CHOOSE s \in {j} : TRUE) = j
      OBVIOUS
    <3> QED
      BY <3>1
  <2> HIDE DEF Outcome, Down, Dirs, va
  <2> QED
    BY <1>1, <1>3, <1>6, <2>1, <2>2
<1> HIDE DEF va, dirs, pude, Dirs, Down
<1> HIDE DEF pgde, pde, pte
<1>8. CASE i # Last
  BY <1>4, <1>7, <1>8 DEF ZeroPTE, PTE, va
<1>9. CASE i = Last
  <2>1. pgde.kind = "table" /\ pgde.addr = PhysicalOf(PUDAddress)
    BY <1>4, <1>9 DEF pte_new_table, PTE
  <2>2. Translate(va) =
          IF pde.kind = "block" THEN Phys(pde.addr + l, pde.attr)
          ELSE IF pde.kind # "table" \/ pde.addr # PhysicalOf(PTAddress) THEN Fault
          ELSE IF pte.kind # "page" THEN Fault
          ELSE Phys(pte.addr, pte.attr)
    BY <1>3, <1>7, <2>1
  <2>3. j < Last => Translate(va) = Phys(PADDR_BASE + (j * IndexSize + k) * A + l, "NORMAL")
    BY <1>5, <2>2 DEF Block, pte_new_page, PTE
  <2>4. ~ j < Last /\ k # Last => Translate(va) = Fault
    BY <1>5, <2>2 DEF ZeroPTE, PTE
  <2>5. ~ j < Last /\ k = Last =>
          Translate(va) = IF pte.kind = "page" THEN Phys(pte.addr, pte.attr) ELSE Fault
    BY <1>5, <2>2 DEF pte_new_table, PTE
  <2>6. j = Last => ~ j < Last
    BY Sizes, SMT
  <2> QED
    BY <1>9, <2>3, <2>4, <2>5, <2>6 DEF va, pte
<1> QED
  BY <1>8, <1>9

\* The addresses of the window, and the block that each is in.
LEMMA InWindow ==
  ASSUME NEW i \in TableIndex, NEW j \in TableIndex, NEW k \in TableIndex, NEW l \in TableIndex
  PROVE  /\ Address(i, j, k, l) \in PPTR_BASE .. PPTR_TOP - 1 <=> i = Last /\ j < Last
         /\ i = Last => Address(i, j, k, l) - PPTR_BASE_OFFSET
                          = PADDR_BASE + (j * IndexSize + k) * A + l
<1> DEFINE va == Address(i, j, k, l)
           x  == j * B + (k * A + l)
           c  == Last * C
           b  == Last * B
           w  == (j * IndexSize + k) * A
<1>1. /\ va \in Nat /\ x \in 0 .. C - 1 /\ k * A + l \in 0 .. B - 1
      /\ va = i * C + x
  BY Forms DEF Address
<1>2. /\ PPTR_BASE = c /\ c \in Nat /\ PPTR_TOP = PPTR_BASE + b /\ b \in Nat
      /\ PADDR_BASE \in Nat
  BY Layout
<1>3. /\ {i, j, k, l} \subseteq Nat /\ Last \in Nat /\ i <= Last /\ IndexSize \in Nat
      /\ A \in Nat \ {0} /\ B \in Nat \ {0} /\ C \in Nat \ {0}
  BY Sizes, SMT DEF TableIndex
<1>4. va < c <=> i < Last
  <2>1. i * C + x < Last * C <=> i < Last
    <3>1. i \in Int /\ Last \in Int /\ x \in 0 .. C - 1
      BY <1>1, <1>3
    <3> HIDE DEF x
    <3> QED
      BY <1>3, <3>1, Between
  <2> QED
    BY <1>1, <2>1
<1>5. x < b <=> j < Last
  <2>1. j * B + (k * A + l) < Last * B <=> j < Last
    BY <1>1, <1>3, Between
  <2> QED
    BY <2>1
<1>6. w = j * B + k * A /\ j * B \in Nat /\ k * A \in Nat
  <2>1. j * B \in Nat /\ k * A \in Nat
    BY <1>3, SMT
  <2> QED
    BY <2>1, BlockIndices
<1>7. i = Last => va = c + x
  BY <1>1
<1>8. x = w + l /\ w \in Nat
  <2> DEFINE s == j * B
             t == k * A
  <2>1. w = s + t /\ x = s + (t + l) /\ s \in Nat /\ t \in Nat
    BY <1>6
  <2> HIDE DEF s, t, w, x
  <2> QED
    BY <1>3, <2>1, SMT
<1> HIDE DEF va, x, c, b, w
<1>9. va \in PPTR_BASE .. PPTR_TOP - 1 <=> i = Last /\ j < Last
  <2>1. CASE i = Last
    BY <1>1, <1>2, <1>3, <1>4, <1>5, <1>7, <2>1, SMT
  <2>2. CASE i # Last
    <3>1. i < Last
      BY <1>3, <2>2, SMT
    <3>2. va < c
      BY <1>4, <3>1
    <3> QED
      BY <1>1, <1>2, <2>2, <3>2, SMT
  <2> QED
    BY <2>1, <2>2
<1>10. i = Last => va - PPTR_BASE_OFFSET = PADDR_BASE + w + l
  <2>1. PPTR_BASE_OFFSET = c - PADDR_BASE
    BY <1>2 DEF PPTR_BASE_OFFSET
  <2> QED
    BY <1>1, <1>2, <1>3, <1>7, <1>8, <2>1, SMT
<1> QED
  BY <1>9, <1>10 DEF va, w

\* The finished tables show the window and the devices and nothing else.
LEMMA WindowDone == WInv /\ stage = "done" => KernelWindow
<1> SUFFICES ASSUME WInv, stage = "done" PROVE KernelWindow
  OBVIOUS
<1>1. UpperBuilt /\ DevicesUpTo(Len(kernel_device_frames) + 1)
  BY DEF WInv, LoopInvariant
<1> DEFINE window == PPTR_BASE .. PPTR_TOP - 1
           space  == 0 .. IndexSize * C - 1
<1>2. window \subseteq space
  <2> DEFINE c == Last * C
             s == IndexSize * C
  <2>1. PPTR_BASE = c /\ PPTR_TOP = s - B /\ c \in Nat /\ s \in Int /\ B \in Nat
    <3>1. IndexSize * C \in Int
      BY Sizes, SMT
    <3> QED
      BY <3>1, Layout, Sizes, ArmWindowAssumption DEF B, C
  <2> HIDE DEF c, s
  <2>2. PPTR_BASE .. PPTR_TOP - 1 \subseteq 0 .. s - 1
    BY <2>1, SMT
  <2> QED
    BY <2>2 DEF s
<1>3. \A va \in window : Translate(va) = Phys(va - PPTR_BASE_OFFSET, "NORMAL")
  <2> SUFFICES ASSUME NEW va \in window
               PROVE  Translate(va) = Phys(va - PPTR_BASE_OFFSET, "NORMAL")
    OBVIOUS
  <2>1. va \in space
    BY <1>2
  <2> HIDE DEF space
  <2>2. PICK i, j, k, l \in TableIndex : va = Address(i, j, k, l)
    BY <2>1, HasIndices DEF space
  <2>3. i = Last /\ j < Last
    BY <2>2, InWindow
  <2>4. Translate(va) = Phys(PADDR_BASE + (j * IndexSize + k) * A + l, "NORMAL")
    BY <1>1, <2>2, <2>3, TranslateAddress
  <2>5. va - PPTR_BASE_OFFSET = PADDR_BASE + (j * IndexSize + k) * A + l
    BY <2>2, <2>3, InWindow
  <2> QED
    BY <2>4, <2>5
<1>4. \A n \in DOMAIN kernel_device_frames :
        LET d == kernel_device_frames[n]
        IN  /\ Translate(d.pptr).kind = "memory" /\ Translate(d.pptr).addr = d.paddr
            /\ ~ d.userAvailable => d.paddr \in reserved
  <2> SUFFICES ASSUME NEW n \in DOMAIN kernel_device_frames
               PROVE  LET d == kernel_device_frames[n]
                      IN  /\ Translate(d.pptr).kind = "memory"
                          /\ Translate(d.pptr).addr = d.paddr
                          /\ ~ d.userAvailable => d.paddr \in reserved
    OBVIOUS
  <2>1. n < Len(kernel_device_frames) + 1
    <3>1. /\ DOMAIN kernel_device_frames = 1 .. Len(kernel_device_frames)
          /\ Len(kernel_device_frames) \in Nat
      BY ArmWindowAssumption
    <3> QED
      BY <3>1, SMT
  <2> DEFINE d   == kernel_device_frames[n]
             pte == armKSGlobalKernelPT[Slot(n)]
  <2>2. /\ pte.kind = "page" /\ pte.addr = d.paddr
        /\ ~ d.userAvailable => d.paddr \in reserved
    BY <1>1, <2>1 DEF DevicesUpTo
  <2>3. Slot(n) \in TableIndex /\ d.pptr = Address(Last, Last, Last, Slot(n))
    BY DeviceAddress
  <2>4. Translate(Address(Last, Last, Last, Slot(n))) = Phys(pte.addr, pte.attr)
    BY <1>1, <2>2, <2>3, Layout, TranslateAddress
  <2> QED
    BY <2>2, <2>3, <2>4 DEF Phys
<1>5. \A va \in space :
        va \notin window /\ (\A n \in DOMAIN kernel_device_frames :
                               kernel_device_frames[n].pptr # va)
          => Translate(va) = Fault
  <2> SUFFICES ASSUME NEW va \in space, va \notin window,
                      \A n \in DOMAIN kernel_device_frames : kernel_device_frames[n].pptr # va
               PROVE  Translate(va) = Fault
    OBVIOUS
  <2>1. PICK i, j, k, l \in TableIndex : va = Address(i, j, k, l)
    BY HasIndices
  <2>2. ~ (i = Last /\ j < Last)
    BY <2>1, InWindow
  <2>3. j = Last \/ j < Last
    BY Sizes, SMT DEF TableIndex
  <2>4. CASE i = Last /\ j = Last /\ k = Last
    <3>1. armKSGlobalKernelPT[l].kind # "page"
      <4> SUFFICES ASSUME armKSGlobalKernelPT[l].kind = "page" PROVE FALSE
        OBVIOUS
      <4>1. PICK m \in DOMAIN kernel_device_frames : Slot(m) = l
        BY <1>1 DEF DevicesUpTo
      <4>2. kernel_device_frames[m].pptr = va
        BY <2>1, <2>4, <4>1, DeviceAddress
      <4> QED
        BY <4>2
    <3> QED
      BY <1>1, <2>1, <2>4, <3>1, TranslateAddress
  <2>5. CASE ~ (i = Last /\ j = Last /\ k = Last)
    BY <1>1, <2>1, <2>2, <2>3, <2>5, TranslateAddress
  <2> QED
    BY <2>4, <2>5
<1> QED
  BY <1>3, <1>4, <1>5 DEF KernelWindow, C

\* Whatever the size of the tables, the place of the image and the devices, a
\* hart turns the kernel's tables on only when they show the window and every
\* device, each at its own address, and nothing else.
THEOREM KernelRunsOnIt == BootSpec => KernelRunsOnItsWindow
<1>1. WInv /\ [BootNext]_<<vars, windowVars>>
        => [\A h \in Harts : ~ Active(h) /\ Active(h)' => KernelWindow]_<<vars, windowVars>>
  <2> SUFFICES ASSUME WInv, BootNext,
                      NEW h \in Harts, ~ Active(h), Active(h)'
               PROVE  KernelWindow
    BY DEF KernelRunsOnItsWindow
  <2>1. CASE WindowNext /\ UNCHANGED vars
    BY <2>1 DEF vars, Active
  <2>2. CASE stage = "done"
    BY <2>2, WindowDone
  <2> QED
    BY <2>1, <2>2 DEF BootNext
<1> QED
  BY <1>1, WindowInvariant, PTL DEF BootSpec, KernelRunsOnItsWindow

------------------------------------------------------------------------------
\* Every behaviour of the kernel that starts with rust_map_kernel_window is one
\* of the ASID table: what is proved of ArmAsid holds while the kernel's page
\* tables are being filled, too.
THEOREM BootImplementsAsid == BootSpec => Spec
<1>1. BootInit => Init
  BY DEF BootInit
<1>2. [BootNext]_<<vars, windowVars>> => [Next]_vars
  BY DEF BootNext
<1> QED
  BY <1>1, <1>2, PTL DEF BootSpec, Spec
==============================================================================
