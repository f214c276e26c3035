---------------------------- MODULE RiscvBootProofs ----------------------------
(***************************************************************************)
(* What the RISC-V kernel guarantees from the first line of                *)
(* rust_map_kernel_window on: of its ASID table, for any number of harts,  *)
(* roots, pools and ASIDs, and of its own page tables, for every size of   *)
(* the tables and every layout that the figure allows.                     *)
(*                                                                         *)
(* For the ASID table IInv adds to the checked invariants what the callers *)
(* keep of the capabilities (CapsDisjoint): without it an entry cleared    *)
(* through one index of the table could be read through another.           *)
(*                                                                         *)
(* For the page tables everything is counted in pages of the root's level: *)
(* a loop invariant says how many of its entries each loop has written.    *)
(***************************************************************************)
EXTENDS RiscvBoot, TLAPS

------------------------------------------------------------------------------
(* The ASID table, RiscvAsid.                                              *)

\* A root has one ASID at a time and a pool serves one index at a time.
CapsDisjoint ==
  /\ \A c, d \in caps : c.root = d.root => c = d
  /\ \A c, d \in poolCaps : c[2] = d[2] => c = d

\* A hart caches nothing but translations of the space it runs on.
TlbOfActive == \A h \in Harts : tlb[h] \subseteq {satp[h]}

\* The table points only to pools whose capability exists, at their index.
TableBacked ==
  \A i \in High : riscvKSASIDTable[i] # Null => <<i, riscvKSASIDTable[i]>> \in poolCaps

\* An ASID resolves only to a root whose capability names that ASID.
BindingBacked ==
  \A a \in Asids, r \in Roots : BoundTo(a, r) => [root |-> r, asid |-> a] \in caps

\* The table is empty until the initial thread has its ASID.
EmptyBeforeBoot == ~ booted => \A i \in High : riscvKSASIDTable[i] = Null

\* The inductive invariant.
IInv ==
  /\ TypeOK
  /\ CapsDisjoint
  /\ TlbOfActive
  /\ TableBacked
  /\ BindingBacked
  /\ EmptyBeforeBoot

------------------------------------------------------------------------------
\* An ASID splits into an index of the table and an index of a pool.
LEMMA AsidSplit ==
  ASSUME NEW a \in Asids
  PROVE  /\ HighOf(a) \in High
         /\ LowOf(a) \in Low
         /\ a = HighOf(a) * LowSize + LowOf(a)
BY RiscvAsidAssumption, SMT DEF HighOf, LowOf, High, Low, Asids

\* Two ASIDs with the same indices are the same ASID.
LEMMA AsidInjective ==
  ASSUME NEW a \in Asids, NEW b \in Asids,
         HighOf(a) = HighOf(b), LowOf(a) = LowOf(b)
  PROVE  a = b
BY AsidSplit

\* write_it_asid_pool indexes the pool by IT_ASID itself: its low bits are all
\* of it, and its index is 0.
LEMMA ItAsidIsAsid ==
  ItAsid \in Asids /\ HighOf(ItAsid) = 0 /\ LowOf(ItAsid) = ItAsid
BY RiscvAsidAssumption, SMT DEF HighOf, LowOf, Low, Asids

\* The base ASID that delete_asid_pool is given is that of its index.
LEMMA BaseIndex ==
  ASSUME NEW i \in High
  PROVE  HighOf(i * LowSize) = i
BY RiscvAsidAssumption, SMT DEF HighOf, High

------------------------------------------------------------------------------
\* Switching the address space of a hart keeps the types of satp and tlb.
LEMMA SetVmRootType ==
  ASSUME TypeOK, NEW h \in Harts, NEW c \in ThreadRoots, set_vm_root(h, c)
  PROVE  /\ satp' \in [Harts -> Space \cup {KernelSpace, BootSpace}]
         /\ tlb' \in [Harts -> SUBSET (Space \cup {KernelSpace, BootSpace})]
<1>1. [root |-> c.root, asid |-> c.asid] \in Space \/ c = NonVSpaceCap
  BY DEF ThreadRoots, TypeOK, Space
<1> QED
  BY <1>1 DEF set_vm_root, set_vspace_root, TypeOK

\* ... and leaves the hart with an empty TLB.
LEMMA SetVmRootTlb ==
  ASSUME TypeOK, TlbOfActive, NEW h \in Harts, NEW c, set_vm_root(h, c)
  PROVE  TlbOfActive'
BY DEF set_vm_root, set_vspace_root, TypeOK, TlbOfActive

\* The initial state is well typed.
LEMMA TypeInit == Init => TypeOK
BY DEF Init, TypeOK

\* Every operation keeps the types.
LEMMA TypeStep == TypeOK /\ [Next]_vars => TypeOK'
<1> SUFFICES ASSUME TypeOK, [Next]_vars PROVE TypeOK'
  OBVIOUS
<1> USE DEF TypeOK
<1>1. CASE UNCHANGED vars
  BY <1>1 DEF vars
<1>2. ASSUME NEW h \in Harts, ActivateKernel(h) PROVE TypeOK'
  BY <1>2 DEF ActivateKernel, activate_kernel_vspace, set_vspace_root, tables
<1>3. ASSUME NEW h \in Harts, NEW p \in Pools, NEW r \in Roots, InitialThread(h, p, r)
      PROVE  TypeOK'
  BY <1>3, ItAsidIsAsid, AsidSplit, RiscvAsidAssumption
     DEF InitialThread, write_it_asid_pool, set_asid_pool_by_index, hart, Space, KernelAsid
<1>4. ASSUME NEW h \in Harts, NEW i \in High, NEW p \in Pools, InstallPool(h, i, p)
      PROVE  TypeOK'
  BY <1>4 DEF InstallPool, set_asid_pool_by_index, hart
<1>5. ASSUME NEW h \in Harts, NEW a \in Asids, NEW r \in Roots, AssignAsid(h, a, r)
      PROVE  TypeOK'
  BY <1>5, AsidSplit DEF AssignAsid, set_vspace_by_index, hart, Space
<1>6. ASSUME NEW h \in Harts, NEW c \in ThreadRoots, SwitchThread(h, c) PROVE TypeOK'
  BY <1>6, SetVmRootType DEF SwitchThread, tables
<1>7. ASSUME NEW h \in Harts, NEW c \in caps, NEW d \in ThreadRoots, DeleteAsid(h, c, d)
      PROVE  TypeOK'
  <2>1. c.asid \in Asids
    BY DEF Space
  <2> QED
    BY <1>7, <2>1, SetVmRootType, AsidSplit, SMTT(20)
       DEF DeleteAsid, delete_asid, set_vspace_by_index, tables, hart
<1>8. ASSUME NEW h \in Harts, NEW c \in poolCaps \cup poolCopies, NEW k, NEW d \in ThreadRoots,
             DeleteAsidPool(h, c[1], c[2], k, d)
      PROVE  TypeOK'
  <2>1. c[1] \in High /\ HighOf(c[1] * LowSize) = c[1]
    BY BaseIndex
  <2> QED
    BY <1>8, <2>1, SetVmRootType
       DEF DeleteAsidPool, delete_asid_pool, set_asid_pool_by_index, tables, hart
<1>9. ASSUME NEW h \in Harts, TlbFill(h) PROVE TypeOK'
  BY <1>9 DEF TlbFill, tables
<1> QED
  BY <1>1, <1>2, <1>3, <1>4, <1>5, <1>6, <1>7, <1>8, <1>9 DEF Next

\* Every variable keeps its type for any number of harts, roots, pools and
\* ASIDs: entries are roots or Null whatever the order of the operations.
THEOREM TypeCorrect == Spec => []TypeOK
BY TypeInit, TypeStep, PTL DEF Spec

------------------------------------------------------------------------------
\* Entries of the table that are in use name different pools.
LEMMA PoolServesOneIndex ==
  ASSUME IInv, NEW i \in High, NEW j \in High,
         riscvKSASIDTable[i] # Null, riscvKSASIDTable[i] = riscvKSASIDTable[j]
  PROVE  i = j
<1>1. /\ <<i, riscvKSASIDTable[i]>> \in poolCaps
      /\ <<j, riscvKSASIDTable[j]>> \in poolCaps
  BY DEF IInv, TableBacked
<1> QED
  BY <1>1 DEF IInv, CapsDisjoint

\* So two ASIDs that are read from one entry of one pool are the same.
LEMMA EntryServesOneAsid ==
  ASSUME IInv, NEW a \in Asids, NEW b \in Asids,
         riscvKSASIDTable[HighOf(a)] # Null,
         riscvKSASIDTable[HighOf(a)] = riscvKSASIDTable[HighOf(b)],
         LowOf(a) = LowOf(b)
  PROVE  a = b
<1>1. HighOf(a) = HighOf(b)
  BY PoolServesOneIndex, AsidSplit
<1> QED
  BY <1>1, AsidInjective

\* Deleting an ASID leaves every other binding as it was, and its own when
\* the capability is not the one the entry names.
LEMMA DeleteAsidBindings ==
  ASSUME IInv, NEW h \in Harts, NEW c \in caps, NEW d, DeleteAsid(h, c, d),
         NEW a \in Asids
  PROVE  /\ a # c.asid => find_vspace_for_asid(a)' = find_vspace_for_asid(a)
         /\ BoundTo(c.asid, c.root) => find_vspace_for_asid(c.asid)' = Null
         /\ ~ BoundTo(c.asid, c.root)
              => find_vspace_for_asid(a)' = find_vspace_for_asid(a)
<1> DEFINE pool == riscvKSASIDTable[HighOf(c.asid)]
<1>1. c.asid \in Asids /\ c.root \in Roots /\ c.root # Null
  BY RiscvAsidAssumption DEF IInv, TypeOK, Space
<1>2. BoundTo(c.asid, c.root) <=> pool # Null /\ array[pool][LowOf(c.asid)] = c.root
  BY <1>1 DEF BoundTo, find_vspace_for_asid
<1>3. CASE ~ BoundTo(c.asid, c.root)
  <2>1. UNCHANGED tables
    BY <1>2, <1>3 DEF DeleteAsid, delete_asid
  <2> QED
    BY <1>3, <2>1 DEF tables, find_vspace_for_asid
<1>4. CASE BoundTo(c.asid, c.root)
  <2>1. /\ riscvKSASIDTable' = riscvKSASIDTable
        /\ array' = [array EXCEPT ![pool][LowOf(c.asid)] = Null]
    BY <1>2, <1>4 DEF DeleteAsid, delete_asid, set_vspace_by_index
  <2>2. pool \in Pools /\ LowOf(c.asid) \in Low
    BY <1>1, <1>2, <1>4, AsidSplit DEF IInv, TypeOK
  <2>3. find_vspace_for_asid(c.asid)' = Null
    BY <1>2, <1>4, <2>1, <2>2 DEF IInv, TypeOK, find_vspace_for_asid
  <2>4. ASSUME a # c.asid
        PROVE  find_vspace_for_asid(a)' = find_vspace_for_asid(a)
    <3>1. ~ (riscvKSASIDTable[HighOf(a)] = pool /\ LowOf(a) = LowOf(c.asid))
      BY <1>1, <1>2, <1>4, <2>4, EntryServesOneAsid
    <3>2. riscvKSASIDTable[HighOf(a)] \in Pools \cup {Null} /\ LowOf(a) \in Low
      BY AsidSplit DEF IInv, TypeOK
    <3> QED
      BY <2>1, <2>2, <3>1, <3>2 DEF IInv, TypeOK, find_vspace_for_asid
  <2> QED
    BY <1>4, <2>3, <2>4
<1> QED
  BY <1>3, <1>4

\* Deleting a pool releases the ASIDs of its index, if the table still names
\* the pool there, and no other.
LEMMA DeletePoolBindings ==
  ASSUME IInv, NEW h \in Harts, NEW c \in poolCaps \cup poolCopies, NEW k, NEW d,
         DeleteAsidPool(h, c[1], c[2], k, d), NEW a \in Asids
  PROVE  /\ HighOf(a) # c[1] => find_vspace_for_asid(a)' = find_vspace_for_asid(a)
         /\ HighOf(a) = c[1] /\ riscvKSASIDTable[c[1]] = c[2]
              => find_vspace_for_asid(a)' = Null
         /\ riscvKSASIDTable[c[1]] # c[2]
              => find_vspace_for_asid(a)' = find_vspace_for_asid(a)
<1>1. c[1] \in High /\ HighOf(c[1] * LowSize) = c[1] /\ HighOf(a) \in High
  BY BaseIndex, AsidSplit DEF IInv, TypeOK
<1> QED
  BY <1>1 DEF DeleteAsidPool, delete_asid_pool, set_asid_pool_by_index, tables,
              find_vspace_for_asid, IInv, TypeOK

\* A fresh pool holds nothing, and the pools already in use are not touched.
LEMMA InstallPoolBindings ==
  ASSUME IInv, NEW h \in Harts, NEW i \in High, NEW p \in Pools,
         InstallPool(h, i, p), NEW a \in Asids
  PROVE  find_vspace_for_asid(a)' = find_vspace_for_asid(a)
<1>1. HighOf(a) \in High /\ LowOf(a) \in Low /\ p # Null
  BY AsidSplit, RiscvAsidAssumption
<1>2. CASE HighOf(a) = i
  BY <1>1, <1>2 DEF InstallPool, set_asid_pool_by_index, find_vspace_for_asid, IInv, TypeOK
<1>3. CASE HighOf(a) # i
  <2>1. riscvKSASIDTable[HighOf(a)] # p
    <3>1. \A c \in poolCaps : c[2] # p
      BY DEF InstallPool
    <3>2. riscvKSASIDTable[HighOf(a)] # Null
            => <<HighOf(a), riscvKSASIDTable[HighOf(a)]>> \in poolCaps
      BY <1>1 DEF IInv, TableBacked
    <3> QED
      BY <1>1, <3>1, <3>2
  <2> QED
    BY <1>1, <1>3, <2>1
       DEF InstallPool, set_asid_pool_by_index, find_vspace_for_asid, IInv, TypeOK
<1> QED
  BY <1>2, <1>3

\* Assigning an ASID binds a free one, and only that one.
LEMMA AssignBindings ==
  ASSUME IInv, NEW h \in Harts, NEW b \in Asids, NEW r \in Roots,
         AssignAsid(h, b, r), NEW a \in Asids
  PROVE  /\ find_vspace_for_asid(b) = Null
         /\ find_vspace_for_asid(b)' = r
         /\ a # b => find_vspace_for_asid(a)' = find_vspace_for_asid(a)
<1> DEFINE pool == riscvKSASIDTable[HighOf(b)]
<1>1. /\ HighOf(a) \in High /\ LowOf(a) \in Low
      /\ HighOf(b) \in High /\ LowOf(b) \in Low
  BY AsidSplit
<1>2. /\ pool \in Pools /\ array[pool][LowOf(b)] = Null
      /\ riscvKSASIDTable' = riscvKSASIDTable
      /\ array' = [array EXCEPT ![pool][LowOf(b)] = r]
  BY <1>1 DEF AssignAsid, set_vspace_by_index, IInv, TypeOK
<1>3. find_vspace_for_asid(b) = Null /\ find_vspace_for_asid(b)' = r
  BY <1>1, <1>2, RiscvAsidAssumption DEF find_vspace_for_asid, IInv, TypeOK
<1>4. ASSUME a # b PROVE find_vspace_for_asid(a)' = find_vspace_for_asid(a)
  <2>1. ~ (riscvKSASIDTable[HighOf(a)] = pool /\ LowOf(a) = LowOf(b))
    BY <1>2, <1>4, EntryServesOneAsid, RiscvAsidAssumption
  <2>2. riscvKSASIDTable[HighOf(a)] \in Pools \cup {Null}
    BY <1>1 DEF IInv, TypeOK
  <2> QED
    BY <1>1, <1>2, <2>1, <2>2 DEF find_vspace_for_asid, IInv, TypeOK
<1> QED
  BY <1>3, <1>4

\* The boot code binds the initial thread's ASID in a table that was empty.
LEMMA BootBindings ==
  ASSUME IInv, NEW h \in Harts, NEW p \in Pools, NEW r \in Roots,
         InitialThread(h, p, r), NEW a \in Asids
  PROVE  /\ find_vspace_for_asid(a) = Null
         /\ find_vspace_for_asid(a)' = IF a = ItAsid THEN r ELSE Null
<1>1. HighOf(a) \in High /\ LowOf(a) \in Low
  BY AsidSplit
<1>2. \A i \in High : riscvKSASIDTable[i] = Null
  BY DEF InitialThread, IInv, EmptyBeforeBoot
<1>3. /\ riscvKSASIDTable' = [riscvKSASIDTable EXCEPT ![0] = p]
      /\ array'[p] = [l \in Low |-> IF l = ItAsid THEN r ELSE Null]
      /\ 0 \in High /\ p # Null
  BY ItAsidIsAsid, AsidSplit, RiscvAsidAssumption
     DEF InitialThread, write_it_asid_pool, set_asid_pool_by_index, IInv, TypeOK
<1>4. a = ItAsid <=> HighOf(a) = 0 /\ LowOf(a) = ItAsid
  BY ItAsidIsAsid, AsidInjective
<1> QED
  BY <1>1, <1>2, <1>3, <1>4 DEF find_vspace_for_asid, IInv, TypeOK

\* The other operations read the tables only.
LEMMA SameBindings ==
  ASSUME UNCHANGED tables, NEW a
  PROVE  find_vspace_for_asid(a)' = find_vspace_for_asid(a)
BY DEF tables, find_vspace_for_asid

------------------------------------------------------------------------------
\* The inductive invariant holds before any hart is up.
LEMMA IInvInit == Init => IInv
<1> SUFFICES ASSUME Init PROVE IInv
  OBVIOUS
<1>1. \A a \in Asids : find_vspace_for_asid(a) = Null
  BY AsidSplit DEF Init, find_vspace_for_asid
<1> QED
  BY <1>1, TypeInit, RiscvAsidAssumption
     DEF Init, IInv, CapsDisjoint, TlbOfActive, TableBacked, BindingBacked, BoundTo,
         EmptyBeforeBoot

\* What is cached stays within the space the hart runs on.
LEMMA TlbStep == IInv /\ [Next]_vars => TlbOfActive'
<1> SUFFICES ASSUME IInv, [Next]_vars PROVE TlbOfActive'
  OBVIOUS
<1> USE DEF IInv
<1>1. CASE UNCHANGED vars
  BY <1>1 DEF vars, TlbOfActive
<1>2. ASSUME NEW h \in Harts, ActivateKernel(h) PROVE TlbOfActive'
  BY <1>2 DEF ActivateKernel, activate_kernel_vspace, set_vspace_root, TypeOK, TlbOfActive
<1>3. ASSUME UNCHANGED hart PROVE TlbOfActive'
  BY <1>3 DEF hart, TlbOfActive
<1>4. ASSUME NEW h \in Harts, NEW c, SwitchThread(h, c) PROVE TlbOfActive'
  BY <1>4, SetVmRootTlb DEF SwitchThread
<1>5. ASSUME NEW h \in Harts, NEW c \in caps, NEW d, DeleteAsid(h, c, d)
      PROVE  TlbOfActive'
  BY <1>3, <1>5, SetVmRootTlb DEF DeleteAsid, delete_asid
<1>6. ASSUME NEW h \in Harts, NEW c \in poolCaps \cup poolCopies, NEW k, NEW d,
             DeleteAsidPool(h, c[1], c[2], k, d)
      PROVE  TlbOfActive'
  BY <1>3, <1>6, SetVmRootTlb DEF DeleteAsidPool, delete_asid_pool
<1>7. ASSUME NEW h \in Harts, TlbFill(h) PROVE TlbOfActive'
  BY <1>7 DEF TlbFill, TypeOK, TlbOfActive
<1>8. ASSUME NEW h \in Harts, NEW x, NEW y,
             InitialThread(h, x, y) \/ InstallPool(h, x, y) \/ AssignAsid(h, x, y)
      PROVE  TlbOfActive'
  BY <1>3, <1>8 DEF InitialThread, InstallPool, AssignAsid
<1> QED
  BY <1>1, <1>2, <1>4, <1>5, <1>6, <1>7, <1>8 DEF Next

\* The capabilities stay disjoint and back the table and its bindings.
CapsInv == CapsDisjoint /\ TableBacked /\ BindingBacked /\ EmptyBeforeBoot

\* Every operation keeps them: the bindings of the other ASIDs do not change.
LEMMA CapsStep == IInv /\ [Next]_vars => CapsInv'
<1> SUFFICES ASSUME IInv, [Next]_vars PROVE CapsInv'
  OBVIOUS
<1> USE DEF CapsInv
<1>1. ASSUME UNCHANGED <<tables, caps, poolCaps, booted>> PROVE CapsInv'
  BY <1>1, SameBindings
     DEF IInv, CapsDisjoint, TableBacked, BindingBacked, BoundTo, EmptyBeforeBoot, tables
<1>2. ASSUME NEW h \in Harts, NEW p \in Pools, NEW r \in Roots, InitialThread(h, p, r)
      PROVE  CapsInv'
  <2>1. CapsDisjoint' /\ EmptyBeforeBoot'
    BY <1>2 DEF InitialThread, CapsDisjoint, EmptyBeforeBoot
  <2>2. TableBacked'
    BY <1>2, ItAsidIsAsid
       DEF InitialThread, write_it_asid_pool, set_asid_pool_by_index, TableBacked, IInv,
           TypeOK, EmptyBeforeBoot
  <2>3. BindingBacked'
    BY <1>2, BootBindings, RiscvAsidAssumption DEF InitialThread, BindingBacked, BoundTo
  <2> QED
    BY <2>1, <2>2, <2>3
<1>3. ASSUME NEW h \in Harts, NEW i \in High, NEW p \in Pools, InstallPool(h, i, p)
      PROVE  CapsInv'
  <2>1. CapsDisjoint' /\ EmptyBeforeBoot'
    BY <1>3 DEF InstallPool, Running, CapsDisjoint, EmptyBeforeBoot, IInv
  <2>2. TableBacked'
    BY <1>3 DEF InstallPool, set_asid_pool_by_index, TableBacked, IInv, TypeOK
  <2>3. BindingBacked'
    BY <1>3, InstallPoolBindings DEF InstallPool, BindingBacked, BoundTo, IInv
  <2> QED
    BY <2>1, <2>2, <2>3
<1>4. ASSUME NEW h \in Harts, NEW a \in Asids, NEW r \in Roots, AssignAsid(h, a, r)
      PROVE  CapsInv'
  <2>1. CapsDisjoint' /\ EmptyBeforeBoot' /\ TableBacked'
    BY <1>4 DEF AssignAsid, Running, CapsDisjoint, EmptyBeforeBoot, TableBacked, IInv
  <2>2. BindingBacked'
    BY <1>4, AssignBindings DEF AssignAsid, BindingBacked, BoundTo, IInv
  <2> QED
    BY <2>1, <2>2
<1>5. ASSUME NEW h \in Harts, NEW c \in caps, NEW d \in ThreadRoots, DeleteAsid(h, c, d)
      PROVE  CapsInv'
  <2>1. riscvKSASIDTable' = riscvKSASIDTable
    BY <1>5 DEF DeleteAsid, delete_asid, tables
  <2>2. CapsDisjoint' /\ EmptyBeforeBoot' /\ TableBacked'
    BY <1>5, <2>1 DEF DeleteAsid, CapsDisjoint, EmptyBeforeBoot, TableBacked, IInv
  <2>3. ASSUME NEW a \in Asids, NEW r \in Roots, BoundTo(a, r)'
        PROVE  [root |-> r, asid |-> a] \in caps'
    <3>1. r # Null /\ find_vspace_for_asid(a)' = r
      BY <2>3, RiscvAsidAssumption DEF BoundTo
    <3>2. BoundTo(a, r) /\ ~ (a = c.asid /\ r = c.root)
      BY <1>5, <3>1, DeleteAsidBindings DEF BoundTo
    <3>3. [root |-> r, asid |-> a] \in caps
      BY <3>2 DEF IInv, BindingBacked
    <3>4. [root |-> r, asid |-> a] # c
      BY <3>2
    <3> QED
      BY <1>5, <3>3, <3>4 DEF DeleteAsid
  <2> QED
    BY <2>2, <2>3 DEF BindingBacked
<1>6. ASSUME NEW h \in Harts, NEW c \in poolCaps \cup poolCopies, NEW k, NEW d \in ThreadRoots,
             DeleteAsidPool(h, c[1], c[2], k, d)
      PROVE  CapsInv'
  <2>1. c = <<c[1], c[2]>> /\ c[1] \in High /\ HighOf(c[1] * LowSize) = c[1]
    BY BaseIndex DEF IInv, TypeOK
  <2>2. CapsDisjoint' /\ EmptyBeforeBoot'
    BY <1>6 DEF DeleteAsidPool, Running, CapsDisjoint, EmptyBeforeBoot, IInv
  <2>3. TableBacked'
    BY <1>6, <2>1 DEF DeleteAsidPool, delete_asid_pool, set_asid_pool_by_index, tables,
                      TableBacked, IInv, TypeOK
  <2>4. BindingBacked'
    BY <1>6, DeletePoolBindings, RiscvAsidAssumption
       DEF DeleteAsidPool, BindingBacked, BoundTo, IInv
  <2> QED
    BY <2>2, <2>3, <2>4
<1>7. ASSUME NEW h \in Harts, NEW c,
             ActivateKernel(h) \/ SwitchThread(h, c) \/ TlbFill(h)
      PROVE  CapsInv'
  BY <1>1, <1>7 DEF ActivateKernel, SwitchThread, TlbFill
<1>8. CASE UNCHANGED vars
  BY <1>1, <1>8 DEF vars, tables
<1> QED
  BY <1>2, <1>3, <1>4, <1>5, <1>6, <1>7, <1>8 DEF Next

\* Every step preserves the inductive invariant.
LEMMA IInvStep == IInv /\ [Next]_vars => IInv'
BY TypeStep, TlbStep, CapsStep DEF IInv, CapsInv

\* Hence it always holds.
LEMMA IInvAlways == Spec => []IInv
BY IInvInit, IInvStep, PTL DEF Spec

------------------------------------------------------------------------------
\* No ASID resolves to a root whose capability is gone, nor through a pool
\* whose capability is gone, after any sequence of assignments and deletions.
THEOREM BindingsAreBacked == Spec => []NothingOutlivesItsCap
<1>1. IInv => NothingOutlivesItsCap
  BY DEF IInv, TableBacked, BindingBacked, NothingOutlivesItsCap
<1> QED
  BY <1>1, IInvAlways, PTL

\* The flush of one ASID reaches all that was walked from a root, because no
\* root is bound to two ASIDs.
THEOREM OneAsidPerRoot == Spec => []RootHasOneAsid
<1>1. ASSUME IInv PROVE RootHasOneAsid
  <2> SUFFICES ASSUME NEW a \in Asids, NEW b \in Asids, NEW r \in Roots,
                      BoundTo(a, r), BoundTo(b, r)
               PROVE  a = b
    BY DEF RootHasOneAsid
  <2> DEFINE c == [root |-> r, asid |-> a]
             d == [root |-> r, asid |-> b]
  <2>1. c \in caps /\ d \in caps
    BY <1>1 DEF IInv, BindingBacked
  <2>2. c.root = d.root
    OBVIOUS
  <2>3. c = d
    BY <1>1, <2>1, <2>2 DEF IInv, CapsDisjoint
  <2> QED
    BY <2>3
<1> QED
  BY <1>1, IInvAlways, PTL

\* No hart uses an entry cached for an earlier owner of its active ASID.
THEOREM AsidsAreNotAliased == Spec => []NoAsidAliasing
<1>1. IInv => NoAsidAliasing
  BY DEF IInv, TlbOfActive, NoAsidAliasing
<1> QED
  BY <1>1, IInvAlways, PTL

\* What a step does to the map of ASIDs: nothing, one binding, one release of
\* an ASID with its capability, or one release of a pool's ASIDs with its own.
MapSteps ==
  \/ \A a \in Asids : find_vspace_for_asid(a)' = find_vspace_for_asid(a)
  \/ \E b \in Asids, r \in Roots :
       /\ \A a \in Asids : ~ BoundTo(a, r)
       /\ find_vspace_for_asid(b) = Null
       /\ \A a \in Asids :
            find_vspace_for_asid(a)' = IF a = b THEN r ELSE find_vspace_for_asid(a)
  \/ \E c \in caps :
       /\ caps' = caps \ {c}
       /\ BoundTo(c.asid, c.root)
       /\ \A a \in Asids :
            find_vspace_for_asid(a)' = IF a = c.asid THEN Null ELSE find_vspace_for_asid(a)
  \/ \E i \in High :
       /\ <<i, riscvKSASIDTable[i]>> \notin poolCaps'
       /\ \A a \in Asids :
            find_vspace_for_asid(a)' = IF HighOf(a) = i THEN Null ELSE find_vspace_for_asid(a)

\* Every step of the code is one of those.
LEMMA StepOfMap == IInv /\ [Next]_vars => MapSteps
<1> SUFFICES ASSUME IInv, [Next]_vars PROVE MapSteps
  OBVIOUS
<1>1. ASSUME UNCHANGED tables PROVE MapSteps
  BY <1>1, SameBindings DEF MapSteps
<1>2. ASSUME NEW h \in Harts, NEW p \in Pools, NEW r \in Roots, InitialThread(h, p, r)
      PROVE  MapSteps
  <2>1. \A a \in Asids : ~ BoundTo(a, r)
    BY <1>2, BootBindings, RiscvAsidAssumption DEF BoundTo
  <2> QED
    BY <1>2, <2>1, BootBindings, ItAsidIsAsid DEF MapSteps
<1>3. ASSUME NEW h \in Harts, NEW i \in High, NEW p \in Pools, InstallPool(h, i, p)
      PROVE  MapSteps
  BY <1>3, InstallPoolBindings DEF MapSteps
<1>4. ASSUME NEW h \in Harts, NEW b \in Asids, NEW r \in Roots, AssignAsid(h, b, r)
      PROVE  MapSteps
  <2>1. ASSUME NEW a \in Asids, BoundTo(a, r) PROVE FALSE
    <3>1. [root |-> r, asid |-> a] \in caps
      BY <2>1 DEF IInv, BindingBacked
    <3>2. [root |-> r, asid |-> a].root = r
      OBVIOUS
    <3> QED
      BY <1>4, <3>1, <3>2 DEF AssignAsid
  <2> QED
    BY <1>4, <2>1, AssignBindings DEF MapSteps
<1>5. ASSUME NEW h \in Harts, NEW c \in caps, NEW d \in ThreadRoots, DeleteAsid(h, c, d)
      PROVE  MapSteps
  <2>1. CASE BoundTo(c.asid, c.root)
    <3>1. c.asid \in Asids
      BY DEF IInv, TypeOK, Space
    <3>2. \A a \in Asids :
            find_vspace_for_asid(a)' = IF a = c.asid THEN Null ELSE find_vspace_for_asid(a)
      BY <1>5, <2>1, DeleteAsidBindings
    <3>3. caps' = caps \ {c}
      BY <1>5 DEF DeleteAsid
    <3> QED
      BY <2>1, <3>2, <3>3 DEF MapSteps
  <2>2. CASE ~ BoundTo(c.asid, c.root)
    BY <1>5, <2>2, DeleteAsidBindings DEF MapSteps
  <2> QED
    BY <2>1, <2>2
<1>6. ASSUME NEW h \in Harts, NEW c \in poolCaps \cup poolCopies, NEW k, NEW d \in ThreadRoots,
             DeleteAsidPool(h, c[1], c[2], k, d)
      PROVE  MapSteps
  <2>1. c = <<c[1], c[2]>> /\ c[1] \in High
    BY DEF IInv, TypeOK
  <2>2. CASE riscvKSASIDTable[c[1]] = c[2]
    <3>1. <<c[1], riscvKSASIDTable[c[1]]>> \notin poolCaps'
      BY <1>6, <2>2 DEF DeleteAsidPool
    <3>2. \A a \in Asids :
            find_vspace_for_asid(a)' = IF HighOf(a) = c[1] THEN Null ELSE find_vspace_for_asid(a)
      BY <1>6, <2>2, DeletePoolBindings
    <3> QED
      BY <2>1, <3>1, <3>2 DEF MapSteps
  <2>3. CASE riscvKSASIDTable[c[1]] # c[2]
    BY <1>6, <2>3, DeletePoolBindings DEF MapSteps
  <2> QED
    BY <2>2, <2>3
<1>7. ASSUME NEW h \in Harts, NEW c,
             ActivateKernel(h) \/ SwitchThread(h, c) \/ TlbFill(h)
      PROVE  MapSteps
  BY <1>1, <1>7 DEF ActivateKernel, SwitchThread, TlbFill
<1>8. CASE UNCHANGED vars
  BY <1>1, <1>8 DEF vars, tables
<1> QED
  BY <1>2, <1>3, <1>4, <1>5, <1>6, <1>7, <1>8 DEF Next

\* Deleting a capability whose ASID has been given to another root since, or a
\* pool whose index has, never takes the ASID from its new owner.
THEOREM StaleDeletesAreHarmless == Spec => StaleDeleteHarmless
<1> DEFINE Kept ==
      \A a \in Asids, r \in Roots :
        BoundTo(a, r) /\ ~ BoundTo(a, r)' =>
          \/ [root |-> r, asid |-> a] \notin caps'
          \/ <<HighOf(a), riscvKSASIDTable[HighOf(a)]>> \notin poolCaps'
<1>1. ASSUME IInv, [Next]_vars PROVE Kept
  <2> SUFFICES ASSUME NEW a \in Asids, NEW r \in Roots, BoundTo(a, r), ~ BoundTo(a, r)'
               PROVE  \/ [root |-> r, asid |-> a] \notin caps'
                      \/ <<HighOf(a), riscvKSASIDTable[HighOf(a)]>> \notin poolCaps'
    OBVIOUS
  <2>1. r # Null /\ find_vspace_for_asid(a) = r /\ find_vspace_for_asid(a)' # r
    BY RiscvAsidAssumption DEF BoundTo
  <2>2. ASSUME NEW c \in caps, BoundTo(c.asid, c.root), a = c.asid
        PROVE  c = [root |-> r, asid |-> a]
    <3>1. c \in [root : Roots, asid : Asids \ {KernelAsid}]
      BY <1>1 DEF IInv, TypeOK, Space
    <3>2. c.root = r
      BY <2>1, <2>2 DEF BoundTo
    <3> QED
      BY <2>2, <3>1, <3>2
  <2> QED
    BY <1>1, <2>1, <2>2, StepOfMap DEF MapSteps
<1>2. IInv /\ [Next]_vars => [Kept]_vars
  BY <1>1
<1>3. Spec => [][Kept]_vars
  BY <1>2, IInvAlways, PTL DEF Spec
<1> QED
  BY <1>3 DEF StaleDeleteHarmless

\* The table and the pools are a map from ASIDs to roots: every operation
\* binds one free ASID, releases one, releases a pool's, or changes none.
THEOREM TableIsAMap == Spec => ImplementsAsidMap
<1> DEFINE map == [a \in Asids |-> find_vspace_for_asid(a)]
           blocks == {{a \in Asids : HighOf(a) = i} : i \in High}
<1>1. Init => AbstractMap!Init
  BY AsidSplit DEF Init, find_vspace_for_asid, AbstractMap!Init
<1>2. ASSUME IInv, [Next]_vars PROVE [AbstractMap!Next]_map
  <2> DEFINE Goal ==
        \/ map' = map
        \/ \E b \in Asids, r \in Roots : AbstractMap!Bind(b, r)
        \/ \E b \in Asids : AbstractMap!Release(b)
        \/ \E block \in blocks : AbstractMap!ReleaseBlock(block)
  <2>1. ASSUME \A a \in Asids : find_vspace_for_asid(a)' = find_vspace_for_asid(a)
        PROVE  map' = map
    BY <2>1
  <2>2. ASSUME NEW b \in Asids, NEW r \in Roots,
               \A a \in Asids : ~ BoundTo(a, r),
               find_vspace_for_asid(b) = Null,
               \A a \in Asids :
                 find_vspace_for_asid(a)' = IF a = b THEN r ELSE find_vspace_for_asid(a)
        PROVE  AbstractMap!Bind(b, r)
    BY <2>2 DEF AbstractMap!Bind, BoundTo
  <2>3. ASSUME NEW b \in Asids,
               \A a \in Asids :
                 find_vspace_for_asid(a)' = IF a = b THEN Null ELSE find_vspace_for_asid(a)
        PROVE  AbstractMap!Release(b)
    BY <2>3 DEF AbstractMap!Release
  <2>4. ASSUME NEW i \in High,
               \A a \in Asids :
                 find_vspace_for_asid(a)' = IF HighOf(a) = i THEN Null ELSE find_vspace_for_asid(a)
        PROVE  \E block \in blocks : AbstractMap!ReleaseBlock(block)
    <3>1. AbstractMap!ReleaseBlock({a \in Asids : HighOf(a) = i})
      BY <2>4 DEF AbstractMap!ReleaseBlock
    <3> QED
      BY <3>1
  <2>5. \A c \in caps : c.asid \in Asids
    BY <1>2 DEF IInv, TypeOK, Space
  <2> HIDE DEF map, blocks
  <2>6. Goal
    <3>1. CASE \A a \in Asids : find_vspace_for_asid(a)' = find_vspace_for_asid(a)
      BY <2>1, <3>1
    <3>2. ASSUME NEW b \in Asids, NEW r \in Roots,
                 \A a \in Asids : ~ BoundTo(a, r),
                 find_vspace_for_asid(b) = Null,
                 \A a \in Asids :
                   find_vspace_for_asid(a)' = IF a = b THEN r ELSE find_vspace_for_asid(a)
          PROVE  Goal
      BY <2>2, <3>2
    <3>3. ASSUME NEW c \in caps,
                 \A a \in Asids :
                   find_vspace_for_asid(a)' = IF a = c.asid THEN Null ELSE find_vspace_for_asid(a)
          PROVE  Goal
      BY <2>3, <2>5, <3>3
    <3>4. ASSUME NEW i \in High,
                 \A a \in Asids :
                   find_vspace_for_asid(a)' = IF HighOf(a) = i THEN Null ELSE find_vspace_for_asid(a)
          PROVE  Goal
      BY <2>4, <3>4
    <3> HIDE DEF Goal
    <3>5. MapSteps
      BY <1>2, StepOfMap
    <3> QED
      BY <3>1, <3>2, <3>3, <3>4, <3>5 DEF MapSteps
  <2> QED
    BY <2>6 DEF AbstractMap!Next, map, blocks
<1>3. IInv /\ [Next]_vars => [AbstractMap!Next]_map
  BY <1>2
<1> QED
  BY <1>1, <1>3, IInvAlways, PTL DEF Spec, ImplementsAsidMap, AbstractMap!Spec

------------------------------------------------------------------------------
(* The page table of the kernel, RiscvKernelWindow.                        *)

\* The page sizes of the two levels in use, and the layout in pages of level 0.
G == riscv_get_lvl_pgsize(0)
M == riscv_get_lvl_pgsize(1)
Base == PPTR_BASE \div G
Top  == PPTR_TOP \div G
Phys == PADDR_BASE \div G
Elf  == KERNEL_ELF_PADDR_BASE \div G
ElfSlot == Elf - Phys + Base

------------------------------------------------------------------------------
\* A number is read back from a multiple and a rest.
LEMMA DivMod ==
  ASSUME NEW d \in Nat \ {0}, NEW k \in Int, NEW x \in 0 .. d - 1
  PROVE  (k * d + x) \div d = k /\ (k * d + x) % d = x
BY SMT

\* Every number is one.
LEMMA Split ==
  ASSUME NEW d \in Nat \ {0}, NEW n \in Nat
  PROVE  /\ n \div d \in Nat
         /\ n % d \in 0 .. d - 1
         /\ n = (n \div d) * d + (n % d)
BY SMT

\* Multiples are ordered as their factors.
LEMMA Monotone ==
  ASSUME NEW d \in Nat \ {0}, NEW i \in Int, NEW k \in Int
  PROVE  i * d < k * d <=> i < k
BY SMT

\* The same when they are less than one multiple apart.
LEMMA Between ==
  ASSUME NEW d \in Nat \ {0}, NEW i \in Int, NEW k \in Int, NEW x \in 0 .. d - 1
  PROVE  i * d + x < k * d <=> i < k
<1>1. CASE i < k
  <2>1. (i + 1) * d <= k * d
    BY <1>1, SMT
  <2>2. (i + 1) * d = i * d + d
    BY SMT
  <2> QED
    BY <1>1, <2>1, <2>2, SMT
<1>2. CASE i >= k
  BY <1>2, SMT
<1> QED
  BY <1>1, <1>2, SMT

\* A page of the root's level is a table of pages of the next level.
LEMMA Sizes ==
  /\ IndexSize \in Nat \ {0, 1} /\ M \in Nat \ {0} /\ G \in Nat \ {0}
  /\ M = IndexSize /\ G = IndexSize * M
<1>1. IndexSize \in Nat \ {0, 1}
  BY RiscvWindowAssumption
<1>2. M = IndexSize /\ G = IndexSize * IndexSize
  BY DEF M, G, riscv_get_lvl_pgsize
<1>3. IndexSize * IndexSize \in Nat \ {0}
  BY <1>1, SMT
<1> QED
  BY <1>1, <1>2, <1>3

\* The layout in multiples of G.
LEMMA Layout ==
  /\ Base \in Nat /\ Top \in Nat /\ Phys \in Nat /\ Elf \in Nat
  /\ PPTR_BASE = Base * G /\ PPTR_TOP = Top * G /\ PADDR_BASE = Phys * G
  /\ PADDR_TOP = (Phys + Top - Base) * G
  /\ KERNEL_ELF_PADDR_BASE = Elf * G + (KERNEL_ELF_PADDR_BASE % G)
  /\ KERNEL_ELF_PADDR_BASE % G \in 0 .. G - 1
  /\ KERNEL_ELF_BASE = Top * G + (KERNEL_ELF_PADDR_BASE % G)
  /\ Elf \in Phys .. Phys + Top - Base - 1
  /\ Base < Top /\ Top = IndexSize - 2
  /\ ElfSlot \in Base .. Top - 1
<1> USE Sizes
<1>1. /\ {PPTR_BASE, PPTR_TOP, PADDR_BASE, PADDR_TOP, KERNEL_ELF_PADDR_BASE} \subseteq Nat
      /\ PPTR_BASE % G = 0 /\ PPTR_TOP % G = 0 /\ PADDR_BASE % G = 0
      /\ PADDR_TOP - PADDR_BASE = PPTR_TOP - PPTR_BASE
      /\ KERNEL_ELF_BASE = PPTR_TOP + (KERNEL_ELF_PADDR_BASE % G)
      /\ KERNEL_ELF_PADDR_BASE \in PADDR_BASE .. PADDR_TOP - 1
      /\ PPTR_TOP + G + G = IndexSize * G
  BY RiscvWindowAssumption DEF G
<1>2. /\ Base \in Nat /\ Top \in Nat /\ Phys \in Nat /\ Elf \in Nat
      /\ PPTR_BASE = Base * G /\ PPTR_TOP = Top * G /\ PADDR_BASE = Phys * G
      /\ KERNEL_ELF_PADDR_BASE = Elf * G + (KERNEL_ELF_PADDR_BASE % G)
      /\ KERNEL_ELF_PADDR_BASE % G \in 0 .. G - 1
  <2>1. \A n \in Nat : n % G = 0 => n \div G \in Nat /\ n = (n \div G) * G
    <3> SUFFICES ASSUME NEW n \in Nat, n % G = 0
                 PROVE  n \div G \in Nat /\ n = (n \div G) * G
      OBVIOUS
    <3>1. n \div G \in Nat /\ n = (n \div G) * G + (n % G)
      BY Split
    <3> DEFINE q == n \div G
    <3>2. q \in Nat /\ n = q * G + 0
      BY <3>1
    <3> HIDE DEF q
    <3>3. n = q * G
      BY <3>2, SMT
    <3> QED
      BY <3>2, <3>3 DEF q
  <2>2. PPTR_BASE = Base * G /\ Base \in Nat
    BY <1>1, <2>1 DEF Base
  <2>3. PPTR_TOP = Top * G /\ Top \in Nat /\ PADDR_BASE = Phys * G /\ Phys \in Nat
    BY <1>1, <2>1 DEF Top, Phys
  <2>4. /\ KERNEL_ELF_PADDR_BASE = Elf * G + (KERNEL_ELF_PADDR_BASE % G) /\ Elf \in Nat
        /\ KERNEL_ELF_PADDR_BASE % G \in 0 .. G - 1
    BY <1>1, Split DEF Elf
  <2> QED
    BY <2>1, <2>2, <2>3, <2>4
<1>3. PADDR_TOP = (Phys + Top - Base) * G
  <2> DEFINE b == Base * G
             t == Top * G
             p == Phys * G
  <2>1. (Phys + Top - Base) * G = p + t - b /\ {b, t, p} \subseteq Int
    BY <1>2, SMT
  <2>2. PPTR_BASE = b /\ PPTR_TOP = t /\ PADDR_BASE = p
    BY <1>2
  <2> HIDE DEF b, t, p
  <2>3. PADDR_TOP = p + t - b
    BY <1>1, <2>1, <2>2, SMT
  <2> QED
    BY <2>1, <2>3
<1>4. Top = IndexSize - 2
  <2>1. Top * G + G + G = (Top + 2) * G
    BY <1>2, SMT
  <2>2. (Top + 2) * G = IndexSize * G
    BY <1>1, <1>2, <2>1
  <2>3. Top + 2 = IndexSize
    <3>1. Top + 2 \in Int /\ IndexSize \in Int
      BY <1>2, SMT
    <3>2. ~ (Top + 2) * G < IndexSize * G /\ ~ IndexSize * G < (Top + 2) * G
      BY <2>2, <3>1, SMT
    <3>3. ~ Top + 2 < IndexSize /\ ~ IndexSize < Top + 2
      BY <3>1, <3>2, Monotone
    <3> QED
      BY <3>1, <3>3, SMT
  <2> QED
    BY <1>2, <2>3, SMT
<1>5. Elf \in Phys .. Phys + Top - Base - 1
  <2> DEFINE r == KERNEL_ELF_PADDR_BASE % G
  <2>1. r \in 0 .. G - 1 /\ Phys * G <= Elf * G + r /\ Elf * G + r < (Phys + Top - Base) * G
    BY <1>1, <1>2, <1>3, SMT
  <2>2. Phys + Top - Base \in Int
    BY <1>2, SMT
  <2> HIDE DEF r
  <2>3. Elf < Phys + Top - Base
    BY <1>2, <2>1, <2>2, Between
  <2>4. ~ Elf * G + r < Phys * G
    BY <1>2, <2>1, SMT
  <2>5. ~ Elf < Phys
    BY <1>2, <2>1, <2>4, Between
  <2> QED
    BY <1>2, <2>3, <2>5, SMT
<1>6. Base < Top /\ ElfSlot \in Base .. Top - 1
  BY <1>2, <1>5, SMT DEF ElfSlot
<1> QED
  BY <1>1, <1>2, <1>3, <1>4, <1>5, <1>6

\* The indices of an address in the two tables.
LEMMA Indices ==
  ASSUME NEW i \in TableIndex, NEW x \in 0 .. G - 1
  PROVE  /\ riscv_get_pt_index(i * G + x, 0) = i
         /\ x \div M \in TableIndex
         /\ riscv_get_pt_index(i * G + x, 1) = x \div M
<1> USE Sizes
<1>1. (i * G + x) \div G = i
  BY DivMod DEF TableIndex
<1>2. \A k \in TableIndex : k % IndexSize = k
  BY SMT DEF TableIndex
<1>3. x \div M \in Nat /\ x % M \in 0 .. M - 1 /\ x = (x \div M) * M + (x % M)
  BY Split
<1>4. x \div M \in TableIndex
  <2>1. (x \div M) * M + (x % M) < IndexSize * M
    BY <1>3
  <2>2. x \div M < IndexSize
    BY <1>3, <2>1, Between
  <2> QED
    BY <1>3, <2>2 DEF TableIndex
<1>5. (i * G + x) \div M = i * IndexSize + (x \div M)
  <2> DEFINE j == x \div M
             y == x % M
  <2>1. j \in Nat /\ y \in 0 .. M - 1 /\ x = j * M + y /\ i \in Nat
    BY <1>3 DEF TableIndex
  <2> HIDE DEF j, y
  <2>2. i * (IndexSize * M) = (i * IndexSize) * M
    BY <2>1, SMT
  <2>3. (i * IndexSize) * M + j * M = (i * IndexSize + j) * M
    BY <2>1, SMT
  <2>4. i * G + x = (i * IndexSize + j) * M + y
    <3>1. i * G + x = (i * IndexSize) * M + (j * M + y)
      BY <2>1, <2>2
    <3>2. (i * IndexSize) * M \in Int /\ j * M \in Int
      BY <2>1, SMT
    <3> QED
      BY <2>1, <2>3, <3>1, <3>2, SMT
  <2>5. i * IndexSize + j \in Int
    BY <2>1, SMT
  <2>6. (i * G + x) \div M = i * IndexSize + j
    <3>1. ((i * IndexSize + j) * M + y) \div M = i * IndexSize + j
      BY <2>1, <2>5, DivMod
    <3> QED
      BY <2>4, <3>1
  <2> QED
    BY <2>6 DEF j
<1>6. (i * IndexSize + (x \div M)) % IndexSize = x \div M
  <2> DEFINE j == x \div M
  <2>1. IndexSize \in Nat \ {0} /\ i \in Int /\ j \in 0 .. IndexSize - 1
    BY <1>4 DEF TableIndex
  <2> HIDE DEF j
  <2>2. (i * IndexSize + j) % IndexSize = j
    BY <2>1, DivMod
  <2> QED
    BY <2>2 DEF j
<1> QED
  BY <1>1, <1>2, <1>4, <1>5, <1>6 DEF riscv_get_pt_index, G, M

\* Addresses of the last page of the root, where the devices are.
LEMMA DeviceIndex ==
  ASSUME NEW va \in KDEV_BASE .. IndexSize * riscv_get_lvl_pgsize(0) - 1
  PROVE  riscv_get_pt_index(va, 0) = Top + 1 /\ Top + 1 \in TableIndex
<1>1. /\ Top = IndexSize - 2 /\ Top \in Nat /\ PPTR_TOP = Top * G
      /\ KDEV_BASE = PPTR_TOP + G /\ G \in Nat \ {0} /\ IndexSize \in Nat
  BY Layout, Sizes, RiscvWindowAssumption DEF G
<1>2. IndexSize * G = (Top + 1) * G + G
  BY <1>1, SMT
<1>3. KDEV_BASE = (Top + 1) * G
  BY <1>1, SMT
<1> DEFINE b == (Top + 1) * G
           x == va - b
<1>4. b \in Int /\ va \in b .. b + G - 1
  BY <1>1, <1>2, <1>3, SMT DEF G
<1> HIDE DEF b
<1>5. x \in 0 .. G - 1 /\ va = b + x
  BY <1>1, <1>4, SMT
<1>6. Top + 1 \in TableIndex
  BY <1>1, SMT DEF TableIndex
<1> HIDE DEF x
<1>7. riscv_get_pt_index((Top + 1) * G + x, 0) = Top + 1
  BY <1>5, <1>6, Indices
<1> QED
  BY <1>5, <1>6, <1>7 DEF b

------------------------------------------------------------------------------
(* What the tables hold when a loop has come so far.                       *)

Leaf0(i) == pte_next_table((i - Base + Phys) * G, TRUE)
Leaf1(j) == pte_next_table(Elf * G + j * M, TRUE)
Shared   == pte_next_table(kpptr_to_paddr(Level2Pt), FALSE)

\* The entries of the window below k.
PSpaceUpTo(k) ==
  \A i \in TableIndex :
    KERNEL_ROOT_PAGE_TABLE[i] = IF i \in Base .. k - 1 THEN Leaf0(i) ELSE pte_invalid

\* The window, but for the two entries that share the table of the image.
RootBuilt ==
  \A i \in 0 .. Top :
    KERNEL_ROOT_PAGE_TABLE[i] = IF i \in {ElfSlot, Top} THEN Shared
                                ELSE IF i < Base THEN pte_invalid ELSE Leaf0(i)

\* The entries of that table below c.
ImageUpTo(c) == \A j \in 0 .. c - 1 : KERNEL_IMAGE_LEVEL2_PT[j] = Leaf1(j)

\* The devices before n that no user may have.
ReservedUpTo(n) ==
  \A m \in DOMAIN kernel_device_frames :
    m < n /\ ~ kernel_device_frames[m].userAvailable
      => kernel_device_frames[m].paddr \in reserved

\* What each loop finds and keeps.
LoopInvariant ==
  \/ /\ stage = "pspace"
     /\ \E k \in Base .. Top :
          pptr = k * G /\ paddr = (k - Base + Phys) * G /\ PSpaceUpTo(k)
     /\ count = 0
  \/ stage = "elf" /\ PSpaceUpTo(Top) /\ count = 0
  \/ /\ stage = "image" /\ RootBuilt
     /\ count \in 0 .. IndexSize
     /\ pptr = Top * G + count * M /\ paddr = Elf * G + count * M
     /\ ImageUpTo(count)
  \/ /\ stage = "devices" /\ RootBuilt /\ ImageUpTo(IndexSize)
     /\ count \in Nat \ {0} /\ ReservedUpTo(count)
  \/ /\ stage = "done" /\ RootBuilt /\ ImageUpTo(IndexSize)
     /\ ReservedUpTo(Len(kernel_device_frames) + 1)

WInv ==
  /\ DOMAIN KERNEL_ROOT_PAGE_TABLE = TableIndex
  /\ DOMAIN KERNEL_IMAGE_LEVEL2_PT = TableIndex
  /\ LoopInvariant

LEMMA WindowInitial == WindowInit => WInv
<1> SUFFICES ASSUME WindowInit PROVE WInv
  OBVIOUS
<1>1. PPTR_BASE = Base * G /\ PADDR_BASE = (Base - Base + Phys) * G
  <2>1. Base \in Nat /\ Phys \in Nat
    BY Layout
  <2>2. Base - Base + Phys = Phys
    BY <2>1, SMT
  <2> QED
    BY <2>2, Layout
<1>2. Base \in Base .. Top
  BY Layout, SMT
<1>3. PSpaceUpTo(Base)
  <2>1. Base .. Base - 1 = {}
    BY Layout, SMT
  <2> QED
    BY <2>1 DEF PSpaceUpTo, WindowInit
<1> QED
  BY <1>1, <1>2, <1>3 DEF WindowInit, WInv, LoopInvariant

\* The loop over the window ends with both of its ranges.
LEMMA PSpaceStep == WInv /\ MapPSpace => WInv'
<1> SUFFICES ASSUME WInv, MapPSpace PROVE WInv'
  OBVIOUS
<1>1. PICK k \in Base .. Top :
        pptr = k * G /\ paddr = (k - Base + Phys) * G /\ PSpaceUpTo(k)
  BY DEF WInv, LoopInvariant, MapPSpace
<1>2. /\ Base \in Nat /\ Top \in Nat /\ Phys \in Nat /\ k \in Nat /\ G \in Nat \ {0}
      /\ PPTR_TOP = Top * G /\ PADDR_TOP = (Phys + Top - Base) * G
  BY <1>1, Layout, Sizes, SMT
<1>3. pptr < PPTR_TOP <=> k < Top
  BY <1>1, <1>2, Monotone
<1>4. paddr < PADDR_TOP <=> k < Top
  <2>1. k - Base + Phys \in Int /\ Phys + Top - Base \in Int
    BY <1>2, SMT
  <2>2. paddr < PADDR_TOP <=> k - Base + Phys < Phys + Top - Base
    BY <1>1, <1>2, <2>1, Monotone
  <2> QED
    BY <1>2, <2>2, SMT
<1>5. CASE k < Top
  <2>1. k \in TableIndex /\ k + 1 \in Base .. Top
    <3>1. Top = IndexSize - 2 /\ IndexSize \in Nat
      BY Layout, Sizes
    <3>2. k \in Base .. Top
      BY <1>1
    <3> QED
      BY <1>2, <1>5, <3>1, <3>2, SMT DEF TableIndex
  <2>2. riscv_get_pt_index(pptr, 0) = k
    <3>1. 0 \in 0 .. G - 1
      BY <1>2, SMT
    <3>2. riscv_get_pt_index(k * G + 0, 0) = k
      BY <2>1, <3>1, Indices
    <3>3. k * G + 0 = k * G
      BY <1>2, SMT
    <3> QED
      BY <1>1, <3>2, <3>3
  <2>3. /\ KERNEL_ROOT_PAGE_TABLE' = [KERNEL_ROOT_PAGE_TABLE EXCEPT ![k] = Leaf0(k)]
        /\ pptr' = pptr + G /\ paddr' = paddr + G
        /\ UNCHANGED <<stage, KERNEL_IMAGE_LEVEL2_PT, count>>
    BY <1>1, <1>3, <1>4, <1>5, <2>2 DEF MapPSpace, Leaf0, G
  <2>4. pptr' = (k + 1) * G /\ paddr' = ((k + 1) - Base + Phys) * G
    BY <1>1, <1>2, <2>3, SMT
  <2>5. PSpaceUpTo(k + 1)'
    <3>1. \A i \in TableIndex : i \in Base .. k + 1 - 1 <=> i \in Base .. k - 1 \/ i = k
      BY <1>1, <1>2, SMT DEF TableIndex
    <3>2. \A i \in TableIndex :
            KERNEL_ROOT_PAGE_TABLE'[i] =
              IF i = k THEN Leaf0(k) ELSE KERNEL_ROOT_PAGE_TABLE[i]
      BY <2>3 DEF WInv
    <3>3. \A i : Leaf0(i)' = Leaf0(i)
      BY DEF Leaf0, pte_next_table
    <3>4. pte_invalid' = pte_invalid
      BY DEF pte_invalid
    <3> QED
      BY <1>1, <3>1, <3>2, <3>3, <3>4 DEF PSpaceUpTo
  <2>6. stage' = "pspace" /\ count' = 0 /\ DOMAIN KERNEL_ROOT_PAGE_TABLE' = TableIndex
        /\ DOMAIN KERNEL_IMAGE_LEVEL2_PT' = TableIndex
    BY <2>3 DEF WInv, LoopInvariant, MapPSpace
  <2> DEFINE At(m)   == pptr' = m * G /\ paddr' = (m - Base + Phys) * G
             Upto(m) == \A i \in TableIndex :
                          KERNEL_ROOT_PAGE_TABLE'[i] =
                            IF i \in Base .. m - 1 THEN Leaf0(i) ELSE pte_invalid
             n       == k + 1
  <2>7. \E m \in Base .. Top : At(m) /\ Upto(m)
    <3>1. At(n)
      BY <2>4
    <3>2. Upto(n)
      BY <2>5 DEF PSpaceUpTo, Leaf0, pte_next_table, pte_invalid
    <3>3. n \in Base .. Top
      BY <2>1
    <3> HIDE DEF At, Upto, n
    <3> QED
      BY <3>1, <3>2, <3>3
  <2>8. LoopInvariant'
    BY <2>6, <2>7 DEF LoopInvariant, PSpaceUpTo, Leaf0, pte_next_table, pte_invalid
  <2> QED
    BY <2>6, <2>8 DEF WInv
<1>6. CASE k = Top
  <2>1. /\ stage' = "elf" /\ stage = "pspace"
        /\ UNCHANGED <<KERNEL_ROOT_PAGE_TABLE, KERNEL_IMAGE_LEVEL2_PT, count>>
    <3>1. ~ pptr < PPTR_TOP
      <4>1. ~ k < Top
        BY <1>2, <1>6, SMT
      <4> QED
        BY <1>3, <4>1
    <3> QED
      BY <3>1 DEF MapPSpace
  <2>2. PSpaceUpTo(Top)'
    BY <1>1, <1>6, <2>1 DEF PSpaceUpTo, Leaf0, pte_next_table, pte_invalid
  <2> QED
    BY <2>1, <2>2 DEF WInv, LoopInvariant
<1> QED
  BY <1>1, <1>2, <1>5, <1>6, SMT

\* The two entries replaced are those of the image, in the window and above it.
LEMMA ElfStep == WInv /\ MapElf => WInv'
<1> SUFFICES ASSUME WInv, MapElf PROVE WInv'
  OBVIOUS
<1> DEFINE r == KERNEL_ELF_PADDR_BASE % G
<1>1. /\ r \in 0 .. G - 1 /\ KERNEL_ELF_PADDR_BASE = Elf * G + r
      /\ KERNEL_ELF_BASE = Top * G + r
      /\ PPTR_BASE = Base * G /\ PADDR_BASE = Phys * G
      /\ {Base, Top, Phys, Elf} \subseteq Nat /\ G \in Nat \ {0}
      /\ Top = IndexSize - 2 /\ ElfSlot \in Base .. Top - 1 /\ IndexSize \in Nat
  BY Layout, Sizes
<1> HIDE DEF r
<1>2. align_down(KERNEL_ELF_BASE, 0) = Top * G /\ align_down(KERNEL_ELF_PADDR_BASE, 0) = Elf * G
  <2>1. (Top * G + r) % G = r /\ (Elf * G + r) % G = r
    <3>1. Top \in Int /\ Elf \in Int
      BY <1>1, SMT
    <3>2. (Top * G + r) % G = r
      BY <1>1, <3>1, DivMod
    <3>3. (Elf * G + r) % G = r
      BY <1>1, <3>1, DivMod
    <3> QED
      BY <3>2, <3>3
  <2>2. Top * G + r - r = Top * G /\ Elf * G + r - r = Elf * G
    BY <1>1, SMT
  <2> QED
    BY <1>1, <2>1, <2>2 DEF align_down, G
<1>3. Top \in TableIndex /\ ElfSlot \in TableIndex
  BY <1>1, SMT DEF TableIndex
<1>4. riscv_get_pt_index(Top * G, 0) = Top
  <2>1. riscv_get_pt_index(Top * G + 0, 0) = Top
    <3>1. 0 \in 0 .. G - 1
      BY <1>1, SMT
    <3> QED
      BY <1>3, <3>1, Indices
  <2>2. Top * G + 0 = Top * G
    BY <1>1, SMT
  <2> QED
    BY <2>1, <2>2
<1>5. riscv_get_pt_index(KERNEL_ELF_PADDR_BASE + PPTR_BASE_OFFSET, 0) = ElfSlot
  <2>1. Elf * G + r + (Base * G - Phys * G) = (Elf - Phys + Base) * G + r
    BY <1>1, SMT
  <2>2. KERNEL_ELF_PADDR_BASE + PPTR_BASE_OFFSET = ElfSlot * G + r
    BY <1>1, <2>1 DEF PPTR_BASE_OFFSET, ElfSlot
  <2> QED
    BY <1>1, <1>3, <2>2, Indices
<1>6. /\ stage' = "image" /\ pptr' = Top * G /\ paddr' = Elf * G
      /\ KERNEL_ROOT_PAGE_TABLE' =
           [KERNEL_ROOT_PAGE_TABLE EXCEPT ![ElfSlot] = Shared, ![Top] = Shared]
      /\ UNCHANGED <<KERNEL_IMAGE_LEVEL2_PT, count>>
  BY <1>2, <1>4, <1>5 DEF MapElf, Shared
<1>7. PSpaceUpTo(Top) /\ count = 0 /\ stage = "elf"
  BY DEF MapElf, WInv, LoopInvariant
<1>8. RootBuilt'
  <2>1. \A i \in TableIndex :
          KERNEL_ROOT_PAGE_TABLE'[i] =
            IF i \in {ElfSlot, Top} THEN Shared ELSE KERNEL_ROOT_PAGE_TABLE[i]
    BY <1>6 DEF WInv
  <2>2. \A i \in 0 .. Top :
          /\ i \in TableIndex
          /\ i # Top => (i \in Base .. Top - 1 <=> ~ i < Base)
    BY <1>1, SMT DEF TableIndex
  <2> QED
    BY <1>7, <2>1, <2>2 DEF PSpaceUpTo, RootBuilt, Shared, Leaf0, pte_next_table, pte_invalid,
                            kpptr_to_paddr
<1>9. count' \in 0 .. IndexSize /\ pptr' = Top * G + count' * M /\ paddr' = Elf * G + count' * M
  <2>1. 0 * M = 0 /\ Top * G + 0 = Top * G /\ Elf * G + 0 = Elf * G /\ 0 \in 0 .. IndexSize
    BY <1>1, Sizes, SMT
  <2> QED
    BY <1>6, <1>7, <2>1
<1>10. ImageUpTo(count)'
  <2>1. 0 .. 0 - 1 = {}
    BY SMT
  <2> QED
    BY <1>6, <1>7, <2>1 DEF ImageUpTo
<1>11. DOMAIN KERNEL_ROOT_PAGE_TABLE' = TableIndex /\ DOMAIN KERNEL_IMAGE_LEVEL2_PT' = TableIndex
  BY <1>6 DEF WInv
<1> QED
  BY <1>6, <1>8, <1>9, <1>10, <1>11 DEF WInv, LoopInvariant

\* Below PPTR_TOP + 1 GiB the counter is an index of the table.
LEMMA CountIsIndex ==
  ASSUME WInv, stage = "image"
  PROVE  /\ pptr < PPTR_TOP + riscv_get_lvl_pgsize(0) <=> count \in TableIndex
         /\ count \in 0 .. IndexSize
<1>1. /\ count \in 0 .. IndexSize /\ pptr = Top * G + count * M
  BY DEF WInv, LoopInvariant
<1>2. /\ PPTR_TOP = Top * G /\ Top \in Nat /\ IndexSize \in Nat \ {0}
      /\ G = IndexSize * M /\ M \in Nat \ {0} /\ G \in Nat
  BY Layout, Sizes
<1>3. count * M < IndexSize * M <=> count < IndexSize
  BY <1>1, <1>2, Monotone
<1> DEFINE t == Top * G
           c == count * M
<1>4. t \in Int /\ c \in Int
  BY <1>1, <1>2, SMT
<1>5. pptr = t + c /\ PPTR_TOP + riscv_get_lvl_pgsize(0) = t + G /\ (c < G <=> count < IndexSize)
  BY <1>1, <1>2, <1>3 DEF G
<1> HIDE DEF t, c
<1>6. t + c < t + G <=> c < G
  BY <1>2, <1>4, SMT
<1>7. count < IndexSize <=> count \in TableIndex
  BY <1>1, <1>2, SMT DEF TableIndex
<1> QED
  BY <1>1, <1>5, <1>6, <1>7

\* The loop over the image fills its table to the last entry.
LEMMA ImageStep == WInv /\ MapImage => WInv'
<1> SUFFICES ASSUME WInv, MapImage PROVE WInv'
  OBVIOUS
<1>1. /\ stage = "image" /\ RootBuilt
      /\ pptr = Top * G + count * M /\ paddr = Elf * G + count * M /\ ImageUpTo(count)
  BY DEF MapImage, WInv, LoopInvariant
<1>2. /\ pptr < PPTR_TOP + riscv_get_lvl_pgsize(0) <=> count \in TableIndex
      /\ count \in 0 .. IndexSize
  BY <1>1, CountIsIndex
<1>3. {Top, Elf} \subseteq Nat /\ IndexSize \in Nat \ {0} /\ M \in Nat \ {0} /\ G \in Nat
  BY Layout, Sizes
<1>4. RootBuilt'
  BY <1>1 DEF MapImage, RootBuilt, Shared, Leaf0, pte_next_table, pte_invalid, kpptr_to_paddr
<1>5. CASE count \in TableIndex
  <2>1. /\ KERNEL_IMAGE_LEVEL2_PT' = [KERNEL_IMAGE_LEVEL2_PT EXCEPT ![count] = Leaf1(count)]
        /\ pptr' = pptr + M /\ paddr' = paddr + M /\ count' = count + 1
        /\ UNCHANGED <<stage, KERNEL_ROOT_PAGE_TABLE>>
    BY <1>1, <1>2, <1>5 DEF MapImage, Leaf1, M
  <2>2. /\ count' \in 0 .. IndexSize
        /\ pptr' = Top * G + count' * M /\ paddr' = Elf * G + count' * M
    <3>1. count + 1 \in 0 .. IndexSize
      BY <1>3, <1>5, SMT DEF TableIndex
    <3> DEFINE t == Top * G
               e == Elf * G
               c == count * M
    <3>2. (count + 1) * M = c + M /\ {t, e, c} \subseteq Int
      BY <1>2, <1>3, SMT
    <3>3. pptr' = t + c + M /\ paddr' = e + c + M
      BY <1>1, <2>1
    <3> HIDE DEF c, t, e
    <3>4. pptr' = t + (count + 1) * M /\ paddr' = e + (count + 1) * M
      BY <1>3, <3>2, <3>3, SMT
    <3> QED
      BY <2>1, <3>1, <3>4 DEF t, e
  <2>3. ImageUpTo(count)'
    <3>1. \A j \in 0 .. count + 1 - 1 : j \in TableIndex /\ (j \in 0 .. count - 1 \/ j = count)
      BY <1>2, <1>3, <1>5, SMT DEF TableIndex
    <3>2. \A j \in TableIndex :
            KERNEL_IMAGE_LEVEL2_PT'[j] = IF j = count THEN Leaf1(count) ELSE KERNEL_IMAGE_LEVEL2_PT[j]
      BY <2>1 DEF WInv
    <3>3. \A j \in 0 .. count + 1 - 1 : KERNEL_IMAGE_LEVEL2_PT'[j] = Leaf1(j)
      <4> SUFFICES ASSUME NEW j \in 0 .. count + 1 - 1
                   PROVE  KERNEL_IMAGE_LEVEL2_PT'[j] = Leaf1(j)
        OBVIOUS
      <4>1. CASE j = count
        BY <3>1, <3>2, <4>1
      <4>2. CASE j # count
        <5>1. j \in 0 .. count - 1 /\ j \in TableIndex
          BY <3>1, <4>2
        <5>2. KERNEL_IMAGE_LEVEL2_PT[j] = Leaf1(j)
          BY <1>1, <5>1 DEF ImageUpTo
        <5> QED
          BY <3>2, <4>2, <5>1, <5>2
      <4> QED
        BY <4>1, <4>2
    <3>4. count' - 1 = count + 1 - 1
      <4>1. count' = count + 1 /\ count \in Int
        BY <1>2, <1>3, <2>1, SMT
      <4> QED
        BY <4>1
    <3>5. \A j \in 0 .. count' - 1 : KERNEL_IMAGE_LEVEL2_PT'[j] = Leaf1(j)
      BY <3>3, <3>4
    <3> QED
      BY <3>5 DEF ImageUpTo, Leaf1, pte_next_table
  <2>4. stage' = "image" /\ DOMAIN KERNEL_ROOT_PAGE_TABLE' = TableIndex
        /\ DOMAIN KERNEL_IMAGE_LEVEL2_PT' = TableIndex
    BY <1>1, <2>1 DEF WInv
  <2> QED
    BY <1>4, <2>2, <2>3, <2>4 DEF WInv, LoopInvariant
<1>6. CASE count \notin TableIndex
  <2>1. /\ stage' = "devices" /\ count' = 1
        /\ UNCHANGED <<KERNEL_IMAGE_LEVEL2_PT, KERNEL_ROOT_PAGE_TABLE>>
    BY <1>2, <1>6 DEF MapImage
  <2>2. count = IndexSize
    BY <1>2, <1>3, <1>6, SMT DEF TableIndex
  <2>3. ImageUpTo(IndexSize)'
    BY <1>1, <2>1, <2>2 DEF ImageUpTo, Leaf1, pte_next_table
  <2>4. ReservedUpTo(count)'
    <3>1. \A m \in DOMAIN kernel_device_frames : ~ m < 1
      <4>1. kernel_device_frames \in
              Seq([paddr : Nat, pptr : KDEV_BASE .. IndexSize * riscv_get_lvl_pgsize(0) - 1,
                   userAvailable : BOOLEAN])
        BY RiscvWindowAssumption
      <4> QED
        BY <4>1, SMT
    <3> QED
      BY <2>1, <3>1 DEF ReservedUpTo
  <2>5. DOMAIN KERNEL_ROOT_PAGE_TABLE' = TableIndex /\ DOMAIN KERNEL_IMAGE_LEVEL2_PT' = TableIndex
    BY <2>1 DEF WInv
  <2>6. count' \in Nat \ {0}
    BY <2>1, SMT
  <2> QED
    BY <1>4, <2>1, <2>3, <2>4, <2>5, <2>6 DEF WInv, LoopInvariant
<1> QED
  BY <1>5, <1>6

\* A device changes only the last entry of the root.
LEMMA DeviceStep == WInv /\ MapDevice => WInv'
<1> SUFFICES ASSUME WInv, MapDevice PROVE WInv'
  OBVIOUS
<1>1. /\ stage = "devices" /\ RootBuilt /\ ImageUpTo(IndexSize)
      /\ count \in Nat \ {0} /\ ReservedUpTo(count)
  BY DEF MapDevice, WInv, LoopInvariant
<1>2. kernel_device_frames \in
        Seq([paddr : Nat, pptr : KDEV_BASE .. IndexSize * riscv_get_lvl_pgsize(0) - 1,
             userAvailable : BOOLEAN])
  BY RiscvWindowAssumption
<1>3. ImageUpTo(IndexSize)' /\ DOMAIN KERNEL_IMAGE_LEVEL2_PT' = TableIndex
  BY <1>1 DEF MapDevice, ImageUpTo, Leaf1, pte_next_table, WInv
<1>4. /\ Len(kernel_device_frames) \in Nat
      /\ DOMAIN kernel_device_frames = 1 .. Len(kernel_device_frames)
  BY <1>2
<1>5. CASE count <= Len(kernel_device_frames)
  <2> DEFINE frame == kernel_device_frames[count]
  <2>1. /\ map_kernel_frame(frame.paddr, frame.pptr)
        /\ reserved' = IF frame.userAvailable THEN reserved ELSE reserved \cup {frame.paddr}
        /\ count' = count + 1 /\ stage' = "devices"
    BY <1>1, <1>5 DEF MapDevice
  <2>2. riscv_get_pt_index(frame.pptr, 0) = Top + 1
    <3>1. count \in DOMAIN kernel_device_frames
      BY <1>1, <1>4, <1>5
    <3>2. frame \in [paddr : Nat, pptr : KDEV_BASE .. IndexSize * riscv_get_lvl_pgsize(0) - 1,
                     userAvailable : BOOLEAN]
      <4> DEFINE Frames == [paddr : Nat,
                            pptr : KDEV_BASE .. IndexSize * riscv_get_lvl_pgsize(0) - 1,
                            userAvailable : BOOLEAN]
      <4>1. kernel_device_frames \in Seq(Frames)
        BY <1>2
      <4> HIDE DEF Frames
      <4>2. frame \in Frames
        BY <3>1, <4>1
      <4> QED
        BY <4>2 DEF Frames
    <3>3. frame.pptr \in KDEV_BASE .. IndexSize * riscv_get_lvl_pgsize(0) - 1
      BY <3>2
    <3> HIDE DEF frame
    <3> QED
      BY <3>3, DeviceIndex
  <2>3. PICK e : KERNEL_ROOT_PAGE_TABLE' = [KERNEL_ROOT_PAGE_TABLE EXCEPT ![Top + 1] = e]
    BY <2>1, <2>2 DEF map_kernel_frame
  <2>4. RootBuilt' /\ DOMAIN KERNEL_ROOT_PAGE_TABLE' = TableIndex
    <3>1. DOMAIN KERNEL_ROOT_PAGE_TABLE = TableIndex
      BY DEF WInv
    <3>2. \A i \in 0 .. Top : i \in TableIndex /\ i # Top + 1
      BY Layout, Sizes, SMT DEF TableIndex
    <3>3. \A i \in 0 .. Top : KERNEL_ROOT_PAGE_TABLE'[i] = KERNEL_ROOT_PAGE_TABLE[i]
      BY <2>3, <3>1, <3>2
    <3>4. DOMAIN KERNEL_ROOT_PAGE_TABLE' = TableIndex
      BY <2>3, <3>1
    <3> QED
      BY <1>1, <3>3, <3>4 DEF RootBuilt, Shared, Leaf0, pte_next_table, pte_invalid, kpptr_to_paddr
  <2>5. ReservedUpTo(count)'
    <3>1. \A m \in DOMAIN kernel_device_frames : m < count + 1 => m < count \/ m = count
      BY <1>1, <1>4, SMT
    <3> QED
      BY <1>1, <2>1, <3>1 DEF ReservedUpTo
  <2>6. count' \in Nat \ {0}
    BY <1>1, <2>1, SMT
  <2> QED
    BY <1>3, <2>1, <2>4, <2>5, <2>6 DEF WInv, LoopInvariant
<1>6. CASE ~ count <= Len(kernel_device_frames)
  <2>1. stage' = "done" /\ UNCHANGED <<KERNEL_ROOT_PAGE_TABLE, reserved>>
    BY <1>1, <1>6 DEF MapDevice
  <2>2. RootBuilt' /\ DOMAIN KERNEL_ROOT_PAGE_TABLE' = TableIndex
    BY <1>1, <2>1 DEF WInv, RootBuilt, Shared, Leaf0, pte_next_table, pte_invalid, kpptr_to_paddr
  <2>3. ReservedUpTo(Len(kernel_device_frames) + 1)'
    <3>1. \A m \in DOMAIN kernel_device_frames : m < count
      BY <1>1, <1>4, <1>6, SMT
    <3> QED
      BY <1>1, <2>1, <3>1 DEF ReservedUpTo
  <2> QED
    BY <1>3, <2>1, <2>2, <2>3 DEF WInv, LoopInvariant
<1> QED
  BY <1>5, <1>6

LEMMA WindowStep == WInv /\ [WindowNext]_windowVars => WInv'
<1> SUFFICES ASSUME WInv, [WindowNext]_windowVars PROVE WInv'
  OBVIOUS
<1>1. CASE UNCHANGED windowVars
  BY <1>1 DEF windowVars, WInv, LoopInvariant, PSpaceUpTo, RootBuilt, ImageUpTo, ReservedUpTo,
              Leaf0, Leaf1, Shared, pte_next_table, pte_invalid, kpptr_to_paddr
<1>2. CASE WindowNext
  BY <1>2, PSpaceStep, ElfStep, ImageStep, DeviceStep DEF WindowNext
<1> QED
  BY <1>1, <1>2

\* What each loop keeps, from the first line of the boot code on.
THEOREM WindowInvariant == BootSpec => []WInv
<1>1. BootInit => WInv
  BY WindowInitial DEF BootInit
<1>2. WInv /\ [BootNext]_<<vars, windowVars>> => WInv'
  <2>1. [BootNext]_<<vars, windowVars>> => [WindowNext]_windowVars
    BY DEF BootNext
  <2> QED
    BY <2>1, WindowStep
<1> QED
  BY <1>1, <1>2, PTL DEF BootSpec

\* The loop of rust_map_kernel_window that fills the table of the image never
\* indexes beyond it.
ImageFitsItsTable ==
  stage = "image" /\ pptr < PPTR_TOP + riscv_get_lvl_pgsize(0) => count \in TableIndex

\* It does so for any size of the tables and any place of the image: the kernel
\* does not panic before it has its window.
THEOREM ImageFits == BootSpec => []ImageFitsItsTable
<1>1. WInv => ImageFitsItsTable
  BY CountIsIndex DEF ImageFitsItsTable
<1> QED
  BY <1>1, WindowInvariant, PTL

------------------------------------------------------------------------------
(* What the hardware makes of the finished tables.                         *)

\* A leaf at a multiple of its page adds the offset in the page.
LEMMA LeafTranslates ==
  ASSUME NEW n \in {0, 1}, NEW k \in Nat, NEW va \in Nat
  PROVE  LET s == riscv_get_lvl_pgsize(n)
         IN  Leaf(pte_next_table(k * s, TRUE), va, n) = k * s + (va % s)
<1> DEFINE s == riscv_get_lvl_pgsize(n)
<1>1. s \in Nat \ {0}
  BY Sizes DEF G, M
<1> HIDE DEF s
<1>2. (k * s) % s = 0
  <2>1. 0 \in 0 .. s - 1 /\ k * s + 0 = k * s
    BY <1>1, SMT
  <2>2. (k * s + 0) % s = 0
    BY <1>1, <2>1, DivMod
  <2> QED
    BY <2>1, <2>2
<1>3. Leaf(pte_next_table(k * s, TRUE), va, n) = k * s + (va % s)
  BY <1>2 DEF Leaf, pte_next_table, s
<1> QED
  BY <1>3 DEF s

\* An address splits at the pages of the root.
LEMMA Address ==
  ASSUME NEW va \in Nat, NEW a \in Nat, NEW b \in Nat, a * G <= va, va < b * G, b <= IndexSize
  PROVE  \E i \in TableIndex, x \in 0 .. G - 1 : va = i * G + x /\ a <= i /\ i < b
<1> DEFINE i == va \div G
           x == va % G
<1>1. i \in Nat /\ x \in 0 .. G - 1 /\ va = i * G + x
  BY Sizes, Split
<1> HIDE DEF i, x
<1>2. i < b
  <2>1. i * G + x < b * G
    BY <1>1
  <2> QED
    BY <1>1, <2>1, Sizes, Between
<1>3. a <= i
  <2>1. ~ i * G + x < a * G
    BY <1>1, Sizes, SMT
  <2>2. ~ i < a
    BY <1>1, <2>1, Sizes, Between
  <2> QED
    BY <1>1, <2>2, SMT
<1>4. i \in TableIndex
  BY <1>1, <1>2, Sizes, SMT DEF TableIndex
<1> QED
  BY <1>1, <1>2, <1>3, <1>4

\* An entry of the root that is a leaf, and one that has none.
LEMMA TranslateRoot ==
  ASSUME RootBuilt, NEW i \in 0 .. Top - 1, NEW x \in 0 .. G - 1, i # ElfSlot
  PROVE  Translate(i * G + x) = IF i < Base THEN Fault ELSE (i - Base + Phys) * G + x
<1>1. {Base, Top, Phys, Elf} \subseteq Nat /\ G \in Nat \ {0} /\ Top = IndexSize - 2
      /\ IndexSize \in Nat
  BY Layout, Sizes
<1>2. i \in TableIndex /\ i \in 0 .. Top /\ i # Top /\ i \in Nat
  BY <1>1, SMT DEF TableIndex
<1>3. riscv_get_pt_index(i * G + x, 0) = i
  BY <1>2, Indices
<1> DEFINE pte == KERNEL_ROOT_PAGE_TABLE[i]
           va  == i * G + x
<1>4. pte = IF i < Base THEN pte_invalid ELSE Leaf0(i)
  BY <1>2 DEF RootBuilt
<1>5. Translate(va) = Leaf(pte, va, 0)
  BY <1>3, <1>4 DEF Translate, pte_invalid, Leaf0, pte_next_table
<1>6. va \in Nat /\ va % G = x
  <2>1. (i * G + x) % G = x
    <3>1. G \in Nat \ {0} /\ i \in Int
      BY ONLY <1>1, <1>2
    <3> QED
      BY ONLY <3>1, x \in 0 .. G - 1, DivMod, Zenon
  <2>2. i * G \in Nat
    <3>1. \A c, d \in Nat : c * d \in Nat
      BY ONLY SMT
    <3> QED
      BY ONLY <1>1, <1>2, <3>1
  <2>3. x \in Nat
    BY ONLY <1>1, x \in 0 .. G - 1, SMT
  <2> HIDE DEF va
  <2>4. i * G + x \in Nat
    BY ONLY <2>2, <2>3, SMT
  <2> QED
    BY ONLY <2>1, <2>4 DEF va
<1>7. CASE i < Base
  BY <1>4, <1>5, <1>7 DEF Leaf, pte_invalid
<1>8. CASE ~ i < Base
  <2> DEFINE k == i - Base + Phys
  <2>1. k \in Nat /\ pte = pte_next_table(k * G, TRUE)
    BY <1>1, <1>2, <1>4, <1>8, SMT DEF Leaf0
  <2> HIDE DEF k, va
  <2>2. Leaf(pte_next_table(k * G, TRUE), va, 0) = k * G + (va % G)
    BY <1>6, <2>1, LeafTranslates DEF G
  <2>3. Translate(va) = k * G + x
    BY <1>5, <1>6, <2>1, <2>2
  <2> QED
    BY <1>8, <2>3 DEF k, va
<1> QED
  BY <1>7, <1>8

\* An entry that shares the table of the image.
LEMMA TranslateShared ==
  ASSUME RootBuilt, ImageUpTo(IndexSize), NEW i \in {ElfSlot, Top}, NEW x \in 0 .. G - 1
  PROVE  Translate(i * G + x) = Elf * G + x
<1>1. /\ {Base, Top, Phys, Elf} \subseteq Nat /\ G \in Nat \ {0} /\ M \in Nat \ {0}
      /\ Top = IndexSize - 2 /\ ElfSlot \in Base .. Top - 1 /\ IndexSize \in Nat \ {0}
      /\ M = IndexSize /\ G = IndexSize * M
  BY Layout, Sizes
<1>2. i \in TableIndex /\ i \in 0 .. Top /\ i \in Nat
  BY <1>1, SMT DEF TableIndex
<1> DEFINE j  == x \div M
           y  == x % M
           va == i * G + x
<1>3. riscv_get_pt_index(va, 0) = i /\ j \in TableIndex /\ riscv_get_pt_index(va, 1) = j
  BY <1>2, Indices
<1>4. KERNEL_ROOT_PAGE_TABLE[i] = Shared /\ KERNEL_IMAGE_LEVEL2_PT[j] = Leaf1(j)
  BY <1>2, <1>3 DEF RootBuilt, ImageUpTo, TableIndex
<1>5. Shared.addr = KERNEL_ELF_PADDR_BASE + (Level2Pt - KERNEL_ELF_BASE)
  <2>1. /\ KERNEL_ELF_PADDR_BASE \in Int /\ KERNEL_ELF_BASE \in Int /\ Level2Pt \in Int
    <3> DEFINE t == Top * G
               r == KERNEL_ELF_PADDR_BASE % G
    <3>1. t \in Int /\ r \in Int /\ KERNEL_ELF_BASE = t + r
      BY <1>1, Layout, SMT
    <3> HIDE DEF t, r
    <3> QED
      BY <3>1, RiscvWindowAssumption
  <2>2. Level2Pt - (KERNEL_ELF_BASE - KERNEL_ELF_PADDR_BASE)
          = KERNEL_ELF_PADDR_BASE + (Level2Pt - KERNEL_ELF_BASE)
    BY <2>1, SMT
  <2> QED
    BY <2>2 DEF Shared, pte_next_table, kpptr_to_paddr, KERNEL_ELF_BASE_OFFSET
<1>6. Translate(va) = Leaf(Leaf1(j), va, 1)
  BY <1>3, <1>4, <1>5 DEF Translate, Shared, pte_next_table
<1>7. j \in Nat /\ y \in 0 .. M - 1 /\ x = j * M + y
  <2>1. x \in Nat
    BY <1>1, SMT
  <2> QED
    BY <1>1, <2>1, Split
<1> HIDE DEF j, y
<1>8. va \in Nat /\ va % M = y
  <2> DEFINE q == i * IndexSize + j
  <2>1. q \in Nat /\ i * G = (i * IndexSize) * M /\ q * M = (i * IndexSize) * M + j * M
    BY <1>1, <1>2, <1>7, SMT
  <2>2. (i * IndexSize) * M \in Int /\ j * M \in Int
    BY <1>1, <1>2, <1>7, SMT
  <2>3. va = q * M + y
    <3> DEFINE a == (i * IndexSize) * M
               b == j * M
    <3>1. a \in Int /\ b \in Int /\ q * M = a + b /\ va = a + (b + y)
      BY <1>7, <2>1, <2>2
    <3> HIDE DEF a, b, q
    <3> QED
      BY <1>7, <3>1, SMT
  <2> HIDE DEF q
  <2>4. (q * M + y) % M = y /\ q * M + y \in Nat
    <3>1. (q * M + y) % M = y
      <4>1. q \in Int /\ M \in Nat \ {0}
        BY <1>1, <2>1, SMT
      <4> QED
        BY <1>7, <4>1, DivMod
    <3>2. q * M + y \in Nat
      BY <1>1, <1>7, <2>1, SMT
    <3> QED
      BY <3>1, <3>2
  <2> HIDE DEF va
  <2> QED
    BY <2>3, <2>4
<1>9. Leaf1(j) = pte_next_table((Elf * IndexSize + j) * M, TRUE)
      /\ Elf * IndexSize + j \in Nat
      /\ (Elf * IndexSize + j) * M + y = Elf * G + x
  <2>1. Elf * IndexSize + j \in Nat
    BY <1>1, <1>7, SMT
  <2>2. (Elf * IndexSize + j) * M = (Elf * IndexSize) * M + j * M
    BY <1>1, <1>7, SMT
  <2>3. (Elf * IndexSize) * M = Elf * G
    <3>1. (Elf * IndexSize) * M = Elf * (IndexSize * M)
      BY <1>1, SMT
    <3> QED
      BY <1>1, <3>1
  <2>4. (Elf * IndexSize + j) * M = Elf * G + j * M
    BY <2>2, <2>3
  <2>5. (Elf * IndexSize + j) * M + y = Elf * G + x
    <3> DEFINE e == Elf * G
               b == j * M
    <3>1. e \in Int /\ b \in Int
      BY <1>1, <1>7, SMT
    <3>2. (Elf * IndexSize + j) * M = e + b /\ x = b + y
      BY <1>7, <2>4
    <3> HIDE DEF e, b
    <3>3. (Elf * IndexSize + j) * M + y = e + x
      BY <1>7, <3>1, <3>2, SMT
    <3> QED
      BY <3>3 DEF e
  <2> QED
    BY <2>1, <2>4, <2>5 DEF Leaf1
<1>10. Leaf(pte_next_table((Elf * IndexSize + j) * M, TRUE), va, 1)
         = (Elf * IndexSize + j) * M + (va % M)
  <2> DEFINE k == Elf * IndexSize + j
  <2>1. k \in Nat
    BY <1>9
  <2> HIDE DEF k, va
  <2>2. Leaf(pte_next_table(k * M, TRUE), va, 1) = k * M + (va % M)
    BY <1>8, <2>1, LeafTranslates DEF M
  <2> QED
    BY <2>2 DEF k
<1> HIDE DEF va
<1>11. Translate(va) = Elf * G + x
  BY <1>6, <1>8, <1>9, <1>10
<1> QED
  BY <1>11 DEF va

\* The finished tables are the figure.
LEMMA WindowDone == WInv /\ stage = "done" => KernelWindow
<1> SUFFICES ASSUME WInv, stage = "done" PROVE KernelWindow
  OBVIOUS
<1>1. RootBuilt /\ ImageUpTo(IndexSize) /\ ReservedUpTo(Len(kernel_device_frames) + 1)
  BY DEF WInv, LoopInvariant
<1> DEFINE r == KERNEL_ELF_PADDR_BASE % G
<1>2. /\ {Base, Top, Phys, Elf} \subseteq Nat /\ G \in Nat \ {0}
      /\ Top = IndexSize - 2 /\ ElfSlot \in Base .. Top - 1 /\ IndexSize \in Nat
      /\ ElfSlot = Elf - Phys + Base
      /\ PPTR_BASE = Base * G /\ PPTR_TOP = Top * G /\ PADDR_BASE = Phys * G
      /\ r \in 0 .. G - 1 /\ KERNEL_ELF_PADDR_BASE = Elf * G + r
      /\ KERNEL_ELF_BASE = Top * G + r
  BY Layout, Sizes DEF ElfSlot
<1> HIDE DEF r
<1> DEFINE b == Base * G
           t == Top * G
           p == Phys * G
           e == Elf * G
<1>3. {b, t, p, e} \subseteq Nat
  BY <1>2, SMT
<1>4. \A va \in PPTR_BASE .. PPTR_TOP - 1 : Translate(va) = va - PPTR_BASE_OFFSET
  <2> SUFFICES ASSUME NEW va \in PPTR_BASE .. PPTR_TOP - 1
               PROVE  Translate(va) = va - PPTR_BASE_OFFSET
    OBVIOUS
  <2>1. va \in Nat /\ Base * G <= va /\ va < Top * G /\ Top <= IndexSize
    <3>1. PPTR_BASE = b /\ PPTR_TOP = t
      BY <1>2
    <3> HIDE DEF b, t
    <3>2. va \in Nat /\ b <= va /\ va < t /\ Top <= IndexSize
      BY <1>2, <1>3, <3>1, SMT
    <3> QED
      BY <3>2 DEF b, t
  <2>2. PICK i \in TableIndex, x \in 0 .. G - 1 : va = i * G + x /\ Base <= i /\ i < Top
    <3>1. Base \in Nat /\ Top \in Nat
      BY <1>2
    <3> QED
      BY <2>1, <3>1, Address
  <2>3. Translate(va) = (i - Base + Phys) * G + x
    <3>1. CASE i = ElfSlot
      <4>1. Translate(i * G + x) = Elf * G + x
        BY <1>1, <3>1, TranslateShared
      <4>2. i - Base + Phys = Elf
        BY <1>2, <3>1, SMT
      <4> QED
        BY <2>2, <4>1, <4>2
    <3>2. CASE i # ElfSlot
      <4>1. i \in 0 .. Top - 1 /\ ~ i < Base
        BY <1>2, <2>2, SMT DEF TableIndex
      <4> QED
        BY <1>1, <2>2, <3>2, <4>1, TranslateRoot
    <3> QED
      BY <3>1, <3>2
  <2>4. (i - Base + Phys) * G = i * G - b + p /\ i * G \in Int
    BY <1>2, SMT DEF TableIndex
  <2>5. PPTR_BASE_OFFSET = b - p
    BY <1>2 DEF PPTR_BASE_OFFSET
  <2> DEFINE ig == i * G
  <2>6. Translate(va) = ig - b + p + x /\ va = ig + x /\ ig \in Int
    BY <2>2, <2>3, <2>4
  <2> HIDE DEF ig, b, p
  <2> QED
    BY <1>3, <2>5, <2>6, SMT
<1>5. \A va \in KERNEL_ELF_BASE .. PPTR_TOP + riscv_get_lvl_pgsize(0) - 1 :
        Translate(va) = va - KERNEL_ELF_BASE_OFFSET
  <2> SUFFICES ASSUME NEW va \in KERNEL_ELF_BASE .. PPTR_TOP + G - 1
               PROVE  Translate(va) = va - KERNEL_ELF_BASE_OFFSET
    BY DEF G
  <2> DEFINE x == va - t
  <2>1. x \in 0 .. G - 1 /\ va = t + x /\ va \in Int
    <3>1. PPTR_TOP = t /\ KERNEL_ELF_BASE = t + r
      BY <1>2
    <3> HIDE DEF t
    <3> QED
      BY <1>2, <1>3, <3>1, SMT
  <2> HIDE DEF x
  <2>2. Translate(va) = e + x
    BY <1>1, <2>1, TranslateShared
  <2>3. KERNEL_ELF_BASE_OFFSET = t + r - (e + r)
    BY <1>2 DEF KERNEL_ELF_BASE_OFFSET
  <2> HIDE DEF t, e
  <2> QED
    BY <1>2, <1>3, <2>1, <2>2, <2>3, SMT
<1>6. \A va \in 0 .. PPTR_BASE - 1 : Translate(va) = Fault
  <2> SUFFICES ASSUME NEW va \in 0 .. PPTR_BASE - 1
               PROVE  Translate(va) = Fault
    OBVIOUS
  <2>1. va \in Nat /\ 0 * G <= va /\ va < Base * G /\ Base <= IndexSize
    <3>1. PPTR_BASE = b /\ 0 * G = 0
      BY <1>2, SMT
    <3> HIDE DEF b
    <3>2. va \in Nat /\ 0 <= va /\ va < b /\ Base <= IndexSize
      BY <1>2, <1>3, <3>1, SMT
    <3> QED
      BY <3>1, <3>2 DEF b
  <2>2. PICK i \in TableIndex, x \in 0 .. G - 1 : va = i * G + x /\ i < Base
    BY <1>2, <2>1, Address
  <2>3. i \in 0 .. Top - 1 /\ i # ElfSlot
    BY <1>2, <2>2, SMT DEF TableIndex
  <2> QED
    BY <1>1, <2>2, <2>3, TranslateRoot
<1>7. \A n \in DOMAIN kernel_device_frames :
        ~ kernel_device_frames[n].userAvailable => kernel_device_frames[n].paddr \in reserved
  <2>1. kernel_device_frames \in
          Seq([paddr : Nat, pptr : KDEV_BASE .. IndexSize * riscv_get_lvl_pgsize(0) - 1,
               userAvailable : BOOLEAN])
    BY RiscvWindowAssumption
  <2>2. \A n \in DOMAIN kernel_device_frames : n < Len(kernel_device_frames) + 1
    BY <2>1
  <2> QED
    BY <1>1, <2>2 DEF ReservedUpTo
<1> QED
  BY <1>4, <1>5, <1>6, <1>7 DEF KernelWindow

\* Whatever the size of the tables, the layout of the figure and the devices, a
\* hart turns the kernel's table on only when every address of the window and of
\* the image leads where the kernel's own conversions say.
THEOREM KernelRunsOnIt == BootSpec => KernelRunsOnItsWindow
<1>1. WInv /\ [BootNext]_<<vars, windowVars>>
        => [\A h \in Harts : ~ Active(h) /\ Active(h)' => KernelWindow]_<<vars, windowVars>>
  <2> SUFFICES ASSUME WInv, BootNext,
                      NEW h \in Harts, ~ Active(h), Active(h)'
               PROVE  KernelWindow
    BY DEF KernelRunsOnItsWindow
  <2>1. CASE WindowNext /\ UNCHANGED vars
    BY <2>1 DEF vars, hart, Active, BootSpace
  <2>2. CASE stage = "done"
    BY <2>2, WindowDone
  <2> QED
    BY <2>1, <2>2 DEF BootNext
<1> QED
  BY <1>1, WindowInvariant, PTL DEF BootSpec, KernelRunsOnItsWindow
------------------------------------------------------------------------------
\* Every behaviour of the kernel that starts with rust_map_kernel_window is one
\* of the ASID table: what is proved of RiscvAsid holds while the kernel's page
\* table is being filled, too.
THEOREM BootImplementsAsid == BootSpec => Spec
<1>1. BootInit => Init
  BY DEF BootInit
<1>2. [BootNext]_<<vars, windowVars>> => [Next]_vars
  BY DEF BootNext
<1> QED
  BY <1>1, <1>2, PTL DEF BootSpec, Spec
==============================================================================
