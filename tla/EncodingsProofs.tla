--------------------------- MODULE EncodingsProofs ---------------------------
(***************************************************************************)
(* The words of Encodings read back as what was put in: no field runs into *)
(* another one, and the kinds of entries that the page table modules tell  *)
(* apart are told apart by their bits.                                     *)
(***************************************************************************)
EXTENDS Encodings, TLAPS

\* An address of a page comes back from its page number.
LEMMA ShiftBack ==
  ASSUME NEW addr \in SUBSET (12 .. 63)
  PROVE  Shl(Shr(addr, 12), 12) = addr
<1>1. ASSUME NEW b \in Bits PROVE b \in Shl(Shr(addr, 12), 12) <=> b \in addr
  <2>1. CASE b \in 0 .. 11
    BY <2>1, SMT DEF Shl, Shr, Bits, WordBits
  <2>2. CASE b \in 12 .. 63
    <3>1. b - 12 \in Bits /\ b - 12 + 12 = b
      BY <2>2, SMT DEF Bits, WordBits
    <3> QED
      BY <3>1, <1>1 DEF Shl, Shr
  <2> QED
    BY <2>1, <2>2, SMT DEF Bits, WordBits
<1>2. addr \subseteq Bits /\ Shl(Shr(addr, 12), 12) \subseteq Bits
  BY SMT DEF Shl, Bits, WordBits
<1> QED
  BY <1>1, <1>2

\* satp_t::new: mode, ASID and root are read back for every root below 2^56; of
\* an ASID what is read back is its lowest 16 bits, so that two ASIDs that agree
\* in them select the same translations.
THEOREM SatpReadsBack ==
  ASSUME NEW asid \in Word, NEW addr \in SUBSET (12 .. 55)
  PROVE  /\ SatpMode(satp_of(addr, asid)) = {3}
         /\ SatpAsid(satp_of(addr, asid)) = asid \cap 0 .. 15
         /\ SatpRoot(satp_of(addr, asid)) = addr
<1> DEFINE w == satp_of(addr, asid)
<1> USE DEF satp_of, satp_new, Word, Bits, WordBits, Shl, Shr
<1>1. SatpMode(w) = {3}
  BY SMT DEF SatpMode
<1>2. SatpAsid(w) = asid \cap 0 .. 15
  BY SMT DEF SatpAsid
<1>3. w \cap 0 .. 43 = Shr(addr, 12)
  BY SMT
<1>4. SatpRoot(w) = addr
  BY <1>3, ShiftBack, SMT DEF SatpRoot
<1> QED
  BY <1>1, <1>2, <1>4

\* PTE::pte_next_table: the address of a table or of a page is found again by
\* get_pte_from_ppn, and the entry counts as a table exactly if it is no leaf.
THEOREM KernelEntryReadsBack ==
  ASSUME NEW addr \in SUBSET (12 .. 55), NEW is_leaf \in BOOLEAN
  PROVE  /\ riscv_get_pte_from_ppn(riscv_pte_next_table(addr, is_leaf)) = addr
         /\ riscv_is_pte_table(riscv_pte_next_table(addr, is_leaf)) <=> ~ is_leaf
<1> DEFINE w == riscv_pte_next_table(addr, is_leaf)
<1> USE DEF riscv_pte_next_table, riscv_new, V, R, W, X, A, D, G, Bits, WordBits, Shl, Shr
<1>1. riscv_get_ppn(w) = Shr(addr, 12)
  BY SMT DEF riscv_get_ppn
<1>2. riscv_get_pte_from_ppn(w) = addr
  BY <1>1, ShiftBack, SMT DEF riscv_get_pte_from_ppn
<1>3. riscv_is_pte_table(w) <=> ~ is_leaf
  BY SMT DEF riscv_is_pte_table
<1> QED
  BY <1>2, <1>3

\* PTE::make_user_pte: whatever the address and the rights, a user's mapping is
\* never taken for a table, and if there is any right its address is found.
THEOREM UserEntryIsNoTable ==
  ASSUME NEW addr \in Word,
         NEW executable \in BOOLEAN, NEW read \in BOOLEAN, NEW write \in BOOLEAN
  PROVE  LET w == riscv_make_user_pte(addr, executable, read, write)
         IN  /\ ~ riscv_is_pte_table(w)
             /\ executable \/ read \/ write =>
                  riscv_get_pte_from_ppn(w) = addr \cap 12 .. 55
<1> DEFINE w == riscv_make_user_pte(addr, executable, read, write)
<1> USE DEF riscv_make_user_pte, riscv_pte_invalid, riscv_new, Flag, V, R, W, X, U, A, D,
            Word, Bits, WordBits, Shl, Shr
<1>1. ~ riscv_is_pte_table(w)
  BY SMT DEF riscv_is_pte_table
<1>2. ASSUME executable \/ read \/ write
      PROVE  riscv_get_pte_from_ppn(w) = addr \cap 12 .. 55
  <2>1. riscv_get_ppn(w) = Shr(addr \cap 12 .. 55, 12)
    BY <1>2, SMT DEF riscv_get_ppn
  <2> QED
    BY <2>1, ShiftBack, SMT DEF riscv_get_pte_from_ppn
<1> QED
  BY <1>1, <1>2

------------------------------------------------------------------------------
\* No attribute reaches the bits of the type or of the address.
LEMMA AttributesApart ==
  ASSUME NEW UXN, NEW nG, NEW AF, NEW SH, NEW AP, NEW AttrIndx
  PROVE  /\ Attributes(UXN, nG, AF, SH, AP, AttrIndx) \subseteq 2 .. 11 \cup {54}
         /\ MemoryType(Attributes(UXN, nG, AF, SH, AP, AttrIndx)) = AttrIndx \cap 0 .. 2
         /\ ExecuteNever(Attributes(UXN, nG, AF, SH, AP, AttrIndx)) <=> 0 \in UXN
<1> USE DEF Attributes, Bits, WordBits, Shl, Shr
<1>1. Attributes(UXN, nG, AF, SH, AP, AttrIndx) \subseteq 2 .. 11 \cup {54}
  BY SMT
<1>2. MemoryType(Attributes(UXN, nG, AF, SH, AP, AttrIndx)) = AttrIndx \cap 0 .. 2
  BY SMT DEF MemoryType
<1>3. ExecuteNever(Attributes(UXN, nG, AF, SH, AP, AttrIndx)) <=> 0 \in UXN
  BY SMT DEF ExecuteNever
<1> QED
  BY <1>1, <1>2, <1>3

\* pte_new_page: get_type tells it for a block, with the address of its frame.
LEMMA BlockReadsBack ==
  ASSUME NEW UXN, NEW addr \in Word, NEW nG, NEW AF, NEW SH, NEW AP, NEW AttrIndx
  PROVE  LET w == pte_new_page(UXN, addr, nG, AF, SH, AP, AttrIndx)
         IN  /\ get_type(w) = pte_page
             /\ next_level_paddr(w) = addr \cap 12 .. 47
             /\ MemoryType(w) = AttrIndx \cap 0 .. 2
             /\ ExecuteNever(w) <=> 0 \in UXN
<1> DEFINE attributes == Attributes(UXN, nG, AF, SH, AP, AttrIndx)
           w == attributes \cup (addr \cap 12 .. 47) \cup {0}
<1>1. /\ attributes \subseteq 2 .. 11 \cup {54}
      /\ MemoryType(attributes) = AttrIndx \cap 0 .. 2
      /\ ExecuteNever(attributes) <=> 0 \in UXN
  BY AttributesApart
<1> HIDE DEF attributes
<1>2. get_type(w) = pte_page
  BY <1>1, SMT DEF get_type, pte_page, Shr, Bits, WordBits
<1>3. next_level_paddr(w) = addr \cap 12 .. 47
  BY <1>1, SMT DEF next_level_paddr, PAGE_ADDR_MASK
<1>4. MemoryType(w) = MemoryType(attributes)
  BY <1>1, SMT DEF MemoryType, Shr, Bits, WordBits
<1>5. ExecuteNever(w) <=> ExecuteNever(attributes)
  BY <1>1, SMT DEF ExecuteNever
<1> QED
  BY <1>1, <1>2, <1>3, <1>4, <1>5 DEF pte_new_page, attributes

\* pte_new_4k_page: bit 58 tells it from a table.
LEMMA PageReadsBack ==
  ASSUME NEW UXN, NEW addr \in Word, NEW nG, NEW AF, NEW SH, NEW AP, NEW AttrIndx
  PROVE  LET w == pte_new_4k_page(UXN, addr, nG, AF, SH, AP, AttrIndx)
         IN  /\ get_type(w) = pte_4k_page
             /\ next_level_paddr(w) = addr \cap 12 .. 47
             /\ MemoryType(w) = AttrIndx \cap 0 .. 2
             /\ ExecuteNever(w) <=> 0 \in UXN
<1> DEFINE attributes == Attributes(UXN, nG, AF, SH, AP, AttrIndx)
           w == attributes \cup (addr \cap 12 .. 47) \cup {0, 1, 58}
<1>1. /\ attributes \subseteq 2 .. 11 \cup {54}
      /\ MemoryType(attributes) = AttrIndx \cap 0 .. 2
      /\ ExecuteNever(attributes) <=> 0 \in UXN
  BY AttributesApart
<1> HIDE DEF attributes
<1>2. get_type(w) = pte_4k_page
  BY <1>1, SMT DEF get_type, pte_4k_page, Shr, Bits, WordBits
<1>3. next_level_paddr(w) = addr \cap 12 .. 47
  BY <1>1, SMT DEF next_level_paddr, PAGE_ADDR_MASK
<1>4. MemoryType(w) = MemoryType(attributes)
  BY <1>1, SMT DEF MemoryType, Shr, Bits, WordBits
<1>5. ExecuteNever(w) <=> ExecuteNever(attributes)
  BY <1>1, SMT DEF ExecuteNever
<1> QED
  BY <1>1, <1>2, <1>3, <1>4, <1>5 DEF pte_new_4k_page, attributes

\* pte_new_table: a table for get_type, at the address that it was made for.
THEOREM TableReadsBack ==
  ASSUME NEW addr \in Word
  PROVE  /\ get_type(pte_new_table(addr)) = pte_table
         /\ next_level_paddr(pte_new_table(addr)) = addr \cap 12 .. 47
<1> USE DEF pte_new_table
<1>1. get_type(pte_new_table(addr)) = pte_table
  BY SMT DEF get_type, pte_table, Shr, Bits, WordBits, Word
<1>2. next_level_paddr(pte_new_table(addr)) = addr \cap 12 .. 47
  BY SMT DEF next_level_paddr, PAGE_ADDR_MASK
<1> QED
  BY <1>1, <1>2

\* PTE::make_user_pte of AArch64: for every address, right and attribute the
\* entry is a page or a block as its size asks, never a table, with the address,
\* the memory type and the right to execute that the attributes name.
THEOREM ArmUserEntryReadsBack ==
  ASSUME NEW addr \in Word, NEW AP, NEW attributes \in Word, NEW shareable,
         NEW small \in BOOLEAN
  PROVE  LET w == make_user_pte(addr, AP, attributes, shareable, small)
         IN  /\ get_type(w) = IF small THEN pte_4k_page ELSE pte_page
             /\ next_level_paddr(w) = addr \cap 12 .. 47
             /\ MemoryType(w) = IF 0 \in attributes THEN NORMAL ELSE DEVICE_nGnRnE
             /\ ExecuteNever(w) <=> 2 \in attributes
<1> DEFINE UXN == Flag(2 \in attributes, 0)
           attrindx == IF 0 \in attributes THEN NORMAL ELSE DEVICE_nGnRnE
           block == pte_new_page(UXN, addr, {0}, {0}, shareable, AP, attrindx)
           page  == pte_new_4k_page(UXN, addr, {0}, {0}, shareable, AP, attrindx)
<1>1. 0 \in UXN <=> 2 \in attributes
  BY DEF Flag
<1>2. attrindx \cap 0 .. 2 = attrindx
  BY SMT DEF NORMAL, DEVICE_nGnRnE
<1>3. make_user_pte(addr, AP, attributes, shareable, small) = IF small THEN page ELSE block
  BY DEF make_user_pte, get_arm_execute_never, get_arm_page_cachable
<1> HIDE DEF UXN, attrindx
<1>4. /\ get_type(page) = pte_4k_page
      /\ next_level_paddr(page) = addr \cap 12 .. 47
      /\ MemoryType(page) = attrindx
      /\ ExecuteNever(page) <=> 2 \in attributes
  <2>1. /\ get_type(page) = pte_4k_page
        /\ next_level_paddr(page) = addr \cap 12 .. 47
        /\ MemoryType(page) = attrindx \cap 0 .. 2
        /\ ExecuteNever(page) <=> 0 \in UXN
    BY PageReadsBack
  <2> QED
    BY <1>1, <1>2, <2>1
<1>5. /\ get_type(block) = pte_page
      /\ next_level_paddr(block) = addr \cap 12 .. 47
      /\ MemoryType(block) = attrindx
      /\ ExecuteNever(block) <=> 2 \in attributes
  <2>1. /\ get_type(block) = pte_page
        /\ next_level_paddr(block) = addr \cap 12 .. 47
        /\ MemoryType(block) = attrindx \cap 0 .. 2
        /\ ExecuteNever(block) <=> 0 \in UXN
    BY BlockReadsBack
  <2> QED
    BY <1>1, <1>2, <2>1
<1> HIDE DEF page, block
<1> QED
  BY <1>3, <1>4, <1>5 DEF attrindx

\* map_kernel_devices passes armExecuteNever as the whole word of attributes and
\* map_kernel_frame reads the bit as "cacheable": the page of a device that is
\* not to be executed is normal memory, and only that of another one is a device.
THEOREM ExecuteNeverDeviceIsCached ==
  ASSUME NEW addr \in Word, NEW AP, NEW smp, NEW armExecuteNever \in SUBSET {0}
  PROVE  LET w == map_kernel_frame(addr, AP, armExecuteNever, smp)
         IN  /\ get_type(w) = pte_4k_page
             /\ MemoryType(w) = IF armExecuteNever = {0} THEN NORMAL ELSE DEVICE_nGnRnE
             /\ ExecuteNever(w)
<1>1. \A SH, attrindx :
        LET w == pte_new_4k_page({0}, addr, {}, {0}, SH, AP, attrindx)
        IN  /\ get_type(w) = pte_4k_page
            /\ MemoryType(w) = attrindx \cap 0 .. 2
            /\ ExecuteNever(w)
  BY PageReadsBack
<1>2. NORMAL \cap 0 .. 2 = NORMAL /\ DEVICE_nGnRnE \cap 0 .. 2 = DEVICE_nGnRnE
  BY SMT DEF NORMAL, DEVICE_nGnRnE
<1>3. CASE armExecuteNever = {0}
  BY <1>1, <1>2, <1>3 DEF map_kernel_frame, get_page_cacheable
<1>4. CASE armExecuteNever = {}
  BY <1>1, <1>2, <1>4 DEF map_kernel_frame, get_page_cacheable
<1> QED
  BY <1>3, <1>4

------------------------------------------------------------------------------
\* set_attr and set_next_level_paddr change one half of a word each and keep the
\* other; new_page makes a word of two halves; the type is in that of set_attr.
THEOREM HalvesAreIndependent ==
  ASSUME NEW w \in Word, NEW addr \in Word, NEW value \in Word
  PROVE  /\ next_level_paddr(set_attr(w, value)) = next_level_paddr(w)
         /\ attr(set_attr(w, value)) = attr(value)
         /\ get_type(set_attr(w, value)) = get_type(value)
         /\ next_level_paddr(set_next_level_paddr(w, addr)) = next_level_paddr(addr)
         /\ attr(set_next_level_paddr(w, addr)) = attr(w)
         /\ get_type(set_next_level_paddr(w, addr)) = get_type(w)
         /\ new_page(addr, value) = set_next_level_paddr(value, addr)
<1>1. \A v \in Word : get_type(v) = get_type(attr(v))
  BY SMT DEF get_type, attr, PAGE_ADDR_MASK, Shr
<1>2. /\ next_level_paddr(set_attr(w, value)) = next_level_paddr(w)
      /\ attr(set_attr(w, value)) = attr(value)
      /\ next_level_paddr(set_next_level_paddr(w, addr)) = next_level_paddr(addr)
      /\ attr(set_next_level_paddr(w, addr)) = attr(w)
      /\ new_page(addr, value) = set_next_level_paddr(value, addr)
  BY DEF next_level_paddr, set_attr, attr, set_next_level_paddr, new_page
<1>3. set_attr(w, value) \in Word /\ set_next_level_paddr(w, addr) \in Word
  BY DEF set_attr, set_next_level_paddr, Word
<1> QED
  BY <1>1, <1>2, <1>3

\* get_ppn and get_pte_from_ppn_mut of AArch64, which nothing calls, shift by ten
\* and by twelve: together they give four times the address of the table.
THEOREM ArmPpnIsFourTimesTheAddress ==
  ASSUME NEW addr \in Word
  PROVE  get_pte_from_ppn_mut(pte_new_table(addr)) = Shl(next_level_paddr(pte_new_table(addr)), 2)
BY SMT DEF get_pte_from_ppn_mut, get_ppn, pte_new_table, next_level_paddr, PAGE_ADDR_MASK,
           Word, Bits, WordBits, Shl, Shr

\* ttbr_new: the ASID is cut to 16 bits and the address to 48, and neither runs
\* into the other.  A pointer of the kernel is no such address.
THEOREM TtbrReadsBack ==
  ASSUME NEW asid \in Word, NEW addr \in Word
  PROVE  /\ TtbrAsid(ttbr_new(asid, addr)) = asid \cap 0 .. 15
         /\ TtbrRoot(ttbr_new(asid, addr)) = addr \cap 0 .. 47
<1> USE DEF ttbr_new, Word, Bits, WordBits, Shl, Shr
<1>1. TtbrAsid(ttbr_new(asid, addr)) = asid \cap 0 .. 15
  BY SMT DEF TtbrAsid
<1>2. TtbrRoot(ttbr_new(asid, addr)) = addr \cap 0 .. 47
  BY SMT DEF TtbrRoot
<1> QED
  BY <1>1, <1>2
==============================================================================
