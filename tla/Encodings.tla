------------------------------ MODULE Encodings ------------------------------
(***************************************************************************)
(* The words that the crate packs: entries of page tables, satp, TTBR and  *)
(* the attributes of a mapping.                                            *)
(*                                                                         *)
(*   src/arch/riscv64/satp.rs   satp_t::new                                *)
(*   src/arch/riscv64/pte.rs    PTE::new, its constructors and accessors   *)
(*   src/arch/aarch64/pte.rs    pte_new_table, pte_new_page, ...           *)
(*   src/arch/aarch64/utils.rs  get_type, next_level_paddr, set_attr, ...  *)
(*   src/arch/aarch64/machine.rs ttbr_new                                  *)
(*   src/structures.rs          vm_attributes_t                            *)
(*                                                                         *)
(* A word is the set of its bits that are 1: a mask is an intersection, an *)
(* "or" a union, and a shift moves every bit and drops what leaves the     *)
(* word.  The modules of the page tables and of the ASIDs work on records; *)
(* what is proved here is that the records are what is read back.          *)
(***************************************************************************)
EXTENDS Integers

WordBits == 64
Bits == 0 .. WordBits - 1
Word == SUBSET Bits

Shl(w, n) == {b \in Bits : b - n \in w}
Shr(w, n) == {b \in Bits : b + n \in w}

\* A Boolean as the bit n, if it is set.
Flag(set, n) == IF set THEN {n} ELSE {}

------------------------------------------------------------------------------
(* RISC-V: satp.                                                           *)

satp_new(mode, asid, ppn) ==
  Shl(mode \cap 0 .. 3, 60) \cup Shl(asid \cap 0 .. 15, 44) \cup (ppn \cap 0 .. 43)

\* 8 is Sv39.
satp_of(addr, asid) == satp_new({3}, asid, Shr(addr, 12))

\* What the hart takes out of satp.
SatpMode(w) == Shr(w \cap 60 .. 63, 60)
SatpAsid(w) == Shr(w \cap 44 .. 59, 44)
SatpRoot(w) == Shl(w \cap 0 .. 43, 12)

(* RISC-V: entries.                                                        *)

V == 0
R == 1
W == 2
X == 3
U == 4
G == 5
A == 6
D == 7

riscv_new(ppn, flags) == flags \cup Shl(ppn, 10)
riscv_get_ppn(w) == Shr(w \cap 10 .. 53, 10)
riscv_get_pte_from_ppn(w) == Shl(riscv_get_ppn(w), 12)
riscv_is_pte_table(w) == V \in w /\ ~ (R \in w \/ W \in w \/ X \in w)
riscv_pte_invalid == {}

riscv_pte_next_table(addr, is_leaf) ==
  riscv_new(Shr(addr, 12), {V, G} \cup IF is_leaf THEN {X, W, R, A, D} ELSE {})

riscv_make_user_pte(addr, executable, read, write) ==
  IF ~ executable /\ ~ read /\ ~ write
  THEN riscv_pte_invalid
  ELSE riscv_new(Shr(addr, 12),
                 {V, D, A, U} \cup Flag(executable, X) \cup Flag(write, W) \cup Flag(read, R))

------------------------------------------------------------------------------
(* AArch64: entries.  Fields of more than one bit are words themselves.    *)

PAGE_ADDR_MASK == 12 .. 47

pte_new_table(addr) == (addr \cap 12 .. 47) \cup {0, 1}

\* The fields that blocks and pages share.
Attributes(UXN, nG, AF, SH, AP, AttrIndx) ==
  Shl(UXN \cap {0}, 54) \cup Shl(nG \cap {0}, 11) \cup Shl(AF \cap {0}, 10)
    \cup Shl(SH \cap 0 .. 1, 8) \cup Shl(AP \cap 0 .. 1, 6) \cup Shl(AttrIndx \cap 0 .. 2, 2)

pte_new_page(UXN, addr, nG, AF, SH, AP, AttrIndx) ==
  Attributes(UXN, nG, AF, SH, AP, AttrIndx) \cup (addr \cap 12 .. 47) \cup {0}

pte_new_4k_page(UXN, addr, nG, AF, SH, AP, AttrIndx) ==
  Attributes(UXN, nG, AF, SH, AP, AttrIndx) \cup (addr \cap 12 .. 47) \cup {0, 1, 58}

get_type(w) == (w \cap {0, 1}) \cup Shr(w \cap {58}, 56)
pte_invalid == {}
pte_page    == {0}
pte_table   == {0, 1}
pte_4k_page == {0, 1, 2}

next_level_paddr(w) == w \cap PAGE_ADDR_MASK
set_next_level_paddr(w, addr) == (w \ PAGE_ADDR_MASK) \cup (addr \cap PAGE_ADDR_MASK)
attr(w) == w \ PAGE_ADDR_MASK
set_attr(w, value) == (w \cap PAGE_ADDR_MASK) \cup (value \ PAGE_ADDR_MASK)
new_page(addr, sign) == (addr \cap PAGE_ADDR_MASK) \cup (sign \ PAGE_ADDR_MASK)

\* Shifted by ten one way and by twelve the other.
get_ppn(w) == Shr(w \cap 12 .. 47, 10)
get_pte_from_ppn_mut(w) == Shl(get_ppn(w), 12)

(* AArch64: TTBR0.                                                         *)

ttbr_new(asid, addr) == Shl(asid \cap 0 .. 15, 48) \cup (addr \cap 0 .. 47)

\* What the processor takes out of it.
TtbrAsid(w) == Shr(w \cap 48 .. 63, 48)
TtbrRoot(w) == w \cap 0 .. 47

------------------------------------------------------------------------------
(* AArch64: the attributes of a mapping, in the word that a program or the *)
(* boot code passes, and what the entries make of them.                    *)

get_page_cacheable(w)    == w \cap {0}
get_arm_execute_never(w) == 2 \in w
get_arm_page_cachable(w) == 0 \in w

\* mair_types.
DEVICE_nGnRnE == {}
NORMAL        == {2}

\* What the processor takes out of a block or a page.
MemoryType(w)   == Shr(w \cap 2 .. 4, 2)
ExecuteNever(w) == 54 \in w

\* The entry for a user's page; shareable depends on enable_smp.
make_user_pte(addr, AP, attributes, shareable, small) ==
  LET UXN      == Flag(get_arm_execute_never(attributes), 0)
      attrindx == IF get_arm_page_cachable(attributes) THEN NORMAL ELSE DEVICE_nGnRnE
  IN  IF small
      THEN pte_new_4k_page(UXN, addr, {0}, {0}, shareable, AP, attrindx)
      ELSE pte_new_page(UXN, addr, {0}, {0}, shareable, AP, attrindx)

\* The entry that map_kernel_frame writes; smp is what is shareable then.
map_kernel_frame(addr, AP, attributes, smp) ==
  IF get_page_cacheable(attributes) # {}
  THEN pte_new_4k_page({0}, addr, {}, {0}, smp, AP, NORMAL)
  ELSE pte_new_4k_page({0}, addr, {}, {0}, {}, AP, DEVICE_nGnRnE)
==============================================================================
