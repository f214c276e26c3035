------------------------ MODULE RiscvPageTableProofs ------------------------
(***************************************************************************)
(* But for what unmap_page_table leaves behind, the page tables of RISC-V  *)
(* form trees and a frame is reached only where its capability says; and   *)
(* the kernel's half of every root stays.                                  *)
(*                                                                         *)
(* The first half is about one memory m, or two of them, and no variable:  *)
(* where a lookup ends and what a write changes of it.  V is the tables    *)
(* that are live, L those that were left behind.                           *)
(***************************************************************************)
EXTENDS RiscvPageTable, TLAPS

At(m, s)   == m[s.table][s.index]
Link(m, s) == is_pte_table(At(m, s))
Slot(t, i, n) == [table |-> t, index |-> i, level |-> n]

\* lookup_pt_slot in the memory m, turn by turn.
Turn0(r, va) == Slot(r, va[0], 0)
Turn1(m, r, va) ==
  LET up == Turn0(r, va)
  IN  IF Link(m, up) THEN Slot(At(m, up).ppn, va[1], 1) ELSE up
Lookup(m, r, va) ==
  LET up == Turn1(m, r, va)
  IN  IF up.level = 1 /\ Link(m, up) THEN Slot(At(m, up).ppn, va[2], 2) ELSE up

\* The walk passes no table of L; a root is in none.
Clean(m, L, r, va) == Turn1(m, r, va).table \notin L /\ Lookup(m, r, va).table \notin L

\* What the walker makes of va below the root r.
Reached(m, r, va) ==
  LET lu  == Lookup(m, r, va)
      pte == At(m, lu)
  IN  IF pte.v /\ pte.rwx THEN [frame |-> pte.ppn, level |-> lu.level] ELSE NoCap

\* A recursive function is the one that satisfies its equation, if any does; with
\* three levels the one that does can be written down.
LEMMA Unfold ==
  ASSUME NEW m, NEW r, NEW va
  PROVE  LET walk[n \in Levels] ==
               IF n = 0
               THEN [table |-> r, index |-> va[0], level |-> 0]
               ELSE LET up == walk[n - 1]
                    IN  IF up.level = n - 1 /\ is_pte_table(m[up.table][up.index])
                        THEN [table |-> m[up.table][up.index].ppn, index |-> va[n], level |-> n]
                        ELSE up
         IN  walk[1] = Turn1(m, r, va) /\ walk[2] = Lookup(m, r, va)
<1> DEFINE Body(w, n) ==
             IF n = 0
             THEN [table |-> r, index |-> va[0], level |-> 0]
             ELSE LET up == w[n - 1]
                  IN  IF up.level = n - 1 /\ is_pte_table(m[up.table][up.index])
                      THEN [table |-> m[up.table][up.index].ppn, index |-> va[n], level |-> n]
                      ELSE up
           walk == CHOOSE w : w = [n \in Levels |-> Body(w, n)]
           f == [n \in Levels |-> IF n = 0 THEN Turn0(r, va)
                                  ELSE IF n = 1 THEN Turn1(m, r, va) ELSE Lookup(m, r, va)]
<1>1. f = [n \in Levels |-> Body(f, n)]
  <2>1. f[0] = Turn0(r, va) /\ f[1] = Turn1(m, r, va) /\ f[2] = Lookup(m, r, va)
    BY DEF Levels
  <2> HIDE DEF f
  <2>2. Body(f, 0) = Turn0(r, va)
    BY DEF Turn0, Slot
  <2>3. Body(f, 1) = Turn1(m, r, va)
    <3>1. f[1 - 1] = Turn0(r, va) /\ Turn0(r, va).level = 1 - 1
      BY <2>1 DEF Turn0, Slot
    <3> QED
      BY <3>1 DEF Turn1, Slot, At, Link
  <2>4. Body(f, 2) = Lookup(m, r, va)
    <3>1. f[2 - 1] = Turn1(m, r, va)
      BY <2>1
    <3> QED
      BY <3>1 DEF Lookup, Slot, At, Link
  <2> HIDE DEF Body
  <2>5. \A n \in Levels : n = 0 \/ n = 1 \/ n = 2
    BY DEF Levels
  <2>6. \A n \in Levels : f[n] = Body(f, n)
    BY <2>1, <2>2, <2>3, <2>4, <2>5
  <2>7. DOMAIN f = Levels /\ f = [n \in Levels |-> f[n]]
    BY DEF f
  <2> QED
    BY <2>6, <2>7
<1> HIDE DEF f
<1>2. walk = [n \in Levels |-> Body(walk, n)]
  BY <1>1
<1>3. walk[0] = Body(walk, 0) /\ walk[1] = Body(walk, 1) /\ walk[2] = Body(walk, 2)
  <2> HIDE DEF Body, walk
  <2>1. {0, 1, 2} \subseteq Levels
    BY DEF Levels
  <2> QED
    BY <1>2, <2>1
<1> HIDE DEF walk
<1>4. walk[0] = Turn0(r, va)
  BY <1>3 DEF Turn0, Slot
<1>5. walk[1] = Turn1(m, r, va)
  BY <1>3, <1>4 DEF Turn0, Turn1, Slot, At, Link
<1>6. walk[2] = Lookup(m, r, va)
  BY <1>3, <1>5 DEF Lookup, Slot, At, Link
<1> QED
  BY <1>5, <1>6 DEF walk

LEMMA LookupIs ==
  ASSUME NEW r, NEW va
  PROVE  /\ lookup_pt_slot(r, va) = Lookup(mem, r, va)
         /\ Walk(r, va)[1] = Turn1(mem, r, va)
BY Unfold DEF lookup_pt_slot, Walk, PteAt

------------------------------------------------------------------------------
(* What a memory keeps.                                                    *)

Memory == [Tables -> [Index -> PTE]]

\* An entry is clear, or leads to a page table, or maps a frame, or is one of the
\* kernel's, which only roots have and only in their upper half.
EntriesLead(m) ==
  \A t \in Tables, i \in Index :
    LET e == m[t][i]
    IN  /\ ~ e.v => e = pte_invalid
        /\ is_pte_table(e) => e.ppn \in PageTables
        /\ e.v /\ e.rwx => \/ e.ppn \in Frames
                           \/ e.ppn = KernelPage /\ t \notin PageTables /\ i >= KernelIndex

\* The kernel's root is as the boot code left it.
KernelRow(m) ==
  \A i \in Index : m[KernelRoot][i] = IF i >= KernelIndex
                                      THEN [v |-> TRUE, rwx |-> TRUE, ppn |-> KernelPage]
                                      ELSE pte_invalid

Sound(m) == m \in Memory /\ EntriesLead(m) /\ KernelRow(m)

\* A page table has one entry that leads to it.
OneParent(m, V, L) ==
  \A t \in V, i \in Index, u \in V, j \in Index :
    is_pte_table(m[t][i]) /\ is_pte_table(m[u][j]) /\ m[t][i].ppn = m[u][j].ppn
      => m[t][i].ppn \in L \/ (t = u /\ i = j)

\* What a live entry leads to is mapped.
LedAreMapped(m, V, L, cap) ==
  \A t \in V, i \in Index :
    is_pte_table(m[t][i]) => cap[m[t][i].ppn] # NoCap \/ m[t][i].ppn \in L

\* What is not mapped is clear.
UnmappedAreClear(m, L, cap) ==
  \A t \in PageTables : cap[t] = NoCap => m[t] = Blank \/ t \in L

Trees(m, V, L, cap) ==
  OneParent(m, V, L) /\ LedAreMapped(m, V, L, cap) /\ UnmappedAreClear(m, L, cap)

\* What an address of user space is made of.
LEMMA Addresses ==
  ASSUME NEW va \in UserVAddr
  PROVE  /\ va \in [Levels -> Index]
         /\ va[0] \in Index /\ va[1] \in Index /\ va[2] \in Index /\ va[0] < KernelIndex
<1>1. va \in VAddr /\ va[0] < KernelIndex
  BY RiscvPageTableAssumption
<1> QED
  BY <1>1 DEF VAddr, Levels

\* A lookup ends at one of the three levels, below the root in page tables.
LEMMA LookupCases ==
  ASSUME NEW m, Sound(m), NEW r \in Roots, NEW va \in UserVAddr
  PROVE  LET s == Lookup(m, r, va)
             t == m[r][va[0]].ppn
             u == m[t][va[1]].ppn
         IN  \/ s = Slot(r, va[0], 0) /\ ~ Link(m, s)
             \/ /\ is_pte_table(m[r][va[0]]) /\ t \in PageTables
                /\ s = Slot(t, va[1], 1) /\ ~ Link(m, s)
             \/ /\ is_pte_table(m[r][va[0]]) /\ t \in PageTables
                /\ is_pte_table(m[t][va[1]]) /\ u \in PageTables
                /\ s = Slot(u, va[2], 2)
<1>1. va[0] \in Index /\ va[1] \in Index /\ va[2] \in Index
  BY Addresses
<1>2. \A t \in Tables, i \in Index : is_pte_table(m[t][i]) => m[t][i].ppn \in PageTables
  BY DEF Sound, EntriesLead
<1>3. r \in Tables /\ PageTables \subseteq Tables
  BY DEF Tables
<1> DEFINE t == m[r][va[0]].ppn
           u == m[t][va[1]].ppn
<1>4. CASE ~ is_pte_table(m[r][va[0]])
  BY <1>4 DEF Lookup, Turn1, Turn0, Slot, Link, At
<1>5. CASE is_pte_table(m[r][va[0]]) /\ ~ is_pte_table(m[t][va[1]])
  <2>1. t \in PageTables
    BY <1>1, <1>2, <1>3, <1>5
  <2>2. Lookup(m, r, va) = Slot(t, va[1], 1)
    BY <1>5 DEF Lookup, Turn1, Turn0, Slot, Link, At
  <2>3. ~ Link(m, Slot(t, va[1], 1))
    BY ONLY <1>5 DEF Slot, Link, At
  <2> QED
    BY ONLY <1>5, <2>1, <2>2, <2>3
<1>6. CASE is_pte_table(m[r][va[0]]) /\ is_pte_table(m[t][va[1]])
  <2>1. t \in PageTables /\ u \in PageTables
    BY <1>1, <1>2, <1>3, <1>6
  <2>2. Lookup(m, r, va) = Slot(u, va[2], 2)
    BY <1>6 DEF Lookup, Turn1, Turn0, Slot, Link, At
  <2> QED
    BY <1>6, <2>1, <2>2
<1> QED
  BY <1>4, <1>5, <1>6

\* A slot as lookup_pt_slot returns it, written by whoever asked for it.
IsSlot(s) == /\ s.table \in Roots \cup PageTables /\ s.index \in Index /\ s.level \in Levels
             /\ s.table \in Roots => s.index < KernelIndex
             /\ s = Slot(s.table, s.index, s.level)

LEMMA LookupIsSlot ==
  ASSUME NEW m, Sound(m), NEW r \in Roots, NEW va \in UserVAddr
  PROVE  IsSlot(Lookup(m, r, va))
<1>1. va[0] \in Index /\ va[1] \in Index /\ va[2] \in Index /\ va[0] < KernelIndex
  BY Addresses
<1>2. \A t \in PageTables : t \notin Roots
  BY RiscvPageTableAssumption
<1>3. \A t, i, n : Slot(t, i, n).table = t /\ Slot(t, i, n).index = i /\ Slot(t, i, n).level = n
  BY DEF Slot
<1>4. {0, 1, 2} \subseteq Levels
  BY DEF Levels
<1> QED
  BY <1>1, <1>2, <1>3, <1>4, LookupCases DEF IsSlot

\* Two lookups that end at the same slot, one of which is clean, began at the same
\* root, ended at the same level, and went the same way.
LEMMA OneWay ==
  ASSUME NEW m, Sound(m), NEW V, NEW L, OneParent(m, V, L), PageTables \subseteq V,
         NEW r \in Roots \cap V, NEW va \in UserVAddr,
         NEW q \in Roots \cap V, NEW vb \in UserVAddr,
         Clean(m, L, r, va),
         Lookup(m, r, va).table = Lookup(m, q, vb).table,
         Lookup(m, r, va).index = Lookup(m, q, vb).index
  PROVE  /\ r = q /\ Lookup(m, r, va) = Lookup(m, q, vb)
         /\ \A n \in Levels : n <= Lookup(m, r, va).level => va[n] = vb[n]
<1> DEFINE s == Lookup(m, r, va)
           x == Lookup(m, q, vb)
           t == m[r][va[0]].ppn
           u == m[t][va[1]].ppn
           c == m[q][vb[0]].ppn
           d == m[c][vb[1]].ppn
<1>1. /\ va[0] \in Index /\ va[1] \in Index /\ va[2] \in Index
      /\ vb[0] \in Index /\ vb[1] \in Index /\ vb[2] \in Index
  BY Addresses
<1>2. r \in V /\ q \in V /\ PageTables \subseteq V
      /\ r \notin PageTables /\ q \notin PageTables
  BY RiscvPageTableAssumption
<1>3. \A t1 \in V, i \in Index, u1 \in V, j \in Index :
        is_pte_table(m[t1][i]) /\ is_pte_table(m[u1][j]) /\ m[t1][i].ppn = m[u1][j].ppn
          => (t1 = u1 /\ i = j) \/ m[t1][i].ppn \in L
  BY DEF OneParent
<1>4. \/ s = Slot(r, va[0], 0)
      \/ is_pte_table(m[r][va[0]]) /\ t \in PageTables /\ s = Slot(t, va[1], 1)
      \/ /\ is_pte_table(m[r][va[0]]) /\ t \in PageTables
         /\ is_pte_table(m[t][va[1]]) /\ u \in PageTables /\ s = Slot(u, va[2], 2)
  BY LookupCases
<1>5. \/ x = Slot(q, vb[0], 0)
      \/ is_pte_table(m[q][vb[0]]) /\ c \in PageTables /\ x = Slot(c, vb[1], 1)
      \/ /\ is_pte_table(m[q][vb[0]]) /\ c \in PageTables
         /\ is_pte_table(m[c][vb[1]]) /\ d \in PageTables /\ x = Slot(d, vb[2], 2)
  BY LookupCases
<1>6. s.table = x.table /\ s.index = x.index
  OBVIOUS
<1>c. /\ s.table \notin L
      /\ is_pte_table(m[r][va[0]]) => t \notin L
  BY DEF Clean, Turn1, Turn0, Slot, Link, At
<1> HIDE DEF s, x
<1>7. CASE s = Slot(r, va[0], 0)
  <2>1. s.table = r /\ s.index = va[0] /\ s.level = 0
    BY <1>7 DEF Slot
  <2>2. x = Slot(q, vb[0], 0)
    <3>1. x.table \notin PageTables
      BY <1>2, <1>6, <2>1
    <3>2. Slot(c, vb[1], 1).table = c /\ Slot(d, vb[2], 2).table = d
      BY DEF Slot
    <3> QED
      BY <1>5, <3>1, <3>2
  <2>3. r = q /\ va[0] = vb[0]
    BY <1>6, <2>1, <2>2 DEF Slot
  <2>4. \A n \in Levels : n <= 0 => n = 0
    BY DEF Levels
  <2> QED
    BY <1>7, <2>1, <2>2, <2>3, <2>4 DEF s, x
<1>8. CASE is_pte_table(m[r][va[0]]) /\ t \in PageTables /\ s = Slot(t, va[1], 1)
  <2>1. s.table = t /\ s.index = va[1] /\ s.level = 1
    BY <1>8 DEF Slot
  <2>2. CASE x = Slot(q, vb[0], 0)
    BY <1>2, <1>6, <1>8, <2>1, <2>2 DEF Slot
  <2>3. CASE is_pte_table(m[q][vb[0]]) /\ c \in PageTables /\ x = Slot(c, vb[1], 1)
    <3>1. t = c /\ va[1] = vb[1]
      BY <1>6, <2>1, <2>3 DEF Slot
    <3>2. r = q /\ va[0] = vb[0]
      BY <1>1, <1>2, <1>3, <1>8, <1>c, <2>3, <3>1
    <3>3. \A n \in Levels : n <= 1 => n = 0 \/ n = 1
      BY DEF Levels
    <3>4. s = x
      BY <1>8, <2>3, <3>1
    <3> QED
      BY <2>1, <3>1, <3>2, <3>3, <3>4 DEF s, x
  <2>4. CASE /\ is_pte_table(m[q][vb[0]]) /\ c \in PageTables
             /\ is_pte_table(m[c][vb[1]]) /\ d \in PageTables /\ x = Slot(d, vb[2], 2)
    <3>1. t = d
      BY <1>6, <2>1, <2>4 DEF Slot
    <3>2. r = c
      <4>1. r \in V /\ c \in V /\ m[r][va[0]].ppn = m[c][vb[1]].ppn
        BY <1>2, <2>4, <3>1
      <4> QED
        BY <1>1, <1>3, <1>8, <1>c, <2>4, <4>1
    <3> QED
      BY <1>2, <2>4, <3>2
  <2> QED
    BY <1>5, <2>2, <2>3, <2>4
<1>9. CASE /\ is_pte_table(m[r][va[0]]) /\ t \in PageTables
           /\ is_pte_table(m[t][va[1]]) /\ u \in PageTables /\ s = Slot(u, va[2], 2)
  <2>1. s.table = u /\ s.index = va[2] /\ s.level = 2
    BY <1>9 DEF Slot
  <2>2. CASE x = Slot(q, vb[0], 0)
    BY <1>2, <1>6, <1>9, <2>1, <2>2 DEF Slot
  <2>3. CASE is_pte_table(m[q][vb[0]]) /\ c \in PageTables /\ x = Slot(c, vb[1], 1)
    <3>1. u = c
      BY <1>6, <2>1, <2>3 DEF Slot
    <3>2. /\ is_pte_table(m[t][va[1]]) /\ is_pte_table(m[q][vb[0]])
          /\ m[t][va[1]].ppn = m[q][vb[0]].ppn
      BY ONLY <1>9, <2>3, <3>1
    <3>3. t \in V /\ t # q /\ m[t][va[1]].ppn \notin L
      BY ONLY <1>2, <1>9, <1>c, <2>1
    <3> HIDE DEF t
    <3> QED
      BY ONLY <1>1, <1>2, <1>3, <3>2, <3>3
  <2>4. CASE /\ is_pte_table(m[q][vb[0]]) /\ c \in PageTables
             /\ is_pte_table(m[c][vb[1]]) /\ d \in PageTables /\ x = Slot(d, vb[2], 2)
    <3>1. u = d /\ va[2] = vb[2]
      BY <1>6, <2>1, <2>4 DEF Slot
    <3>2. t = c /\ va[1] = vb[1]
      <4> HIDE DEF t, c
      <4>1. t \in V /\ c \in V /\ m[t][va[1]].ppn = m[c][vb[1]].ppn
            /\ m[t][va[1]].ppn \notin L
        BY <1>2, <1>9, <1>c, <2>1, <2>4, <3>1
      <4> QED
        BY <1>1, <1>3, <1>9, <2>4, <4>1
    <3>3. r = q /\ va[0] = vb[0]
      BY <1>1, <1>2, <1>3, <1>9, <1>c, <2>4, <3>2
    <3>4. \A n \in Levels : n = 0 \/ n = 1 \/ n = 2
      BY DEF Levels
    <3>5. s = x
      BY <1>9, <2>4, <3>1
    <3> QED
      BY <2>1, <3>1, <3>2, <3>3, <3>4, <3>5 DEF s, x
  <2> QED
    BY <1>5, <2>2, <2>3, <2>4
<1> QED
  BY <1>4, <1>7, <1>8, <1>9

\* An address that agrees as far as the lookup looks has the same slot.
LEMMA SamePrefix ==
  ASSUME NEW m, NEW r, NEW va, NEW vb,
         \A n \in Levels : n <= Lookup(m, r, va).level => va[n] = vb[n]
  PROVE  Lookup(m, r, vb) = Lookup(m, r, va)
<1> DEFINE s == Lookup(m, r, va)
           t == m[r][va[0]].ppn
           u == m[t][va[1]].ppn
<1>1. \/ s = Slot(r, va[0], 0) /\ ~ is_pte_table(m[r][va[0]])
      \/ /\ is_pte_table(m[r][va[0]]) /\ s = Slot(t, va[1], 1)
         /\ ~ is_pte_table(m[t][va[1]])
      \/ /\ is_pte_table(m[r][va[0]]) /\ is_pte_table(m[t][va[1]])
         /\ s = Slot(u, va[2], 2)
  BY DEF Lookup, Turn1, Turn0, Slot, Link, At
<1>2. 0 \in Levels /\ 1 \in Levels /\ 2 \in Levels
  BY DEF Levels
<1>3. \A n \in Levels : n <= s.level => va[n] = vb[n]
  OBVIOUS
<1> HIDE DEF s
<1>4. s.level \in {0, 1, 2}
  BY <1>1 DEF Slot
<1>5. va[0] = vb[0]
  BY <1>2, <1>3, <1>4
<1>6. CASE s = Slot(r, va[0], 0) /\ ~ is_pte_table(m[r][va[0]])
  BY <1>5, <1>6 DEF s, Lookup, Turn1, Turn0, Slot, Link, At
<1>7. CASE /\ is_pte_table(m[r][va[0]]) /\ s = Slot(t, va[1], 1)
           /\ ~ is_pte_table(m[t][va[1]])
  <2>1. va[1] = vb[1]
    <3>1. s.level = 1
      BY ONLY <1>7 DEF Slot
    <3> QED
      BY ONLY <1>2, <1>3, <3>1
  <2> QED
    BY <1>5, <1>7, <2>1 DEF s, Lookup, Turn1, Turn0, Slot, Link, At
<1>8. CASE /\ is_pte_table(m[r][va[0]]) /\ is_pte_table(m[t][va[1]])
           /\ s = Slot(u, va[2], 2)
  <2>1. va[1] = vb[1] /\ va[2] = vb[2]
    <3>1. s.level = 2
      BY ONLY <1>8 DEF Slot
    <3> QED
      BY ONLY <1>2, <1>3, <3>1
  <2> QED
    BY <1>5, <1>8, <2>1 DEF s, Lookup, Turn1, Turn0, Slot, Link, At
<1> QED
  BY <1>1, <1>6, <1>7, <1>8 DEF s

------------------------------------------------------------------------------
(* What a write changes of it.                                             *)

\* Only what the walker follows decides where a lookup ends.
LEMMA SameLinks ==
  ASSUME NEW m, Sound(m), NEW n, NEW r \in Roots, NEW va \in UserVAddr,
         \A t \in Tables, i \in Index :
           n[t][i] = m[t][i] \/ (~ is_pte_table(n[t][i]) /\ ~ is_pte_table(m[t][i]))
  PROVE  Lookup(n, r, va) = Lookup(m, r, va) /\ Turn1(n, r, va) = Turn1(m, r, va)
<1> DEFINE t == m[r][va[0]].ppn
           u == m[t][va[1]].ppn
<1>1. va[0] \in Index /\ va[1] \in Index /\ r \in Tables /\ PageTables \subseteq Tables
  BY Addresses DEF Tables
<1>2. n[r][va[0]] = m[r][va[0]] \/ (~ is_pte_table(n[r][va[0]]) /\ ~ is_pte_table(m[r][va[0]]))
  BY <1>1
<1>3. CASE ~ is_pte_table(m[r][va[0]])
  <2>1. ~ is_pte_table(n[r][va[0]])
    BY <1>2, <1>3
  <2> QED
    BY <1>3, <2>1 DEF Lookup, Turn1, Turn0, Slot, Link, At
<1>4. CASE is_pte_table(m[r][va[0]])
  <2>1. n[r][va[0]] = m[r][va[0]]
    BY <1>2, <1>4
  <2>2. t \in Tables
    BY <1>1, <1>4 DEF Sound, EntriesLead
  <2>3. n[t][va[1]] = m[t][va[1]] \/ (~ is_pte_table(n[t][va[1]]) /\ ~ is_pte_table(m[t][va[1]]))
    BY <1>1, <2>2
  <2>4. CASE ~ is_pte_table(m[t][va[1]])
    <3>1. ~ is_pte_table(n[t][va[1]])
      BY <2>3, <2>4
    <3> QED
      BY <1>4, <2>1, <2>4, <3>1 DEF Lookup, Turn1, Turn0, Slot, Link, At
  <2>5. CASE is_pte_table(m[t][va[1]])
    <3>1. n[t][va[1]] = m[t][va[1]]
      BY <2>3, <2>5
    <3> QED
      BY <1>4, <2>1, <2>5, <3>1 DEF Lookup, Turn1, Turn0, Slot, Link, At
  <2> QED
    BY <2>4, <2>5
<1> QED
  BY <1>3, <1>4

\* What is reached stays reached as long as only clear entries are written.
LEMMA Kept ==
  ASSUME NEW m, Sound(m), NEW n, NEW r \in Roots, NEW va \in UserVAddr,
         \A t \in PageTables \cup {r}, i \in Index : m[t][i].v => n[t][i] = m[t][i],
         Reached(m, r, va) # NoCap
  PROVE  Reached(n, r, va) = Reached(m, r, va)
<1> DEFINE s == Lookup(m, r, va)
           t == m[r][va[0]].ppn
           u == m[t][va[1]].ppn
<1>1. va[0] \in Index /\ va[1] \in Index /\ va[2] \in Index
  BY Addresses
<1>2. \A e : is_pte_table(e) => e.v
  BY DEF is_pte_table
<1>3. At(m, s).v /\ At(m, s).rwx
  BY DEF Reached
<1>4. ~ is_pte_table(At(m, s))
  BY <1>3 DEF is_pte_table
<1>5. \/ s = Slot(r, va[0], 0)
         /\ ~ Link(m, s)
      \/ /\ is_pte_table(m[r][va[0]]) /\ t \in PageTables
         /\ s = Slot(t, va[1], 1) /\ ~ Link(m, s)
      \/ /\ is_pte_table(m[r][va[0]]) /\ t \in PageTables
         /\ is_pte_table(m[t][va[1]]) /\ u \in PageTables
         /\ s = Slot(u, va[2], 2)
  BY LookupCases
<1>6. \A w \in PageTables \cup {r}, i \in Index :
        is_pte_table(m[w][i]) => n[w][i] = m[w][i]
  BY <1>2
<1>7. is_pte_table(m[r][va[0]]) => n[r][va[0]] = m[r][va[0]]
  BY ONLY <1>1, <1>6
<1>8. ASSUME NEW w \in PageTables, is_pte_table(m[w][va[1]])
      PROVE  n[w][va[1]] = m[w][va[1]]
  BY ONLY <1>1, <1>6, <1>8
<1> HIDE DEF s
<1>9. Lookup(n, r, va) = s /\ At(n, s) = At(m, s)
  <2>1. CASE s = Slot(r, va[0], 0)
    <3>1. At(m, s) = m[r][va[0]] /\ At(n, s) = n[r][va[0]]
      BY <2>1 DEF At, Slot
    <3>2. n[r][va[0]] = m[r][va[0]]
      BY <1>1, <1>3, <3>1
    <3>3. ~ is_pte_table(n[r][va[0]])
      BY <1>4, <3>1, <3>2
    <3>4. Lookup(n, r, va) = Slot(r, va[0], 0)
      BY <3>3 DEF Lookup, Turn1, Turn0, Slot, Link, At
    <3> QED
      BY <2>1, <3>1, <3>2, <3>4
  <2>2. CASE is_pte_table(m[r][va[0]]) /\ t \in PageTables /\ s = Slot(t, va[1], 1)
    <3>1. At(m, s) = m[t][va[1]] /\ At(n, s) = n[t][va[1]]
      BY <2>2 DEF At, Slot
    <3>2. n[r][va[0]] = m[r][va[0]]
      BY <1>7, <2>2
    <3>3. n[t][va[1]] = m[t][va[1]]
      BY <1>1, <1>3, <2>2, <3>1
    <3>4. ~ is_pte_table(n[t][va[1]])
      BY <1>4, <3>1, <3>3
    <3>5. Lookup(n, r, va) = Slot(t, va[1], 1)
      BY <2>2, <3>2, <3>4 DEF Lookup, Turn1, Turn0, Slot, Link, At
    <3> QED
      BY <2>2, <3>1, <3>3, <3>5
  <2>3. CASE /\ is_pte_table(m[r][va[0]]) /\ t \in PageTables
             /\ is_pte_table(m[t][va[1]]) /\ u \in PageTables
             /\ s = Slot(u, va[2], 2)
    <3>1. At(m, s) = m[u][va[2]] /\ At(n, s) = n[u][va[2]]
      BY <2>3 DEF At, Slot
    <3>2. n[r][va[0]] = m[r][va[0]]
      BY <1>7, <2>3
    <3>3. n[t][va[1]] = m[t][va[1]]
      BY <1>8, <2>3
    <3>4. n[u][va[2]] = m[u][va[2]]
      BY <1>1, <1>3, <2>3, <3>1
    <3>5. Lookup(n, r, va) = Slot(u, va[2], 2)
      BY <2>3, <3>2, <3>3 DEF Lookup, Turn1, Turn0, Slot, Link, At
    <3> QED
      BY <2>3, <3>1, <3>4, <3>5
  <2> QED
    BY <1>5, <2>1, <2>2, <2>3
<1> QED
  BY <1>9 DEF Reached, s

\* Clearing entries, and leading to tables that are clear, shows nothing new, but
\* below what was left behind.
LEMMA NothingNew ==
  ASSUME NEW m, Sound(m), NEW n, NEW L, NEW r \in Roots, NEW va \in UserVAddr,
         \A t \in Roots \cup PageTables, i \in Index :
           (t \in Roots => i < KernelIndex) =>
             \/ n[t][i] = m[t][i]
             \/ n[t][i] = pte_invalid
             \/ is_pte_table(n[t][i]) /\ (n[n[t][i].ppn] = Blank \/ n[t][i].ppn \in L),
         Reached(n, r, va) # NoCap, Clean(n, L, r, va)
  PROVE  Reached(m, r, va) = Reached(n, r, va) /\ Clean(m, L, r, va)
<1> DEFINE s == Lookup(n, r, va)
           t == n[r][va[0]].ppn
           u == n[t][va[1]].ppn
<1>1. /\ va[0] \in Index /\ va[1] \in Index /\ va[2] \in Index /\ va[0] < KernelIndex
      /\ r \in Tables /\ PageTables \subseteq Tables
      /\ \A x \in PageTables : x \notin Roots
  BY RiscvPageTableAssumption, Addresses DEF Tables
<1>2. At(n, s).v /\ At(n, s).rwx
  BY DEF Reached
<1>3. ~ pte_invalid.v /\ ~ is_pte_table(pte_invalid)
  BY DEF pte_invalid, is_pte_table
<1>4. \A i \in Index : Blank[i] = pte_invalid
  BY DEF Blank
<1>5. \/ s = Slot(r, va[0], 0) /\ ~ is_pte_table(n[r][va[0]])
      \/ /\ is_pte_table(n[r][va[0]]) /\ s = Slot(t, va[1], 1)
         /\ ~ is_pte_table(n[t][va[1]])
      \/ /\ is_pte_table(n[r][va[0]]) /\ is_pte_table(n[t][va[1]])
         /\ s = Slot(u, va[2], 2)
  BY DEF Lookup, Turn1, Turn0, Slot, Link, At
<1>6. \/ n[r][va[0]] = m[r][va[0]]
      \/ n[r][va[0]] = pte_invalid
      \/ is_pte_table(n[r][va[0]]) /\ (n[t] = Blank \/ t \in L)
  BY <1>1
<1>c. /\ s.table \notin L
      /\ is_pte_table(n[r][va[0]]) => t \notin L
  BY DEF Clean, Turn1, Turn0, Slot, Link, At
<1>7. \A x \in Tables, i \in Index : is_pte_table(m[x][i]) => m[x][i].ppn \in PageTables
  BY DEF Sound, EntriesLead
<1> HIDE DEF s
<1>8. Lookup(m, r, va) = s /\ At(m, s) = At(n, s) /\ Turn1(m, r, va) = Turn1(n, r, va)
  <2>1. CASE s = Slot(r, va[0], 0) /\ ~ is_pte_table(n[r][va[0]])
    <3>1. At(m, s) = m[r][va[0]] /\ At(n, s) = n[r][va[0]]
      BY <2>1 DEF At, Slot
    <3>2. n[r][va[0]] = m[r][va[0]]
      BY <1>2, <1>3, <1>6, <2>1, <3>1
    <3>3. Lookup(m, r, va) = Slot(r, va[0], 0) /\ Turn1(m, r, va) = Turn1(n, r, va)
      BY <2>1, <3>2 DEF Lookup, Turn1, Turn0, Slot, Link, At
    <3> QED
      BY <2>1, <3>1, <3>2, <3>3
  <2>2. CASE /\ is_pte_table(n[r][va[0]]) /\ s = Slot(t, va[1], 1)
             /\ ~ is_pte_table(n[t][va[1]])
    <3>1. At(m, s) = m[t][va[1]] /\ At(n, s) = n[t][va[1]]
      BY <2>2 DEF At, Slot
    <3>2. n[t] # Blank
      BY ONLY <1>1, <1>2, <1>3, <1>4, <3>1
    <3>3. n[r][va[0]] = m[r][va[0]]
      BY <1>3, <1>6, <1>c, <2>2, <3>2
    <3>4. t \in PageTables
      BY <1>1, <1>7, <2>2, <3>3
    <3>5. n[t][va[1]] = m[t][va[1]]
      BY <1>1, <1>2, <1>3, <2>2, <3>1, <3>4
    <3>6. Lookup(m, r, va) = Slot(t, va[1], 1) /\ Turn1(m, r, va) = Turn1(n, r, va)
      BY <2>2, <3>3, <3>5 DEF Lookup, Turn1, Turn0, Slot, Link, At
    <3> QED
      BY <2>2, <3>1, <3>5, <3>6
  <2>3. CASE /\ is_pte_table(n[r][va[0]]) /\ is_pte_table(n[t][va[1]])
             /\ s = Slot(u, va[2], 2)
    <3>1. At(m, s) = m[u][va[2]] /\ At(n, s) = n[u][va[2]]
      BY <2>3 DEF At, Slot
    <3>2. n[t] # Blank /\ n[u] # Blank
      <4>1. ~ is_pte_table(Blank[va[1]]) /\ ~ Blank[va[2]].v
        BY <1>1, <1>3, <1>4
      <4>2. n[u][va[2]].v
        BY <1>2, <3>1
      <4> HIDE DEF t, u
      <4> QED
        BY <2>3, <4>1, <4>2
    <3>3. n[r][va[0]] = m[r][va[0]]
      BY <1>3, <1>6, <1>c, <2>3, <3>2
    <3>4. t \in PageTables
      BY <1>1, <1>7, <2>3, <3>3
    <3>5. n[t][va[1]] = m[t][va[1]]
      <4>1. \/ n[t][va[1]] = m[t][va[1]]
            \/ n[t][va[1]] = pte_invalid
            \/ is_pte_table(n[t][va[1]]) /\ (n[u] = Blank \/ u \in L)
        BY <1>1, <3>4
      <4>2. u \notin L
        BY <1>c, <2>3 DEF Slot
      <4> QED
        BY <1>3, <2>3, <3>2, <4>1, <4>2
    <3>6. u \in PageTables
      <4>1. is_pte_table(m[t][va[1]]) => m[t][va[1]].ppn \in PageTables
        BY <1>1, <1>7, <3>4
      <4> QED
        BY <2>3, <3>5, <4>1
    <3>7. n[u][va[2]] = m[u][va[2]]
      <4>1. ~ is_pte_table(n[u][va[2]])
        BY <1>2, <3>1 DEF is_pte_table
      <4>2. \/ n[u][va[2]] = m[u][va[2]]
            \/ n[u][va[2]] = pte_invalid
            \/ is_pte_table(n[u][va[2]])
        BY <1>1, <3>6
      <4> QED
        BY ONLY <1>2, <1>3, <3>1, <4>1, <4>2
    <3>8. Lookup(m, r, va) = Slot(u, va[2], 2) /\ Turn1(m, r, va) = Turn1(n, r, va)
      BY <2>3, <3>3, <3>5 DEF Lookup, Turn1, Turn0, Slot, Link, At
    <3> QED
      BY <2>3, <3>1, <3>7, <3>8
  <2> QED
    BY <1>5, <2>1, <2>2, <2>3
<1> QED
  BY <1>8 DEF Reached, Clean, s

\* The memory after a write of one entry.
Put(m, s, e) == [m EXCEPT ![s.table][s.index] = e]

LEMMA PutIs ==
  ASSUME NEW m \in Memory, NEW s, IsSlot(s), NEW e \in PTE
  PROVE  /\ Put(m, s, e) \in Memory
         /\ \A t \in Tables, i \in Index :
              Put(m, s, e)[t][i] = IF t = s.table /\ i = s.index THEN e ELSE m[t][i]
<1>1. s.table \in Tables /\ s.index \in Index
  BY DEF IsSlot, Tables
<1> QED
  BY <1>1 DEF Put, Memory

\* What is written: nothing, a frame, or a table.
MayPut(e) ==
  \/ e = pte_invalid
  \/ e.v /\ e.rwx /\ e.ppn \in Frames
  \/ is_pte_table(e) /\ e.ppn \in PageTables

LEMMA PutSound ==
  ASSUME NEW m, Sound(m), NEW s, IsSlot(s), NEW e \in PTE, MayPut(e)
  PROVE  Sound(Put(m, s, e))
<1> DEFINE n == Put(m, s, e)
<1>1. m \in Memory
  BY DEF Sound
<1>2. n \in Memory /\ \A t \in Tables, i \in Index :
        n[t][i] = IF t = s.table /\ i = s.index THEN e ELSE m[t][i]
  BY <1>1, PutIs
<1> HIDE DEF n
<1>3. EntriesLead(n)
  <2> SUFFICES ASSUME NEW t \in Tables, NEW i \in Index
               PROVE  LET x == n[t][i]
                      IN  /\ ~ x.v => x = pte_invalid
                          /\ is_pte_table(x) => x.ppn \in PageTables
                          /\ x.v /\ x.rwx =>
                               \/ x.ppn \in Frames
                               \/ x.ppn = KernelPage /\ t \notin PageTables /\ i >= KernelIndex
    BY DEF EntriesLead
  <2>1. CASE t = s.table /\ i = s.index
    <3>1. n[t][i] = e
      BY <1>2, <2>1
    <3> QED
      BY <3>1 DEF MayPut, pte_invalid, is_pte_table
  <2>2. CASE ~ (t = s.table /\ i = s.index)
    <3>1. n[t][i] = m[t][i]
      BY <1>2, <2>2
    <3> QED
      BY <3>1 DEF Sound, EntriesLead
  <2> QED
    BY <2>1, <2>2
<1>5. KernelRow(n)
  <2>1. KernelRoot \in Tables /\ s.table # KernelRoot
    BY RiscvPageTableAssumption DEF IsSlot, Tables
  <2>2. \A i \in Index : n[KernelRoot][i] = m[KernelRoot][i]
    BY <1>2, <2>1
  <2> QED
    BY <2>2 DEF Sound, KernelRow
<1> QED
  BY <1>2, <1>3, <1>5 DEF Sound, n

\* The memory after copyGlobalMappings.
Copy(m, root) ==
  [m EXCEPT ![root] = [i \in Index |->
     IF i \in CopiedFrom .. IndexSize - 1 THEN m[KernelRoot][i] ELSE pte_invalid]]

\* Rows of other tables stay, and none of the new entries leads to a table.
LEMMA RowSound ==
  ASSUME NEW m, Sound(m), NEW root \in Tables \ {KernelRoot}, NEW n \in Memory,
         \A t \in Tables, i \in Index :
           \/ n[t][i] = m[t][i]
           \/ n[t][i] = pte_invalid /\ t = root
           \/ t = root /\ root \notin PageTables /\ i >= KernelIndex /\ n[t][i] = m[KernelRoot][i]
  PROVE  Sound(n)
<1>1. KernelRoot \in Tables
  BY DEF Tables
<1>2. ~ is_pte_table(pte_invalid) /\ ~ pte_invalid.v
  BY DEF is_pte_table, pte_invalid
<1>3. \A i \in Index : i >= KernelIndex =>
        /\ ~ is_pte_table(m[KernelRoot][i]) /\ m[KernelRoot][i].v
        /\ m[KernelRoot][i].ppn = KernelPage
  BY DEF Sound, KernelRow, is_pte_table
<1>5. EntriesLead(n)
  <2> SUFFICES ASSUME NEW t \in Tables, NEW i \in Index
               PROVE  LET x == n[t][i]
                      IN  /\ ~ x.v => x = pte_invalid
                          /\ is_pte_table(x) => x.ppn \in PageTables
                          /\ x.v /\ x.rwx =>
                               \/ x.ppn \in Frames
                               \/ x.ppn = KernelPage /\ t \notin PageTables /\ i >= KernelIndex
    BY DEF EntriesLead
  <2>1. CASE n[t][i] = m[t][i]
    BY <2>1 DEF Sound, EntriesLead
  <2>2. CASE n[t][i] = pte_invalid
    BY <1>2, <2>2
  <2>3. CASE t = root /\ root \notin PageTables /\ i >= KernelIndex /\ n[t][i] = m[KernelRoot][i]
    BY <1>3, <2>3
  <2> QED
    BY <2>1, <2>2, <2>3
<1>6. KernelRow(n)
  BY <1>1 DEF Sound, KernelRow
<1> QED
  BY <1>5, <1>6 DEF Sound

\* Below the kernel's entries, what is copied is clear like the rest.
LEMMA CopyIs ==
  ASSUME NEW m, Sound(m), NEW root \in Roots
  PROVE  /\ Copy(m, root) \in Memory
         /\ \A t \in Tables, i \in Index :
              Copy(m, root)[t][i] =
                IF t = root THEN (IF i >= KernelIndex THEN m[KernelRoot][i] ELSE pte_invalid)
                ELSE m[t][i]
<1>1. m \in [Tables -> [Index -> PTE]] /\ root \in Tables /\ KernelRoot \in Tables
  BY DEF Sound, Memory, Tables
<1>2. pte_invalid \in PTE
  BY DEF pte_invalid, PTE, Pages
<1> DEFINE row == [i \in Index |->
                    IF i \in CopiedFrom .. IndexSize - 1 THEN m[KernelRoot][i] ELSE pte_invalid]
<1>3. row \in [Index -> PTE]
  BY <1>1, <1>2
<1>4. ASSUME NEW i \in Index
      PROVE  row[i] = IF i >= KernelIndex THEN m[KernelRoot][i] ELSE pte_invalid
  <2>1. /\ i \in Int /\ IndexSize \in Int /\ CopiedFrom \in Int /\ KernelIndex \in Int
        /\ i <= IndexSize - 1 /\ CopiedFrom <= KernelIndex
    BY RiscvPageTableAssumption DEF Index
  <2>2. ~ i >= KernelIndex => m[KernelRoot][i] = pte_invalid
    BY DEF Sound, KernelRow
  <2>3. i >= KernelIndex => i \in CopiedFrom .. IndexSize - 1
    BY <2>1
  <2>4. row[i] = IF i \in CopiedFrom .. IndexSize - 1 THEN m[KernelRoot][i] ELSE pte_invalid
    OBVIOUS
  <2> HIDE DEF row
  <2> QED
    BY <2>2, <2>3, <2>4
<1>5. Copy(m, root) = [m EXCEPT ![root] = row]
  BY DEF Copy
<1> HIDE DEF row
<1> QED
  BY <1>1, <1>3, <1>4, <1>5 DEF Memory

LEMMA CopySound ==
  ASSUME NEW m, Sound(m), NEW root \in Roots
  PROVE  Sound(Copy(m, root))
<1>1. root \in Tables \ {KernelRoot} /\ root \notin PageTables
  BY RiscvPageTableAssumption DEF Tables
<1> QED
  BY <1>1, CopyIs, RowSound

LEMMA BlankSound ==
  ASSUME NEW m, Sound(m), NEW table \in PageTables
  PROVE  /\ Sound([m EXCEPT ![table] = Blank])
         /\ \A t \in Tables, i \in Index :
              [m EXCEPT ![table] = Blank][t][i] = IF t = table THEN pte_invalid ELSE m[t][i]
<1> DEFINE n == [m EXCEPT ![table] = Blank]
<1>1. m \in [Tables -> [Index -> PTE]] /\ table \in Tables \ {KernelRoot}
  BY RiscvPageTableAssumption DEF Sound, Memory, Tables
<1>2. Blank \in [Index -> PTE] /\ \A i \in Index : Blank[i] = pte_invalid
  BY DEF Blank, pte_invalid, PTE, Pages
<1>3. n \in Memory /\ \A t \in Tables, i \in Index :
        n[t][i] = IF t = table THEN pte_invalid ELSE m[t][i]
  BY <1>1, <1>2 DEF Memory
<1> HIDE DEF n
<1>4. Sound(n)
  BY <1>1, <1>3, RowSound
<1> QED
  BY <1>3, <1>4 DEF n

------------------------------------------------------------------------------
(* What is left of the trees.                                              *)

\* A walk comes to a table through an entry that leads to it.
LEMMA WalkedAreLed ==
  ASSUME NEW m, Sound(m), NEW V, PageTables \subseteq V,
         NEW r \in Roots \cap V, NEW va \in UserVAddr,
         NEW t \in {Turn1(m, r, va).table, Lookup(m, r, va).table}
  PROVE  t = r \/ \E u \in V, i \in Index : is_pte_table(m[u][i]) /\ m[u][i].ppn = t
<1> DEFINE x == m[r][va[0]].ppn
           y == m[x][va[1]].ppn
<1>1. va[0] \in Index /\ va[1] \in Index
  BY Addresses
<1>2. \/ Lookup(m, r, va) = Slot(r, va[0], 0) /\ ~ is_pte_table(m[r][va[0]])
      \/ /\ is_pte_table(m[r][va[0]]) /\ x \in PageTables
         /\ Lookup(m, r, va) = Slot(x, va[1], 1)
      \/ /\ is_pte_table(m[r][va[0]]) /\ x \in PageTables
         /\ is_pte_table(m[x][va[1]]) /\ y \in PageTables
         /\ Lookup(m, r, va) = Slot(y, va[2], 2)
  BY LookupCases DEF Link, At, Slot
<1>3. Turn1(m, r, va).table = IF is_pte_table(m[r][va[0]]) THEN x ELSE r
  BY DEF Turn1, Turn0, Slot, Link, At
<1>4. \A w, i, n : Slot(w, i, n).table = w
  BY DEF Slot
<1>5. \/ t = r
      \/ is_pte_table(m[r][va[0]]) /\ t = x
      \/ x \in PageTables /\ is_pte_table(m[x][va[1]]) /\ t = y
  <2> HIDE DEF x, y
  <2> QED
    BY <1>2, <1>3, <1>4
<1> QED
  BY <1>1, <1>5

\* So a table that is walked is mapped, or was left behind.
LEMMA WalkedAreMapped ==
  ASSUME NEW m, Sound(m), NEW V, NEW L, NEW cap, Trees(m, V, L, cap), PageTables \subseteq V,
         NEW r \in Roots \cap V, NEW va \in UserVAddr
  PROVE  LET t == Lookup(m, r, va).table
         IN  t \in PageTables => cap[t] # NoCap \/ t \in L
<1> DEFINE t == Lookup(m, r, va).table
<1>1. r \notin PageTables
  BY RiscvPageTableAssumption
<1>2. t = r \/ \E u \in V, i \in Index : is_pte_table(m[u][i]) /\ m[u][i].ppn = t
  BY WalkedAreLed
<1> HIDE DEF t
<1>3. t \in PageTables => cap[t] # NoCap \/ t \in L
  BY <1>1, <1>2 DEF Trees, LedAreMapped
<1> QED
  BY <1>3 DEF t

\* The trees stay as long as no entry comes to lead anywhere.
LEMMA FewerTrees ==
  ASSUME NEW m, NEW V, NEW L, NEW cap, Trees(m, V, L, cap),
         NEW n, NEW W, NEW K, NEW top, L \subseteq K,
         \A t \in W, i \in Index : is_pte_table(n[t][i]) => t \in V /\ n[t][i] = m[t][i],
         \A t \in PageTables : t \in K \/ (top[t] = cap[t] /\ (m[t] = Blank => n[t] = Blank)),
         \A t \in V, i \in Index : is_pte_table(m[t][i]) => m[t][i].ppn \in PageTables
  PROVE  Trees(n, W, K, top)
<1>1. OneParent(n, W, K)
  BY DEF Trees, OneParent
<1>2. LedAreMapped(n, W, K, top)
  <2> SUFFICES ASSUME NEW t \in W, NEW i \in Index, is_pte_table(n[t][i]), n[t][i].ppn \notin K
               PROVE  top[n[t][i].ppn] # NoCap
    BY DEF LedAreMapped
  <2>1. t \in V /\ n[t][i] = m[t][i] /\ m[t][i].ppn \in PageTables
    OBVIOUS
  <2>2. cap[m[t][i].ppn] # NoCap
    BY <2>1 DEF Trees, LedAreMapped
  <2> QED
    BY <2>1, <2>2
<1>3. UnmappedAreClear(n, K, top)
  BY DEF Trees, UnmappedAreClear
<1> QED
  BY <1>1, <1>2, <1>3 DEF Trees

\* An entry that comes to map a frame, or none, leads nowhere.
LEMMA LeafTrees ==
  ASSUME NEW m, Sound(m), NEW V, NEW L, NEW cap, Trees(m, V, L, cap), V \subseteq Tables,
         NEW s, IsSlot(s), s.table \in PageTables => cap[s.table] # NoCap \/ s.table \in L,
         NEW e \in PTE, ~ is_pte_table(e)
  PROVE  Trees(Put(m, s, e), V, L, cap)
<1> DEFINE n == Put(m, s, e)
<1>1. m \in Memory /\ PageTables \subseteq Tables
  BY DEF Sound, Tables
<1>2. n \in Memory /\ \A t \in Tables, i \in Index :
        n[t][i] = IF t = s.table /\ i = s.index THEN e ELSE m[t][i]
  BY <1>1, PutIs
<1> HIDE DEF n
<1>3. \A t \in V, i \in Index : is_pte_table(n[t][i]) => n[t][i] = m[t][i]
  BY <1>2
<1>4. OneParent(n, V, L)
  BY <1>3 DEF Trees, OneParent
<1>5. LedAreMapped(n, V, L, cap)
  BY <1>3 DEF Trees, LedAreMapped
<1>6. UnmappedAreClear(n, L, cap)
  <2> SUFFICES ASSUME NEW t \in PageTables, cap[t] = NoCap, t \notin L
               PROVE  n[t] = Blank
    BY DEF UnmappedAreClear
  <2>1. m[t] = Blank /\ t # s.table
    BY DEF Trees, UnmappedAreClear
  <2>2. n[t] \in [Index -> PTE] /\ m[t] \in [Index -> PTE]
    BY <1>1, <1>2 DEF Memory
  <2>3. \A i \in Index : n[t][i] = m[t][i]
    BY <1>1, <1>2, <2>1
  <2>4. n[t] = m[t]
    BY <2>2, <2>3
  <2> QED
    BY <2>1, <2>4
<1> QED
  BY <1>4, <1>5, <1>6 DEF Trees, n

\* An entry that comes to lead to a table that was not mapped is the only one, unless
\* the table was left behind.
LEMMA LinkTrees ==
  ASSUME NEW m, Sound(m), NEW V, NEW L, NEW cap, Trees(m, V, L, cap), V \subseteq Tables,
         NEW s, IsSlot(s), s.table \in PageTables => cap[s.table] # NoCap \/ s.table \in L,
         NEW table \in PageTables, cap[table] = NoCap,
         NEW top, top[table] # NoCap, \A t \in PageTables \ {table} : top[t] = cap[t]
  PROVE  Trees(Put(m, s, pte_next_table(table)), V, L, top)
<1> DEFINE e == pte_next_table(table)
           n == Put(m, s, e)
<1>1. m \in Memory /\ PageTables \subseteq Tables
  BY DEF Sound, Tables
<1>2. e \in PTE /\ e.ppn = table
  BY DEF pte_next_table, PTE, Pages, Tables
<1>3. n \in Memory /\ \A t \in Tables, i \in Index :
        n[t][i] = IF t = s.table /\ i = s.index THEN e ELSE m[t][i]
  BY <1>1, <1>2, PutIs
<1>4. \A t \in V, i \in Index : is_pte_table(m[t][i]) => m[t][i].ppn \in PageTables
  BY DEF Sound, EntriesLead
<1> HIDE DEF e, n
<1>5. \A t \in V, i \in Index : is_pte_table(m[t][i]) => m[t][i].ppn # table \/ table \in L
  BY DEF Trees, LedAreMapped
<1>6. \A t \in V, i \in Index : n[t][i] = m[t][i] \/ (t = s.table /\ i = s.index /\ n[t][i] = e)
  BY <1>3
<1>7. OneParent(n, V, L)
  <2> SUFFICES ASSUME NEW t \in V, NEW i \in Index, NEW u \in V, NEW j \in Index,
                      is_pte_table(n[t][i]), is_pte_table(n[u][j]), n[t][i].ppn = n[u][j].ppn,
                      n[t][i].ppn \notin L
               PROVE  t = u /\ i = j
    BY DEF OneParent
  <2>1. CASE n[t][i] = m[t][i] /\ n[u][j] = m[u][j]
    BY <2>1 DEF Trees, OneParent
  <2>2. CASE t = s.table /\ i = s.index /\ n[t][i] = e /\ n[u][j] = m[u][j]
    BY <1>2, <1>5, <2>2
  <2>3. CASE u = s.table /\ j = s.index /\ n[u][j] = e /\ n[t][i] = m[t][i]
    BY <1>2, <1>5, <2>3
  <2> QED
    BY <1>6, <2>1, <2>2, <2>3
<1>8. LedAreMapped(n, V, L, top)
  <2> SUFFICES ASSUME NEW t \in V, NEW i \in Index, is_pte_table(n[t][i]), n[t][i].ppn \notin L
               PROVE  top[n[t][i].ppn] # NoCap
    BY DEF LedAreMapped
  <2>1. CASE n[t][i] = e
    BY <1>2, <2>1
  <2>2. CASE n[t][i] = m[t][i]
    BY <1>4, <2>2 DEF Trees, LedAreMapped
  <2> QED
    BY <1>6, <2>1, <2>2
<1>9. UnmappedAreClear(n, L, top)
  <2> SUFFICES ASSUME NEW t \in PageTables, top[t] = NoCap, t \notin L
               PROVE  n[t] = Blank
    BY DEF UnmappedAreClear
  <2>1. cap[t] = NoCap
    OBVIOUS
  <2>2. m[t] = Blank /\ t # s.table
    BY <2>1 DEF Trees, UnmappedAreClear
  <2>3. n[t] \in [Index -> PTE] /\ m[t] \in [Index -> PTE]
    BY <1>1, <1>3 DEF Memory
  <2>4. \A i \in Index : n[t][i] = m[t][i]
    BY <1>1, <1>3, <2>2
  <2>5. n[t] = m[t]
    BY <2>3, <2>4
  <2> QED
    BY <2>2, <2>5
<1> QED
  BY <1>7, <1>8, <1>9 DEF Trees, n, e

------------------------------------------------------------------------------
(* The inductive invariant.                                                *)

LiveTables == {t \in Tables : Live(t)}

\* The root of an address space, in the boot code too.
Space(a) == IF itRoot # NoRoot /\ a = ItAsid THEN itRoot ELSE vspaceOf[a]

\* The boot code ends before the first invocation, and binds one space.
BootFirst ==
  /\ booted => itRoot = NoRoot
  /\ ~ booted => \A a \in Asids : vspaceOf[a] = NoRoot

SpacesDiffer ==
  \A a \in Asids, b \in Asids : vspaceOf[a] = vspaceOf[b] /\ vspaceOf[a] # NoRoot => a = b

\* The kernel's half of the root of a.
Half(m, r) == \A i \in Index : i >= KernelIndex => m[r][i] = m[KernelRoot][i]
SpacesHaveKernel == \A a \in Asids, r \in Roots : Space(a) = r => Half(mem, r)

\* What is reached in a space, past no table that was left behind, is mapped there
\* by its capability.
Says(cap, a, va, tr) ==
  cap[tr.frame] = [asid |-> a, va |-> AlignDown(va, tr.level), level |-> tr.level]
SpacesShowCaps ==
  \A a \in Asids, r \in Roots, va \in UserVAddr :
    Space(a) = r /\ Reached(mem, r, va) # NoCap /\ Clean(mem, leftBehind, r, va)
      => Says(frameCap, a, va, Reached(mem, r, va))

IInv ==
  /\ TypeOK
  /\ Sound(mem)
  /\ Trees(mem, LiveTables, leftBehind, ptCap)
  /\ BootFirst
  /\ SpacesDiffer
  /\ SpacesHaveKernel
  /\ SpacesShowCaps

LEMMA Initial == Init => IInv
<1> SUFFICES ASSUME Init PROVE IInv
  OBVIOUS
<1>1. KernelRoot \in Tables /\ Index \subseteq Int /\ PageZero \in Pages /\ KernelPage \in Pages
  BY RiscvPageTableAssumption DEF Tables, Pages, Index
<1>2. /\ mem \in Memory
      /\ \A t \in Tables, i \in Index :
           mem[t][i] = IF t = KernelRoot /\ i >= KernelIndex
                       THEN [v |-> TRUE, rwx |-> TRUE, ppn |-> KernelPage]
                       ELSE pte_invalid
  <2>1. pte_invalid \in PTE /\ [v |-> TRUE, rwx |-> TRUE, ppn |-> KernelPage] \in PTE
    BY <1>1 DEF pte_invalid, PTE
  <2>2. Blank \in [Index -> PTE] /\ \A i \in Index : Blank[i] = pte_invalid
    BY <2>1 DEF Blank
  <2> HIDE DEF PTE
  <2>3. [i \in Index |-> IF i >= KernelIndex
                         THEN [v |-> TRUE, rwx |-> TRUE, ppn |-> KernelPage]
                         ELSE pte_invalid] \in [Index -> PTE]
    BY <2>1
  <2>4. mem \in Memory
    BY <2>2, <2>3 DEF Init, Memory
  <2>5. \A t \in Tables, i \in Index :
          mem[t][i] = IF t = KernelRoot /\ i >= KernelIndex
                      THEN [v |-> TRUE, rwx |-> TRUE, ppn |-> KernelPage]
                      ELSE pte_invalid
    BY <2>2 DEF Init
  <2> QED
    BY <2>4, <2>5
<1>3. Sound(mem)
  <2>1. ~ is_pte_table(pte_invalid) /\ ~ pte_invalid.v
    BY DEF is_pte_table, pte_invalid
  <2>2. \A t \in Tables, i \in Index : ~ is_pte_table(mem[t][i])
    BY <1>2, <2>1 DEF is_pte_table
  <2>3. KernelRoot \notin PageTables
    BY RiscvPageTableAssumption
  <2>4. EntriesLead(mem)
    BY <1>2, <2>1, <2>2, <2>3 DEF EntriesLead
  <2> QED
    BY <1>1, <1>2, <2>4 DEF Sound, KernelRow
<1>t. Trees(mem, LiveTables, leftBehind, ptCap)
  <2>1. \A t \in Tables, i \in Index : ~ is_pte_table(mem[t][i])
    BY <1>2 DEF is_pte_table, pte_invalid
  <2>2. \A t \in PageTables : mem[t] = Blank
    BY RiscvPageTableAssumption DEF Init, Tables
  <2> QED
    BY <2>1, <2>2 DEF Trees, OneParent, LedAreMapped, UnmappedAreClear, LiveTables
<1>4. \A a \in Asids : Space(a) = NoRoot /\ vspaceOf[a] = NoRoot
  BY DEF Init, Space
<1>5. TypeOK
  BY <1>2 DEF TypeOK, Init, Memory
<1> QED
  BY <1>3, <1>t, <1>4, <1>5, RiscvPageTableAssumption
  DEF IInv, BootFirst, SpacesDiffer, SpacesHaveKernel, SpacesShowCaps, Init

LEMMA LiveIs ==
  ASSUME TypeOK
  PROVE  /\ LiveTables \subseteq Tables /\ PageTables \subseteq LiveTables
         /\ \A r \in Roots : r \in LiveTables <=> r = itRoot \/ \E a \in Asids : vspaceOf[a] = r
         /\ \A a \in Asids, r \in Roots : Space(a) = r => r \in LiveTables
BY RiscvPageTableAssumption DEF LiveTables, Live, Tables, Space

LEMMA LiveIsNext ==
  ASSUME TypeOK'
  PROVE  /\ LiveTables' \subseteq Tables /\ PageTables \subseteq LiveTables'
         /\ \A r \in Roots : r \in LiveTables' <=> r = itRoot' \/ \E a \in Asids : vspaceOf'[a] = r
         /\ \A a \in Asids, r \in Roots : Space(a)' = r => r \in LiveTables'
BY RiscvPageTableAssumption DEF LiveTables, Live, Tables, Space

\* What is forgotten of what was left behind is clear, and on no walk.
LEMMA Remembered ==
  ASSUME NEW tables, NEW K, K = leftBehind \cup tables, K \subseteq PageTables,
         LeftBehind(tables), TypeOK', Sound(mem'), Trees(mem', LiveTables', K, ptCap')
  PROVE  /\ Trees(mem', LiveTables', leftBehind', ptCap')
         /\ leftBehind' \subseteq K
         /\ \A r \in Roots \cap LiveTables', va \in UserVAddr :
              Clean(mem', leftBehind', r, va) => Clean(mem', K, r, va)
<1> DEFINE Led(t) == \E u \in LiveTables', i \in Index :
                       is_pte_table(mem'[u][i]) /\ mem'[u][i].ppn = t
<1>1. \A t : LedTo(t)' <=> Led(t)
  <2> SUFFICES ASSUME NEW t PROVE LedTo(t)' <=> Led(t)
    OBVIOUS
  <2>1. ASSUME LedTo(t)' PROVE Led(t)
    BY <2>1 DEF LedTo, Links, LiveTables, PteAt, Live, is_pte_table
  <2>2. ASSUME NEW u \in LiveTables', NEW i \in Index, is_pte_table(mem'[u][i]), mem'[u][i].ppn = t
        PROVE  LedTo(t)'
    <3> DEFINE w == [table |-> u, index |-> i]
    <3>1. w \in Links' /\ PteAt(w)'.ppn = t
      BY <2>2 DEF Links, LiveTables, PteAt, Live, is_pte_table
    <3> QED
      BY <3>1 DEF LedTo
  <2> QED
    BY <2>1, <2>2
<1>2. leftBehind' = {t \in K : Led(t) \/ mem'[t] # Blank}
  BY <1>1 DEF LeftBehind
<1>3. OneParent(mem', LiveTables', leftBehind')
  BY <1>2 DEF Trees, OneParent
<1>4. LedAreMapped(mem', LiveTables', leftBehind', ptCap')
  BY <1>2 DEF Trees, LedAreMapped
<1>5. UnmappedAreClear(mem', leftBehind', ptCap')
  BY <1>2 DEF Trees, UnmappedAreClear
<1>6. ASSUME NEW r \in Roots \cap LiveTables', NEW va \in UserVAddr,
             Clean(mem', leftBehind', r, va)
      PROVE  Clean(mem', K, r, va)
  <2>1. r \notin K /\ PageTables \subseteq LiveTables'
    BY RiscvPageTableAssumption, LiveIsNext
  <2>2. ASSUME NEW t \in {Turn1(mem', r, va).table, Lookup(mem', r, va).table}, t \notin leftBehind'
        PROVE  t \notin K
    <3>1. t = r \/ Led(t)
      BY <2>1, <2>2, WalkedAreLed
    <3> QED
      BY <1>2, <2>1, <2>2, <3>1
  <2> QED
    BY <1>6, <2>2 DEF Clean
<1> QED
  BY <1>2, <1>3, <1>4, <1>5, <1>6 DEF Trees

\* The entry of a slot that an operation writes, in the terms of this module.
LEMMA WrittenIs ==
  ASSUME NEW s, NEW e
  PROVE  Written(s, e) = Put(mem, s, e)
BY DEF Written, Put

\* A write below a root keeps the kernel's half of every root.
LEMMA PutHalf ==
  ASSUME NEW m, Sound(m), NEW s, IsSlot(s), NEW e \in PTE, NEW r \in Roots, Half(m, r)
  PROVE  Half(Put(m, s, e), r)
<1>1. m \in Memory /\ r \in Tables /\ KernelRoot \in Tables /\ s.table # KernelRoot
  BY RiscvPageTableAssumption DEF Sound, Tables, IsSlot
<1>2. Index \subseteq Int /\ KernelIndex \in Int
  BY RiscvPageTableAssumption DEF Index
<1>3. \A i \in Index : i >= KernelIndex => ~ (r = s.table /\ i = s.index)
  BY <1>2 DEF IsSlot
<1> QED
  BY <1>1, <1>3, PutIs DEF Half

LEMMA CopyHalf ==
  ASSUME NEW m, Sound(m), NEW root \in Roots, NEW r \in Roots, r = root \/ Half(m, r)
  PROVE  Half(Copy(m, root), r)
<1>1. r \in Tables /\ KernelRoot \in Tables /\ root # KernelRoot
  BY RiscvPageTableAssumption DEF Tables
<1> QED
  BY <1>1, CopyIs DEF Half

\* In a root that was copied nothing is reached; in the others nothing changes.
LEMMA CopyShows ==
  ASSUME NEW m, Sound(m), NEW L, NEW root \in Roots, NEW r \in Roots, NEW va \in UserVAddr
  PROVE  /\ Reached(Copy(m, root), root, va) = NoCap
         /\ r # root => /\ Reached(m, r, va) # NoCap
                             => Reached(Copy(m, root), r, va) = Reached(m, r, va)
                        /\ Reached(Copy(m, root), r, va) # NoCap /\ Clean(Copy(m, root), L, r, va)
                             => /\ Reached(m, r, va) = Reached(Copy(m, root), r, va)
                                /\ Clean(m, L, r, va)
<1> DEFINE n == Copy(m, root)
<1>1. \A t \in Tables, i \in Index :
        n[t][i] = IF t = root THEN (IF i >= KernelIndex THEN m[KernelRoot][i] ELSE pte_invalid)
                  ELSE m[t][i]
  BY CopyIs
<1>2. /\ Roots \subseteq Tables /\ PageTables \subseteq Tables /\ root \notin PageTables
      /\ Index \subseteq Int /\ KernelIndex \in Int
  BY RiscvPageTableAssumption DEF Tables, Index
<1> HIDE DEF n
<1>3. Reached(n, root, va) = NoCap
  <2>1. va[0] \in Index /\ va[0] < KernelIndex
    BY Addresses
  <2>2. n[root][va[0]] = pte_invalid
    <3>1. va[0] \in Int /\ KernelIndex \in Int /\ va[0] < KernelIndex
      BY <1>2, <2>1
    <3>2. ~ va[0] >= KernelIndex
      BY <3>1
    <3> QED
      BY <1>1, <1>2, <2>1, <3>2
  <2>3. ~ pte_invalid.v /\ ~ is_pte_table(pte_invalid)
    BY DEF pte_invalid, is_pte_table
  <2>4. Lookup(n, root, va) = Slot(root, va[0], 0)
    BY <2>2, <2>3 DEF Lookup, Turn1, Turn0, Slot, Link, At
  <2>5. At(n, Lookup(n, root, va)) = pte_invalid
    BY <2>2, <2>4 DEF At, Slot
  <2> QED
    BY <2>3, <2>5 DEF Reached
<1>4. ASSUME r # root, Reached(m, r, va) # NoCap
      PROVE  Reached(n, r, va) = Reached(m, r, va)
  <2>1. \A t \in PageTables \cup {r}, i \in Index : n[t][i] = m[t][i]
    BY <1>1, <1>2, <1>4
  <2> QED
    BY <1>4, <2>1, Kept
<1>5. ASSUME r # root, Reached(n, r, va) # NoCap, Clean(n, L, r, va)
      PROVE  Reached(m, r, va) = Reached(n, r, va) /\ Clean(m, L, r, va)
  <2>1. \A t \in Roots \cup PageTables, i \in Index :
          (t \in Roots => i < KernelIndex) => n[t][i] = m[t][i] \/ n[t][i] = pte_invalid
    <3> SUFFICES ASSUME NEW t \in Roots \cup PageTables, NEW i \in Index,
                        t \in Roots => i < KernelIndex
                 PROVE  n[t][i] = m[t][i] \/ n[t][i] = pte_invalid
      OBVIOUS
    <3>1. CASE t = root
      <4>1. ~ i >= KernelIndex
        BY <1>2, <3>1
      <4> QED
        BY <1>1, <1>2, <3>1, <4>1
    <3>2. CASE t # root
      BY <1>1, <1>2, <3>2
    <3> QED
      BY <3>1, <3>2
  <2> QED
    BY <1>5, <2>1, NothingNew
<1>6. /\ Reached(n, root, va) = NoCap
      /\ r # root /\ Reached(m, r, va) # NoCap => Reached(n, r, va) = Reached(m, r, va)
      /\ r # root /\ Reached(n, r, va) # NoCap /\ Clean(n, L, r, va)
           => Reached(m, r, va) = Reached(n, r, va) /\ Clean(m, L, r, va)
  BY ONLY <1>3, <1>4, <1>5
<1> QED
  BY ONLY <1>6 DEF n

\* The same for a table that is mapped ...
LEMMA LinkShows ==
  ASSUME NEW m, Sound(m), NEW s, IsSlot(s), ~ At(m, s).v,
         NEW table \in PageTables, NEW L, table \in L \/ (m[table] = Blank /\ s.table # table),
         NEW r \in Roots, NEW va \in UserVAddr
  PROVE  LET n == Put(m, s, pte_next_table(table))
         IN  /\ Reached(m, r, va) # NoCap => Reached(n, r, va) = Reached(m, r, va)
             /\ Reached(n, r, va) # NoCap /\ Clean(n, L, r, va)
                  => Reached(m, r, va) = Reached(n, r, va) /\ Clean(m, L, r, va)
<1> DEFINE e == pte_next_table(table)
           n == Put(m, s, e)
<1>1. e \in PTE /\ is_pte_table(e) /\ e.ppn = table
  BY DEF pte_next_table, PTE, Pages, Tables, is_pte_table
<1>2. m \in Memory /\ Roots \subseteq Tables /\ PageTables \subseteq Tables
  BY DEF Sound, Tables
<1>3. n \in Memory /\ \A t \in Tables, i \in Index :
        n[t][i] = IF t = s.table /\ i = s.index THEN e ELSE m[t][i]
  BY <1>1, <1>2, PutIs
<1> HIDE DEF e, n
<1>4. n[table] = Blank \/ table \in L
  <2> SUFFICES ASSUME table \notin L PROVE n[table] = Blank
    OBVIOUS
  <2>1. \A i \in Index : n[table][i] = m[table][i]
    BY <1>2, <1>3
  <2>2. n[table] \in [Index -> PTE] /\ m[table] \in [Index -> PTE]
    BY <1>2, <1>3 DEF Memory
  <2> QED
    BY <2>1, <2>2
<1>5. ASSUME Reached(m, r, va) # NoCap PROVE Reached(n, r, va) = Reached(m, r, va)
  <2>1. \A t \in PageTables \cup {r}, i \in Index : m[t][i].v => n[t][i] = m[t][i]
    BY <1>2, <1>3 DEF At
  <2> QED
    BY <1>5, <2>1, Kept
<1>6. ASSUME Reached(n, r, va) # NoCap, Clean(n, L, r, va)
      PROVE  Reached(m, r, va) = Reached(n, r, va) /\ Clean(m, L, r, va)
  <2>1. \A t \in Roots \cup PageTables, i \in Index :
          \/ n[t][i] = m[t][i]
          \/ is_pte_table(n[t][i]) /\ (n[n[t][i].ppn] = Blank \/ n[t][i].ppn \in L)
    <3> SUFFICES ASSUME NEW t \in Roots \cup PageTables, NEW i \in Index
                 PROVE  \/ n[t][i] = m[t][i]
                        \/ is_pte_table(n[t][i]) /\ (n[n[t][i].ppn] = Blank \/ n[t][i].ppn \in L)
      OBVIOUS
    <3>1. n[t][i] = e \/ n[t][i] = m[t][i]
      BY <1>2, <1>3
    <3>2. CASE n[t][i] = e
      <4>1. n[t][i].ppn = table /\ is_pte_table(n[t][i])
        BY <1>1, <3>2
      <4> QED
        BY <1>4, <4>1
    <3> QED
      BY <3>1, <3>2
  <2> QED
    BY <1>6, <2>1, NothingNew
<1> QED
  BY <1>5, <1>6 DEF n, e

\* ... for one that is cleared, of which nothing remains in sight ...
LEMMA BlankShows ==
  ASSUME NEW m, Sound(m), NEW table \in PageTables, NEW L,
         NEW r \in Roots, NEW va \in UserVAddr,
         Reached([m EXCEPT ![table] = Blank], r, va) # NoCap,
         Clean([m EXCEPT ![table] = Blank], L, r, va)
  PROVE  Reached(m, r, va) = Reached([m EXCEPT ![table] = Blank], r, va) /\ Clean(m, L, r, va)
<1> DEFINE n == [m EXCEPT ![table] = Blank]
<1>1. \A t \in Tables, i \in Index : n[t][i] = IF t = table THEN pte_invalid ELSE m[t][i]
  BY BlankSound
<1> HIDE DEF n
<1>2. \A t \in Roots \cup PageTables, i \in Index : n[t][i] = m[t][i] \/ n[t][i] = pte_invalid
  BY <1>1 DEF Tables
<1>3. Reached(n, r, va) # NoCap /\ Clean(n, L, r, va)
  BY DEF n
<1>4. Reached(m, r, va) = Reached(n, r, va) /\ Clean(m, L, r, va)
  BY <1>2, <1>3, NothingNew
<1> QED
  BY <1>4 DEF n

\* ... and for an entry that is no table before or after: only it changes.
LEMMA LeafShows ==
  ASSUME NEW m, Sound(m), NEW s, IsSlot(s), NEW e \in PTE,
         ~ is_pte_table(At(m, s)), ~ is_pte_table(e),
         NEW r \in Roots, NEW va \in UserVAddr
  PROVE  LET n  == Put(m, s, e)
             lu == Lookup(m, r, va)
         IN  /\ Lookup(n, r, va) = lu /\ Turn1(n, r, va) = Turn1(m, r, va)
             /\ At(n, lu) = IF lu.table = s.table /\ lu.index = s.index THEN e ELSE At(m, lu)
<1> DEFINE n == Put(m, s, e)
           lu == Lookup(m, r, va)
<1>1. m \in Memory
  BY DEF Sound
<1>2. n \in Memory /\ \A t \in Tables, i \in Index :
        n[t][i] = IF t = s.table /\ i = s.index THEN e ELSE m[t][i]
  BY <1>1, PutIs
<1>3. lu.table \in Tables /\ lu.index \in Index
  BY LookupIsSlot DEF IsSlot, Tables
<1> HIDE DEF n
<1>4. \A t \in Tables, i \in Index :
        n[t][i] = m[t][i] \/ (~ is_pte_table(n[t][i]) /\ ~ is_pte_table(m[t][i]))
  <2>1. ~ is_pte_table(m[s.table][s.index])
    BY DEF At
  <2> SUFFICES ASSUME NEW t \in Tables, NEW i \in Index
               PROVE  n[t][i] = m[t][i] \/ (~ is_pte_table(n[t][i]) /\ ~ is_pte_table(m[t][i]))
    OBVIOUS
  <2>2. CASE t = s.table /\ i = s.index
    <3>1. n[t][i] = e /\ m[t][i] = m[s.table][s.index]
      BY <1>2, <2>2
    <3> QED
      BY <2>1, <3>1
  <2>3. CASE ~ (t = s.table /\ i = s.index)
    BY <1>2, <2>3
  <2> QED
    BY <2>2, <2>3
<1>5. Lookup(n, r, va) = lu /\ Turn1(n, r, va) = Turn1(m, r, va)
  BY <1>4, SameLinks
<1> HIDE DEF lu
<1>6. At(n, lu) = IF lu.table = s.table /\ lu.index = s.index THEN e ELSE At(m, lu)
  BY <1>2, <1>3 DEF At
<1> QED
  BY <1>5, <1>6 DEF n, lu

\* What is reached is a frame.
LEMMA ReachedIsFrame ==
  ASSUME NEW m, Sound(m), NEW r \in Roots, NEW va \in UserVAddr
  PROVE  LET lu == Lookup(m, r, va)
             tr == Reached(m, r, va)
         IN  /\ tr # NoCap <=> At(m, lu).v /\ At(m, lu).rwx
             /\ tr # NoCap => /\ tr = [frame |-> At(m, lu).ppn, level |-> lu.level]
                              /\ tr.frame = At(m, lu).ppn /\ tr.level = lu.level
                              /\ tr.frame \in Frames /\ tr.level \in Levels
<1> DEFINE lu == Lookup(m, r, va)
           e  == At(m, lu)
           rec == [frame |-> e.ppn, level |-> lu.level]
<1>1. IsSlot(lu)
  BY LookupIsSlot
<1>2. m \in Memory /\ Index \subseteq Int /\ KernelIndex \in Int /\ Roots \subseteq Tables
      /\ PageTables \subseteq Tables
  BY RiscvPageTableAssumption DEF Sound, Index, Tables
<1> HIDE DEF lu
<1>3. e \in PTE /\ lu.level \in Levels
  BY <1>1, <1>2 DEF IsSlot, At, Memory
<1>4. e.v /\ e.rwx => e.ppn \in Frames
  <2>1. lu.table \in Tables /\ lu.index \in Index
    BY <1>1, <1>2 DEF IsSlot
  <2>2. e.v /\ e.rwx => \/ e.ppn \in Frames
                        \/ lu.table \notin PageTables /\ lu.index >= KernelIndex
    BY <2>1 DEF Sound, EntriesLead, At
  <2>3. lu.table \notin PageTables => ~ lu.index >= KernelIndex
    <3>1. lu.table \notin PageTables => lu.index < KernelIndex
      BY <1>1 DEF IsSlot
    <3>2. lu.index \in Int /\ KernelIndex \in Int
      BY <1>2, <2>1
    <3> QED
      BY <3>1, <3>2
  <2> QED
    BY <2>2, <2>3
<1>5. rec # NoCap
  <2>1. rec \in [frame : Pages, level : Levels]
    BY <1>3 DEF PTE
  <2> QED
    BY <2>1, RiscvPageTableAssumption
<1>6. Reached(m, r, va) = IF e.v /\ e.rwx THEN rec ELSE NoCap
  BY DEF Reached, lu
<1>7. rec.frame = e.ppn /\ rec.level = lu.level
  OBVIOUS
<1> HIDE DEF e, rec
<1>8. Reached(m, r, va) # NoCap <=> e.v /\ e.rwx
  BY <1>5, <1>6
<1>9. Reached(m, r, va) # NoCap =>
        Reached(m, r, va) = rec /\ e.ppn \in Frames
  BY <1>4, <1>6, <1>8
<1> QED
  BY <1>3, <1>7, <1>8, <1>9 DEF e, lu, rec

LEMMA AlignedDown ==
  ASSUME NEW va \in UserVAddr, NEW level \in Levels
  PROVE  AlignDown(va, level) \in UserVAddr
BY RiscvPageTableAssumption

\* An aligned address is what any address that agrees with it is aligned to.
LEMMA AlignsTo ==
  ASSUME NEW va \in UserVAddr, NEW vb \in UserVAddr, NEW level \in Levels,
         Aligned(va, level), \A n \in Levels : n <= level => va[n] = vb[n]
  PROVE  AlignDown(vb, level) = va
<1>1. va \in [Levels -> Index] /\ vb \in [Levels -> Index]
  BY Addresses
<1>2. \A n \in Levels : (IF n > level THEN 0 ELSE vb[n]) = va[n]
  <2> SUFFICES ASSUME NEW n \in Levels
               PROVE  (IF n > level THEN 0 ELSE vb[n]) = va[n]
    OBVIOUS
  <2>1. n > level \/ n <= level
    BY DEF Levels
  <2>2. n > level => va[n] = 0
    BY DEF Aligned
  <2>3. n <= level => ~ n > level
    BY DEF Levels
  <2> QED
    BY <2>1, <2>2, <2>3
<1> QED
  BY <1>1, <1>2 DEF AlignDown

\* Two address spaces do not share a root.
LEMMA OneSpace ==
  ASSUME TypeOK, BootFirst, SpacesDiffer, NEW a \in Asids, NEW b \in Asids,
         Space(a) = Space(b), Space(a) # NoRoot
  PROVE  a = b
BY DEF TypeOK, BootFirst, SpacesDiffer, Space

\* A capability that says so is mapped.
LEMMA SaysMapped ==
  ASSUME NEW cap, NEW a \in Asids, NEW va \in UserVAddr, NEW tr,
         tr.level \in Levels, Says(cap, a, va, tr)
  PROVE  cap[tr.frame] # NoCap
<1>1. AlignDown(va, tr.level) \in UserVAddr
  BY AlignedDown
<1>2. cap[tr.frame] \in FrameMapping
  BY <1>1 DEF Says, FrameMapping
<1> QED
  BY <1>2, RiscvPageTableAssumption

\* What mapping a page table does, in the boot code or later.
LEMMA LinkStep ==
  ASSUME IInv, NEW a \in Asids, NEW root \in Roots, Space(a) = root,
         NEW va \in UserVAddr, NEW table \in PageTables,
         ptCap[table] = NoCap, ~ PteAt(lookup_pt_slot(root, va)).v,
         mem' = Written(lookup_pt_slot(root, va), pte_next_table(table)),
         NEW cap \in TableMapping, ptCap' = [ptCap EXCEPT ![table] = cap],
         UNCHANGED <<vspaceOf, frameCap, itRoot, booted>>, LeftBehind({})
  PROVE  /\ IInv'
         /\ \A r \in Roots, vb \in UserVAddr :
              Reached(mem, r, vb) # NoCap => Reached(mem', r, vb) = Reached(mem, r, vb)
<1> DEFINE s == Lookup(mem, root, va)
           e == pte_next_table(table)
<1>1. Sound(mem) /\ IsSlot(s) /\ ~ At(mem, s).v /\ mem' = Put(mem, s, e)
  BY LookupIs, LookupIsSlot, WrittenIs DEF IInv, At, PteAt
<1>2. e \in PTE /\ is_pte_table(e) /\ e.ppn = table
  BY DEF pte_next_table, is_pte_table, PTE, Pages, Tables
<1>3. /\ Trees(mem, LiveTables, leftBehind, ptCap) /\ leftBehind \subseteq PageTables
      /\ LiveTables \subseteq Tables /\ PageTables \subseteq LiveTables
      /\ root \in Roots \cap LiveTables
  BY LiveIs DEF IInv, TypeOK
<1>4. s.table \in PageTables => ptCap[s.table] # NoCap \/ s.table \in leftBehind
  BY <1>1, <1>3, WalkedAreMapped
<1>5. table \in leftBehind \/ (mem[table] = Blank /\ s.table # table)
  BY <1>3, <1>4 DEF Trees, UnmappedAreClear
<1> HIDE DEF s
<1>6. Sound(mem')
  <2>1. MayPut(e)
    BY <1>2 DEF MayPut
  <2> HIDE DEF e
  <2> QED
    BY <1>1, <1>2, <2>1, PutSound
<1>7. /\ ptCap' \in [PageTables -> TableMapping \cup {NoCap}]
      /\ ptCap'[table] # NoCap /\ \A t \in PageTables \ {table} : ptCap'[t] = ptCap[t]
  BY RiscvPageTableAssumption DEF IInv, TypeOK
<1>8. TypeOK' /\ LiveTables' = LiveTables
  BY <1>3, <1>6, <1>7 DEF IInv, TypeOK, Sound, Memory, LeftBehind, LiveTables, Live
<1>9. Trees(mem', LiveTables', leftBehind, ptCap')
  <2>1. Trees(Put(mem, s, pte_next_table(table)), LiveTables, leftBehind, ptCap')
    BY ONLY <1>1, <1>3, <1>4, <1>7, table \in PageTables, ptCap[table] = NoCap, LinkTrees
  <2> QED
    BY ONLY <2>1, <1>1, <1>8 DEF e
<1>10. /\ Trees(mem', LiveTables', leftBehind', ptCap')
       /\ \A r \in Roots \cap LiveTables, vb \in UserVAddr :
            Clean(mem', leftBehind', r, vb) => Clean(mem', leftBehind, r, vb)
  BY <1>3, <1>6, <1>8, <1>9, Remembered
<1>11. BootFirst' /\ SpacesDiffer'
  BY DEF IInv, BootFirst, SpacesDiffer
<1>12. \A b : Space(b)' = Space(b)
  BY DEF Space
<1>13. SpacesHaveKernel'
  <2> HIDE DEF e
  <2> QED
    BY <1>1, <1>2, <1>12, PutHalf DEF IInv, SpacesHaveKernel
<1>14. \A r \in Roots, vb \in UserVAddr :
         /\ Reached(mem, r, vb) # NoCap => Reached(mem', r, vb) = Reached(mem, r, vb)
         /\ Reached(mem', r, vb) # NoCap /\ Clean(mem', leftBehind, r, vb)
              => Reached(mem, r, vb) = Reached(mem', r, vb) /\ Clean(mem, leftBehind, r, vb)
  BY <1>1, <1>5, LinkShows
<1>15. SpacesShowCaps'
  <2>1. \A b \in Asids, r \in Roots : Space(b) = r => r \in LiveTables
    BY LiveIs DEF IInv
  <2> QED
    BY <1>10, <1>12, <1>14, <2>1 DEF IInv, SpacesShowCaps, Says
<1> QED
  BY <1>6, <1>8, <1>10, <1>11, <1>13, <1>14, <1>15 DEF IInv

\* What mapping a frame does: it can be reached where its capability now says, and
\* nowhere else.
LEMMA FrameStep ==
  ASSUME IInv, NEW a \in Asids, NEW root \in Roots, Space(a) = root,
         NEW va \in UserVAddr, NEW frame \in Frames, NEW level \in Levels, NEW rights \in BOOLEAN,
         frameCap[frame] = NoCap,
         lookup_pt_slot(root, va).level = level, Aligned(va, level),
         ~ PteAt(lookup_pt_slot(root, va)).v,
         mem' = Written(lookup_pt_slot(root, va), make_user_pte(frame, rights)),
         frameCap' = [frameCap EXCEPT ![frame] = [asid |-> a, va |-> va, level |-> level]],
         UNCHANGED <<vspaceOf, ptCap, itRoot, booted>>, LeftBehind({})
  PROVE  /\ IInv'
         /\ \A r \in Roots, vb \in UserVAddr :
              Reached(mem, r, vb) # NoCap => Reached(mem', r, vb) = Reached(mem, r, vb)
<1> DEFINE s == Lookup(mem, root, va)
           e == make_user_pte(frame, rights)
<1>1. /\ Sound(mem) /\ IsSlot(s) /\ ~ At(mem, s).v /\ mem' = Put(mem, s, e) /\ s.level = level
  BY LookupIs, LookupIsSlot, WrittenIs DEF IInv, At, PteAt
<1>2. /\ e \in PTE /\ ~ is_pte_table(e)
      /\ e = pte_invalid \/ (e.v /\ e.rwx /\ e.ppn \in Frames)
      /\ e.v => e.ppn = frame
  BY DEF make_user_pte, pte_invalid, is_pte_table, PTE, Pages
<1>3. ~ is_pte_table(At(mem, s))
  BY <1>1 DEF is_pte_table
<1>t. /\ Trees(mem, LiveTables, leftBehind, ptCap) /\ leftBehind \subseteq PageTables
      /\ LiveTables \subseteq Tables /\ PageTables \subseteq LiveTables
      /\ \A b \in Asids, q \in Roots : Space(b) = q => q \in Roots \cap LiveTables
      /\ root \in Roots \cap LiveTables
  BY LiveIs DEF IInv, TypeOK
<1>w. s.table \in PageTables => ptCap[s.table] # NoCap \/ s.table \in leftBehind
  BY <1>1, <1>t, WalkedAreMapped
<1> HIDE DEF s, e
<1>4. Sound(mem')
  <2>1. MayPut(e)
    BY <1>2 DEF MayPut
  <2> QED
    BY <1>1, <1>2, <2>1, PutSound
<1>k. frameCap' \in [Frames -> FrameMapping \cup {NoCap}]
  <2>1. [asid |-> a, va |-> va, level |-> level] \in FrameMapping
    BY DEF FrameMapping
  <2> QED
    BY <2>1 DEF IInv, TypeOK
<1>o. TypeOK' /\ LiveTables' = LiveTables
  BY <1>t, <1>4, <1>k DEF IInv, TypeOK, Sound, Memory, LeftBehind, LiveTables, Live
<1>r. /\ Trees(mem', LiveTables', leftBehind', ptCap')
      /\ \A r \in Roots \cap LiveTables, vb \in UserVAddr :
           Clean(mem', leftBehind', r, vb) => Clean(mem', leftBehind, r, vb)
  <2>1. Trees(mem', LiveTables', leftBehind, ptCap')
    BY <1>1, <1>2, <1>t, <1>w, <1>o, LeafTrees
  <2> QED
    BY <1>t, <1>4, <1>o, <2>1, Remembered
<1>5. BootFirst' /\ SpacesDiffer'
  BY DEF IInv, BootFirst, SpacesDiffer
<1>6. \A b : Space(b)' = Space(b)
  BY DEF Space
<1>7. SpacesHaveKernel'
  BY <1>1, <1>2, <1>6, PutHalf DEF IInv, SpacesHaveKernel
<1>8. ASSUME NEW q \in Roots, NEW vb \in UserVAddr
      PROVE  LET x == Lookup(mem, q, vb)
             IN  /\ Lookup(mem', q, vb) = x /\ Turn1(mem', q, vb) = Turn1(mem, q, vb)
                 /\ At(mem', x) = IF x.table = s.table /\ x.index = s.index
                                  THEN e ELSE At(mem, x)
  BY <1>1, <1>2, <1>3, LeafShows
<1>9. ASSUME NEW b \in Asids, NEW q \in Roots, NEW vb \in UserVAddr, Space(b) = q,
             Reached(mem', q, vb) # NoCap, Clean(mem', leftBehind', q, vb)
      PROVE  Says(frameCap', b, vb, Reached(mem', q, vb))
  <2> DEFINE x  == Lookup(mem, q, vb)
             tr == Reached(mem', q, vb)
  <2>c. Clean(mem, leftBehind, q, vb)
    BY <1>t, <1>r, <1>8, <1>9 DEF Clean
  <2>1. /\ Lookup(mem', q, vb) = x
        /\ At(mem', x) = IF x.table = s.table /\ x.index = s.index THEN e ELSE At(mem, x)
    BY <1>8
  <2>2. /\ At(mem', x).v /\ At(mem', x).rwx
        /\ tr = [frame |-> At(mem', x).ppn, level |-> x.level]
        /\ tr.frame = At(mem', x).ppn /\ tr.level = x.level
        /\ tr.frame \in Frames /\ tr.level \in Levels
    BY <1>4, <1>9, <2>1, ReachedIsFrame
  <2>3. CASE x.table = s.table /\ x.index = s.index
    <3>1. root = q /\ s = x /\ \A n \in Levels : n <= level => va[n] = vb[n]
      <4>1. OneParent(mem, LiveTables, leftBehind) /\ q \in Roots \cap LiveTables
        BY <1>t, <1>9 DEF Trees
      <4>2. q = root /\ x = Lookup(mem, root, va)
            /\ \A n \in Levels : n <= x.level => vb[n] = va[n]
        BY <1>1, <1>t, <2>3, <2>c, <4>1, OneWay DEF s
      <4> QED
        BY <1>1, <4>2 DEF s
    <3>2. b = a
      <4>1. root # NoRoot
        BY RiscvPageTableAssumption
      <4> QED
        BY <1>9, <3>1, <4>1, OneSpace DEF IInv
    <3>3. tr.frame = frame /\ tr.level = level
      BY <1>1, <1>2, <2>1, <2>2, <2>3, <3>1
    <3>4. AlignDown(vb, level) = va
      BY <3>1, AlignsTo
    <3>5. frameCap'[frame] = [asid |-> a, va |-> va, level |-> level]
      BY DEF IInv, TypeOK
    <3> QED
      BY <3>2, <3>3, <3>4, <3>5 DEF Says
  <2>4. CASE ~ (x.table = s.table /\ x.index = s.index)
    <3>1. At(mem', x) = At(mem, x)
      BY <2>1, <2>4
    <3>2. Reached(mem, q, vb) = tr /\ tr # NoCap
      BY <1>9, <2>1, <3>1 DEF Reached
    <3>3. Says(frameCap, b, vb, tr)
      BY <1>9, <2>c, <3>2 DEF IInv, SpacesShowCaps
    <3>4. frameCap[tr.frame] # NoCap
      BY <2>2, <3>3, SaysMapped
    <3>5. frameCap'[tr.frame] = frameCap[tr.frame]
      BY <2>2, <3>4 DEF IInv, TypeOK
    <3> QED
      BY <3>3, <3>5 DEF Says
  <2> QED
    BY <2>3, <2>4
<1>10. SpacesShowCaps'
  BY <1>6, <1>9 DEF SpacesShowCaps
<1>11. ASSUME NEW r \in Roots, NEW vb \in UserVAddr, Reached(mem, r, vb) # NoCap
       PROVE  Reached(mem', r, vb) = Reached(mem, r, vb)
  <2> DEFINE x == Lookup(mem, r, vb)
  <2>1. /\ Lookup(mem', r, vb) = x
        /\ At(mem', x) = IF x.table = s.table /\ x.index = s.index THEN e ELSE At(mem, x)
    BY <1>8
  <2>2. At(mem, x).v
    BY <1>11 DEF Reached
  <2>3. At(mem', x) = At(mem, x)
    BY <1>1, <2>1, <2>2 DEF At
  <2> QED
    BY <2>1, <2>3 DEF Reached
<1> QED
  BY <1>o, <1>r, <1>4, <1>5, <1>7, <1>10, <1>11 DEF IInv

------------------------------------------------------------------------------
(* Each operation keeps it.                                                *)

\* A root that is cleared and given the kernel's entries: what is live now was live
\* before, or is the root, which leads nowhere.
LEMMA CopyKeepsTrees ==
  ASSUME IInv, NEW root \in Roots, mem' = Copy(mem, root), UNCHANGED ptCap, LeftBehind({}),
         TypeOK', \A r \in Roots : r \in LiveTables' => r = root \/ r \in LiveTables
  PROVE  /\ Trees(mem', LiveTables', leftBehind', ptCap')
         /\ \A r \in Roots \cap LiveTables', va \in UserVAddr :
              Clean(mem', leftBehind', r, va) => Clean(mem', leftBehind, r, va)
<1>1. /\ Sound(mem) /\ Trees(mem, LiveTables, leftBehind, ptCap)
      /\ leftBehind \subseteq PageTables /\ root \notin PageTables
      /\ LiveTables \subseteq Tables /\ LiveTables' \subseteq Tables
      /\ PageTables \subseteq LiveTables /\ PageTables \subseteq Tables
  BY RiscvPageTableAssumption, LiveIs, LiveIsNext DEF IInv, TypeOK, Tables
<1>2. /\ Sound(mem') /\ mem' \in Memory
      /\ \A t \in Tables, i \in Index :
           mem'[t][i] = IF t = root
                        THEN (IF i >= KernelIndex THEN mem[KernelRoot][i] ELSE pte_invalid)
                        ELSE mem[t][i]
  BY <1>1, CopyIs, CopySound
<1>3. \A t \in LiveTables' : t = root \/ t \in LiveTables
  <2>1. KernelRoot \notin LiveTables'
    BY RiscvPageTableAssumption DEF TypeOK, LiveTables, Live
  <2>2. \A t \in Tables : t \in Roots \/ t = KernelRoot \/ t \in PageTables
    BY DEF Tables
  <2> QED
    BY <1>1, <2>1, <2>2
<1>4. \A i \in Index : ~ is_pte_table(mem'[root][i])
  <2>1. \A i \in Index : i >= KernelIndex => ~ is_pte_table(mem[KernelRoot][i])
    BY <1>1 DEF Sound, KernelRow, is_pte_table
  <2>2. ~ is_pte_table(pte_invalid) /\ root \in Tables
    BY DEF is_pte_table, pte_invalid, Tables
  <2> QED
    BY <1>2, <2>1, <2>2
<1>5. \A t \in PageTables : mem'[t] = mem[t]
  <2>1. \A t \in PageTables : /\ mem'[t] \in [Index -> PTE] /\ mem[t] \in [Index -> PTE]
                             /\ \A i \in Index : mem'[t][i] = mem[t][i]
    BY <1>1, <1>2 DEF Sound, Memory
  <2> QED
    BY <2>1
<1>6. \A t \in LiveTables', i \in Index :
        is_pte_table(mem'[t][i]) => t \in LiveTables /\ mem'[t][i] = mem[t][i]
  BY <1>1, <1>2, <1>3, <1>4
<1>7. \A t \in LiveTables, i \in Index : is_pte_table(mem[t][i]) => mem[t][i].ppn \in PageTables
  BY <1>1 DEF Sound, EntriesLead
<1>8. Trees(mem', LiveTables', leftBehind, ptCap')
  BY <1>1, <1>5, <1>6, <1>7, FewerTrees
<1> QED
  BY <1>1, <1>2, <1>8, Remembered

LEMMA CreateItSpaceStep ==
  ASSUME IInv, NEW root \in Roots, CreateItSpace(root)
  PROVE  IInv'
<1>1. mem' = Copy(mem, root) /\ Sound(mem) /\ itRoot' = root /\ LeftBehind({})
      /\ UNCHANGED <<vspaceOf, frameCap, ptCap, booted>>
  BY DEF CreateItSpace, copyGlobalMappings, Copy, IInv
<1>2. Sound(mem')
  BY <1>1, CopySound
<1>3. TypeOK'
  BY <1>1, <1>2 DEF Sound, Memory, IInv, TypeOK, LeftBehind
<1>4. BootFirst' /\ SpacesDiffer'
  BY <1>1 DEF CreateItSpace, IInv, BootFirst, SpacesDiffer
<1>5. \A a \in Asids, r \in Roots : Space(a)' = r => r = root
  <2>1. \A a \in Asids : vspaceOf[a] = NoRoot
    BY DEF CreateItSpace, IInv, BootFirst
  <2> QED
    BY <1>1, <2>1, RiscvPageTableAssumption DEF Space
<1>6. SpacesHaveKernel'
  BY <1>1, <1>5, CopyHalf DEF SpacesHaveKernel
<1>7. SpacesShowCaps'
  BY <1>1, <1>5, CopyShows DEF SpacesShowCaps
<1>8. Trees(mem', LiveTables', leftBehind', ptCap')
  <2>1. \A r \in Roots : r \in LiveTables' => r = root \/ r \in LiveTables
    BY <1>1, <1>3, LiveIs, LiveIsNext DEF IInv
  <2> QED
    BY <1>1, <1>3, <2>1, CopyKeepsTrees
<1> QED
  BY <1>2, <1>3, <1>4, <1>6, <1>7, <1>8 DEF IInv

LEMMA CreateVSpaceStep ==
  ASSUME IInv, NEW asid \in Asids, NEW root \in Roots, CreateVSpace(asid, root)
  PROVE  IInv'
<1>1. /\ mem' = Copy(mem, root) /\ Sound(mem) /\ booted /\ itRoot = NoRoot
      /\ vspaceOf' = [vspaceOf EXCEPT ![asid] = root]
      /\ vspaceOf \in [Asids -> Roots \cup {NoRoot}]
      /\ vspaceOf[asid] = NoRoot /\ \A a \in Asids : vspaceOf[a] # root
      /\ UNCHANGED <<frameCap, ptCap, itRoot, booted>> /\ LeftBehind({})
  BY DEF CreateVSpace, copyGlobalMappings, Copy, IInv, BootFirst, TypeOK
<1>2. Sound(mem')
  BY <1>1, CopySound
<1>3. TypeOK'
  BY <1>1, <1>2 DEF Sound, Memory, IInv, TypeOK, LeftBehind
<1>4. BootFirst' /\ SpacesDiffer'
  BY <1>1 DEF IInv, BootFirst, SpacesDiffer
<1>5. \A a \in Asids : /\ Space(a) = vspaceOf[a]
                       /\ Space(a)' = IF a = asid THEN root ELSE vspaceOf[a]
  BY <1>1 DEF Space
<1>6. \A a \in Asids, r \in Roots : Space(a)' = r => r = root \/ (Space(a) = r /\ r # root)
  BY <1>1, <1>5
<1>7. SpacesHaveKernel'
  BY <1>1, <1>6, CopyHalf DEF SpacesHaveKernel, IInv
<1>8. /\ Trees(mem', LiveTables', leftBehind', ptCap')
      /\ \A r \in Roots \cap LiveTables', va \in UserVAddr :
           Clean(mem', leftBehind', r, va) => Clean(mem', leftBehind, r, va)
  <2>1. \A r \in Roots : r \in LiveTables' => r = root \/ r \in LiveTables
    BY <1>1, <1>3, LiveIs, LiveIsNext DEF IInv
  <2> QED
    BY <1>1, <1>3, <2>1, CopyKeepsTrees
<1>9. SpacesShowCaps'
  <2> SUFFICES ASSUME NEW a \in Asids, NEW r \in Roots, NEW va \in UserVAddr,
                      Space(a)' = r, Reached(mem', r, va) # NoCap, Clean(mem', leftBehind', r, va)
               PROVE  Says(frameCap', a, va, Reached(mem', r, va))
    BY DEF SpacesShowCaps
  <2>1. r # root
    BY <1>1, CopyShows
  <2>2. Space(a) = r
    BY <1>6, <2>1
  <2>3. Clean(mem', leftBehind, r, va)
    BY <1>3, <1>8, LiveIsNext
  <2>4. Reached(mem, r, va) = Reached(mem', r, va) /\ Clean(mem, leftBehind, r, va)
    BY <1>1, <2>1, <2>3, CopyShows
  <2> QED
    BY <1>1, <2>2, <2>4 DEF IInv, SpacesShowCaps, Says
<1> QED
  BY <1>2, <1>3, <1>4, <1>7, <1>8, <1>9 DEF IInv

LEMMA CreateItPageTableStep ==
  ASSUME IInv, NEW table \in PageTables, NEW va \in UserVAddr, CreateItPageTable(table, va)
  PROVE  IInv'
<1>1. PICK root \in Roots : root = itRoot
  BY DEF CreateItPageTable, IInv, TypeOK
<1>2. /\ ptCap[table] = NoCap /\ ~ PteAt(lookup_pt_slot(root, va)).v
      /\ mem' = Written(lookup_pt_slot(root, va), pte_next_table(table))
      /\ ptCap' = [ptCap EXCEPT ![table] = [asid |-> ItAsid, va |-> va]]
      /\ UNCHANGED <<vspaceOf, frameCap, itRoot, booted>> /\ LeftBehind({})
  BY <1>1 DEF CreateItPageTable, map_it_pt_cap
<1>3. [asid |-> ItAsid, va |-> va] \in TableMapping /\ ItAsid \in Asids /\ Space(ItAsid) = root
  BY <1>1, RiscvPageTableAssumption DEF TableMapping, Space
<1> QED
  BY <1>2, <1>3, LinkStep

LEMMA MapPageTableStep ==
  ASSUME IInv, NEW table \in PageTables, NEW asid \in Asids, NEW va \in UserVAddr,
         MapPageTable(table, asid, va)
  PROVE  /\ IInv'
         /\ \A r \in Roots, vb \in UserVAddr :
              Reached(mem, r, vb) # NoCap => Reached(mem', r, vb) = Reached(mem, r, vb)
<1>1. PICK root \in Roots : root = vspaceOf[asid]
  BY DEF MapPageTable, IInv, TypeOK
<1>2. /\ ptCap[table] = NoCap /\ ~ PteAt(lookup_pt_slot(root, va)).v
      /\ mem' = Written(lookup_pt_slot(root, va), pte_next_table(table))
      /\ ptCap' = [ptCap EXCEPT ![table] = [asid |-> asid, va |-> va]]
      /\ UNCHANGED <<vspaceOf, frameCap, itRoot, booted>> /\ LeftBehind({})
  BY <1>1 DEF MapPageTable
<1>3. [asid |-> asid, va |-> va] \in TableMapping /\ Space(asid) = root
  BY <1>1 DEF TableMapping, MapPageTable, IInv, BootFirst, Space
<1> QED
  BY <1>2, <1>3, LinkStep

LEMMA CreateItFrameStep ==
  ASSUME IInv, NEW frame \in Frames, NEW va \in UserVAddr, NEW use_large \in BOOLEAN,
         CreateItFrame(frame, va, use_large)
  PROVE  IInv'
<1> DEFINE level == IF use_large THEN 1 ELSE 2
<1>1. PICK root \in Roots : root = itRoot
  BY DEF CreateItFrame, IInv, TypeOK
<1>2. ItAsid \in Asids /\ Space(ItAsid) = root /\ level \in Levels
  BY <1>1, RiscvPageTableAssumption DEF Space, Levels
<1>3. /\ frameCap[frame] = NoCap /\ lookup_pt_slot(root, va).level = level
      /\ Aligned(va, level) /\ ~ PteAt(lookup_pt_slot(root, va)).v
      /\ mem' = Written(lookup_pt_slot(root, va), make_user_pte(frame, TRUE))
      /\ frameCap' = [frameCap EXCEPT ![frame] = [asid |-> ItAsid, va |-> va, level |-> level]]
      /\ UNCHANGED <<vspaceOf, ptCap, itRoot, booted>> /\ LeftBehind({})
  BY <1>1 DEF CreateItFrame, map_it_frame_cap
<1> QED
  BY <1>2, <1>3, FrameStep

LEMMA MapFrameStep ==
  ASSUME IInv, NEW frame \in Frames, NEW asid \in Asids, NEW va \in UserVAddr,
         NEW level \in Levels, NEW rights \in BOOLEAN,
         MapFrame(frame, asid, va, level, rights)
  PROVE  /\ IInv'
         /\ \A r \in Roots, vb \in UserVAddr :
              Reached(mem, r, vb) # NoCap => Reached(mem', r, vb) = Reached(mem, r, vb)
<1>1. PICK root \in Roots : root = vspaceOf[asid]
  BY DEF MapFrame, IInv, TypeOK
<1>2. Space(asid) = root
  BY <1>1 DEF MapFrame, IInv, BootFirst, Space
<1>3. /\ frameCap[frame] = NoCap /\ lookup_pt_slot(root, va).level = level
      /\ Aligned(va, level) /\ ~ PteAt(lookup_pt_slot(root, va)).v
      /\ mem' = Written(lookup_pt_slot(root, va), make_user_pte(frame, rights))
      /\ frameCap' = [frameCap EXCEPT ![frame] = [asid |-> asid, va |-> va, level |-> level]]
      /\ UNCHANGED <<vspaceOf, ptCap, itRoot, booted>> /\ LeftBehind({})
  BY <1>1 DEF MapFrame
<1> QED
  BY <1>2, <1>3, FrameStep

\* A step that maps and unmaps nothing, and brings no space to life.
LEMMA TreesRest ==
  ASSUME IInv, UNCHANGED <<mem, ptCap>>, LeftBehind({}), TypeOK', LiveTables' \subseteq LiveTables
  PROVE  /\ Trees(mem', LiveTables', leftBehind', ptCap')
         /\ \A r \in Roots \cap LiveTables', va \in UserVAddr :
              Clean(mem', leftBehind', r, va) => Clean(mem, leftBehind, r, va)
<1>1. /\ Sound(mem) /\ Sound(mem') /\ Trees(mem, LiveTables, leftBehind, ptCap)
      /\ leftBehind \subseteq PageTables /\ LiveTables \subseteq Tables
  BY LiveIs DEF IInv, TypeOK
<1>2. \A t \in LiveTables, i \in Index : is_pte_table(mem[t][i]) => mem[t][i].ppn \in PageTables
  BY <1>1 DEF Sound, EntriesLead
<1>3. Trees(mem', LiveTables', leftBehind, ptCap')
  BY <1>1, <1>2, FewerTrees
<1> QED
  BY <1>1, <1>3, Remembered

LEMMA FinishBootStep == IInv /\ FinishBoot => IInv'
<1> SUFFICES ASSUME IInv, FinishBoot PROVE IInv'
  OBVIOUS
<1>1. /\ itRoot \in Roots /\ itRoot # NoRoot /\ itRoot' = NoRoot /\ booted' = TRUE
      /\ vspaceOf' = [vspaceOf EXCEPT ![ItAsid] = itRoot]
      /\ vspaceOf \in [Asids -> Roots \cup {NoRoot}]
      /\ ~ booted /\ \A a \in Asids : vspaceOf[a] = NoRoot
      /\ ItAsid \in Asids
      /\ UNCHANGED <<mem, frameCap, ptCap>> /\ LeftBehind({})
  BY RiscvPageTableAssumption DEF FinishBoot, IInv, BootFirst, TypeOK
<1>2. \A a \in Asids : Space(a)' = Space(a)
  BY <1>1 DEF Space
<1>3. TypeOK' /\ BootFirst' /\ SpacesDiffer'
  BY <1>1 DEF IInv, TypeOK, BootFirst, SpacesDiffer, LeftBehind
<1>4. LiveTables' \subseteq LiveTables
  BY <1>1, RiscvPageTableAssumption DEF LiveTables, Live, Tables
<1>5. /\ Trees(mem', LiveTables', leftBehind', ptCap')
      /\ \A r \in Roots \cap LiveTables', va \in UserVAddr :
           Clean(mem', leftBehind', r, va) => Clean(mem, leftBehind, r, va)
  BY <1>1, <1>3, <1>4, TreesRest
<1>6. \A a \in Asids, r \in Roots : Space(a)' = r => r \in LiveTables'
  BY <1>3, LiveIsNext
<1>7. SpacesHaveKernel' /\ SpacesShowCaps'
  BY <1>1, <1>2, <1>5, <1>6 DEF IInv, SpacesHaveKernel, SpacesShowCaps
<1> QED
  BY <1>1, <1>3, <1>5, <1>7 DEF IInv

\* Spaces go, one or many.
LEMMA SpacesGo ==
  ASSUME IInv, booted, NEW asids \in SUBSET Asids,
         vspaceOf' = [a \in Asids |-> IF a \in asids THEN NoRoot ELSE vspaceOf[a]],
         UNCHANGED <<mem, frameCap, ptCap, itRoot, booted>>, LeftBehind({})
  PROVE  IInv'
<1>1. /\ vspaceOf' \in [Asids -> Roots \cup {NoRoot}]
      /\ \A a \in Asids : vspaceOf'[a] \in {vspaceOf[a], NoRoot}
      /\ itRoot = NoRoot /\ booted /\ UNCHANGED <<mem, frameCap, ptCap, itRoot, booted>>
  BY DEF IInv, TypeOK, BootFirst
<1>2. \A a \in Asids, r \in Roots : Space(a)' = r => Space(a) = r
  BY <1>1, RiscvPageTableAssumption DEF Space
<1>3. TypeOK' /\ BootFirst' /\ SpacesDiffer'
  BY <1>1 DEF IInv, TypeOK, BootFirst, SpacesDiffer, LeftBehind
<1>4. LiveTables' \subseteq LiveTables
  <2>1. NoRoot \notin Tables \/ NoRoot \in PageTables
    BY RiscvPageTableAssumption DEF Tables
  <2> QED
    BY <1>1, <2>1 DEF LiveTables, Live
<1>5. /\ Trees(mem', LiveTables', leftBehind', ptCap')
      /\ \A r \in Roots \cap LiveTables', va \in UserVAddr :
           Clean(mem', leftBehind', r, va) => Clean(mem, leftBehind, r, va)
  BY <1>1, <1>3, <1>4, TreesRest
<1>6. \A a \in Asids, r \in Roots : Space(a)' = r => r \in LiveTables'
  BY <1>3, LiveIsNext
<1>7. SpacesHaveKernel' /\ SpacesShowCaps'
  BY <1>1, <1>2, <1>5, <1>6 DEF IInv, SpacesHaveKernel, SpacesShowCaps
<1> QED
  BY <1>1, <1>3, <1>5, <1>7 DEF IInv

LEMMA DeleteVSpaceStep ==
  ASSUME IInv, NEW asid \in Asids, DeleteVSpace(asid)
  PROVE  IInv'
<1>1. vspaceOf' = [a \in Asids |-> IF a \in {asid} THEN NoRoot ELSE vspaceOf[a]]
  BY DEF DeleteVSpace, IInv, TypeOK
<1>2. booted /\ UNCHANGED <<mem, frameCap, ptCap, itRoot, booted>> /\ LeftBehind({})
  BY DEF DeleteVSpace
<1> QED
  BY <1>1, <1>2, SpacesGo

LEMMA DeleteAsidPoolStep ==
  ASSUME IInv, NEW asids \in SUBSET Asids, DeleteAsidPool(asids)
  PROVE  IInv'
BY SpacesGo DEF DeleteAsidPool

LEMMA UnmapFrameStep ==
  ASSUME IInv, NEW frame \in Frames, UnmapFrame(frame)
  PROVE  /\ IInv'
         /\ \A r \in Roots, va \in UserVAddr :
              Reached(mem, r, va) # NoCap
                => \/ Reached(mem', r, va) = Reached(mem, r, va)
                   \/ Reached(mem, r, va).frame = frame
<1> DEFINE cap == frameCap[frame]
           s == Lookup(mem, vspaceOf[cap.asid], cap.va)
           Zeroed == /\ vspaceOf[cap.asid] # NoRoot /\ s.level = cap.level
                     /\ At(mem, s).v /\ ~ is_pte_table(At(mem, s)) /\ At(mem, s).ppn = frame
<1>1. /\ Sound(mem) /\ booted /\ itRoot = NoRoot /\ cap # NoCap /\ cap \in FrameMapping
      /\ frameCap' = [frameCap EXCEPT ![frame] = NoCap]
      /\ UNCHANGED <<vspaceOf, ptCap, itRoot, booted>> /\ LeftBehind({})
  BY DEF UnmapFrame, IInv, BootFirst, TypeOK
<1>2. mem' = IF Zeroed THEN Put(mem, s, pte_invalid) ELSE mem
  <2>1. mem' = unmap_page(cap.level, cap.asid, cap.va, frame)
    BY DEF UnmapFrame
  <2>2. lookup_pt_slot(vspaceOf[cap.asid], cap.va) = s
    BY Unfold DEF lookup_pt_slot, Walk, PteAt
  <2> HIDE DEF cap, s
  <2> QED
    BY <2>1, <2>2, WrittenIs DEF unmap_page, PteAt, At
<1>3. /\ cap.asid \in Asids /\ cap.va \in UserVAddr /\ cap.level \in Levels
      /\ cap = [asid |-> cap.asid, va |-> cap.va, level |-> cap.level]
      /\ vspaceOf[cap.asid] # NoRoot => vspaceOf[cap.asid] \in Roots
  BY <1>1 DEF FrameMapping, IInv, TypeOK
<1> HIDE DEF cap
<1>4. Zeroed => IsSlot(s) /\ ~ is_pte_table(At(mem, s))
  BY <1>1, <1>3, LookupIsSlot
<1>t. /\ Trees(mem, LiveTables, leftBehind, ptCap) /\ leftBehind \subseteq PageTables
      /\ LiveTables \subseteq Tables /\ PageTables \subseteq LiveTables
      /\ \A a \in Asids, r \in Roots : Space(a) = r => r \in Roots \cap LiveTables
      /\ \A a \in Asids : vspaceOf[a] # NoRoot => vspaceOf[a] \in Roots \cap LiveTables
  BY LiveIs DEF IInv, TypeOK
<1>w. Zeroed => (s.table \in PageTables => ptCap[s.table] # NoCap \/ s.table \in leftBehind)
  <2>1. vspaceOf[cap.asid] # NoRoot => vspaceOf[cap.asid] \in Roots \cap LiveTables
    BY <1>3, <1>t
  <2> QED
    BY <1>1, <1>3, <1>t, <2>1, WalkedAreMapped
<1>5. pte_invalid \in PTE /\ ~ is_pte_table(pte_invalid) /\ ~ pte_invalid.v
      /\ MayPut(pte_invalid)
  BY DEF pte_invalid, PTE, Pages, is_pte_table, MayPut
<1> HIDE DEF s
<1>6. Sound(mem')
  BY <1>1, <1>2, <1>4, <1>5, PutSound
<1>o. TypeOK' /\ LiveTables' = LiveTables
  BY <1>1, <1>t, <1>6 DEF IInv, TypeOK, Sound, Memory, LeftBehind, LiveTables, Live
<1>r. /\ Trees(mem', LiveTables', leftBehind', ptCap')
      /\ \A r \in Roots \cap LiveTables, va \in UserVAddr :
           Clean(mem', leftBehind', r, va) => Clean(mem', leftBehind, r, va)
  <2>1. CASE Zeroed
    <3>1. /\ mem' = Put(mem, s, pte_invalid) /\ IsSlot(s)
          /\ s.table \in PageTables => ptCap[s.table] # NoCap \/ s.table \in leftBehind
      BY <1>2, <1>4, <1>w, <2>1
    <3> HIDE DEF Zeroed
    <3>2. Trees(mem', LiveTables', leftBehind, ptCap')
      BY <1>1, <1>5, <1>t, <1>o, <3>1, LeafTrees
    <3>3. LeftBehind({}) /\ leftBehind = leftBehind \cup {}
      BY <1>1
    <3> QED
      BY ONLY <1>t, <1>6, <1>o, <3>2, <3>3, Remembered
  <2>2. CASE ~ Zeroed
    <3>1. mem' = mem
      BY <1>2, <2>2
    <3> HIDE DEF Zeroed
    <3> QED
      BY <1>1, <1>o, <3>1, TreesRest
  <2> QED
    BY <2>1, <2>2
<1>7. \A a : Space(a)' = Space(a) /\ Space(a) = vspaceOf[a]
  BY <1>1 DEF Space
<1>8. SpacesHaveKernel'
  <2>1. \A r \in Roots : Half(mem, r) => Half(mem', r)
    BY <1>1, <1>2, <1>4, <1>5, PutHalf
  <2> QED
    BY <1>7, <2>1 DEF IInv, SpacesHaveKernel
<1>9. ASSUME NEW r \in Roots, NEW va \in UserVAddr
      PROVE  LET x == Lookup(mem, r, va)
             IN  /\ Lookup(mem', r, va) = x /\ Turn1(mem', r, va) = Turn1(mem, r, va)
                 /\ At(mem', x) = IF Zeroed /\ x.table = s.table /\ x.index = s.index
                                  THEN pte_invalid ELSE At(mem, x)
  <2>1. CASE Zeroed
    <3>1. mem' = Put(mem, s, pte_invalid) /\ IsSlot(s) /\ ~ is_pte_table(At(mem, s))
      BY <1>2, <1>4, <2>1
    <3> HIDE DEF Zeroed
    <3> QED
      BY <1>1, <1>5, <2>1, <3>1, LeafShows
  <2>2. CASE ~ Zeroed
    BY <1>2, <2>2
  <2> QED
    BY <2>1, <2>2
<1>10. ASSUME NEW r \in Roots, NEW va \in UserVAddr, Reached(mem', r, va) # NoCap
       PROVE  Reached(mem, r, va) = Reached(mem', r, va)
  <2> DEFINE x == Lookup(mem, r, va)
  <2>1. Lookup(mem', r, va) = x /\ At(mem', x).v
    BY <1>9, <1>10 DEF Reached
  <2>2. At(mem', x) = At(mem, x)
    BY <1>5, <1>9, <2>1
  <2> QED
    BY <2>1, <2>2 DEF Reached
<1>11. ASSUME NEW a \in Asids, NEW r \in Roots, NEW va \in UserVAddr,
              Space(a) = r, Reached(mem', r, va) # NoCap, Clean(mem', leftBehind', r, va)
       PROVE  Says(frameCap', a, va, Reached(mem', r, va))
  <2> DEFINE x  == Lookup(mem, r, va)
             tr == Reached(mem, r, va)
  <2>1. tr = Reached(mem', r, va) /\ tr # NoCap
    BY <1>10, <1>11
  <2>c. Clean(mem, leftBehind, r, va)
    BY <1>t, <1>r, <1>9, <1>11 DEF Clean
  <2>2. Says(frameCap, a, va, tr)
    BY <1>11, <2>1, <2>c DEF IInv, SpacesShowCaps
  <2>3. /\ At(mem, x).v /\ At(mem, x).rwx /\ tr.frame = At(mem, x).ppn /\ tr.level = x.level
        /\ tr.frame \in Frames /\ tr.level \in Levels
    BY <1>1, <2>1, ReachedIsFrame
  <2>4. tr.frame # frame
    <3> SUFFICES ASSUME tr.frame = frame PROVE FALSE
      OBVIOUS
    <3>1. cap = [asid |-> a, va |-> AlignDown(va, x.level), level |-> x.level]
      BY <2>2, <2>3 DEF Says, cap
    <3>2. cap.asid = a /\ cap.va = AlignDown(va, x.level) /\ cap.level = x.level
      BY <3>1
    <3>3. vspaceOf[cap.asid] = r /\ r # NoRoot
      BY <1>7, <1>11, <3>2, RiscvPageTableAssumption
    <3>4. \A n \in Levels : n <= x.level => va[n] = AlignDown(va, x.level)[n]
      BY <2>3 DEF AlignDown, Levels
    <3>5. s = x
      <4>1. s = Lookup(mem, r, AlignDown(va, x.level))
        BY <3>2, <3>3 DEF s
      <4> QED
        BY <3>4, <4>1, SamePrefix
    <3>6. Zeroed
      <4>1. ~ is_pte_table(At(mem, x)) /\ At(mem, x).ppn = frame
        BY <2>3 DEF is_pte_table
      <4> QED
        BY <2>3, <3>2, <3>3, <3>5, <4>1
    <3>7. Lookup(mem', r, va) = x /\ At(mem', x) = pte_invalid
      BY <1>9, <3>5, <3>6
    <3>8. Reached(mem', r, va) = NoCap
      BY <1>5, <3>7 DEF Reached
    <3> QED
      BY <1>11, <3>8
  <2>5. frameCap'[tr.frame] = frameCap[tr.frame]
    BY <1>1, <2>3, <2>4 DEF IInv, TypeOK
  <2> QED
    BY <2>1, <2>2, <2>5 DEF Says
<1>12. SpacesShowCaps'
  BY <1>7, <1>11 DEF SpacesShowCaps
<1>13. BootFirst' /\ SpacesDiffer'
  BY <1>1 DEF IInv, BootFirst, SpacesDiffer
<1>14. IInv'
  BY <1>6, <1>8, <1>12, <1>13, <1>o, <1>r DEF IInv
<1>15. ASSUME NEW r \in Roots, NEW va \in UserVAddr, Reached(mem, r, va) # NoCap
       PROVE  \/ Reached(mem', r, va) = Reached(mem, r, va)
              \/ Reached(mem, r, va).frame = frame
  <2> DEFINE x == Lookup(mem, r, va)
  <2>1. CASE Zeroed /\ x.table = s.table /\ x.index = s.index
    <3>1. At(mem, x) = At(mem, s)
      BY <2>1 DEF At
    <3>2. Reached(mem, r, va).frame = At(mem, x).ppn
      BY <1>1, <1>15, ReachedIsFrame
    <3> QED
      BY <2>1, <3>1, <3>2
  <2>2. CASE ~ (Zeroed /\ x.table = s.table /\ x.index = s.index)
    <3>1. Lookup(mem', r, va) = x /\ At(mem', x) = At(mem, x)
      BY <1>9, <2>2
    <3> QED
      BY <3>1 DEF Reached
  <2> QED
    BY <2>1, <2>2
<1> QED
  BY <1>14, <1>15

\* What unmap_page_table looks for it never finds: the entry that leads to the
\* table is one at which it gives up, and the others lead to no table.
UnmapPageTableIsVain ==
  \A a \in Asids, va \in UserVAddr, t \in PageTables, foreign \in PTE :
    unmap_page_table(a, va, t, foreign) = mem

LEMMA Vain == IInv => UnmapPageTableIsVain
<1> SUFFICES ASSUME IInv, NEW a \in Asids, NEW va \in UserVAddr, NEW t \in PageTables,
                    NEW foreign \in PTE, vspaceOf[a] # NoRoot
             PROVE  unmap_page_table(a, va, t, foreign) = mem
  BY DEF UnmapPageTableIsVain, unmap_page_table
<1> DEFINE root == vspaceOf[a]
           pte  == mem[root][va[0]]
           walk == unmap_walk(root, va, t, foreign)
<1>1. root \in Roots /\ root \in Tables /\ va[0] \in Index
  BY Addresses DEF IInv, TypeOK, Tables
<1>2. ~ is_pte_table(pte) => pte.ppn \in Frames \cup {KernelPage, PageZero}
  <2>1. mem \in [Tables -> [Index -> PTE]] /\ pte \in PTE
    BY <1>1 DEF IInv, TypeOK
  <2>2. /\ ~ pte.v => pte = pte_invalid
        /\ pte.v /\ pte.rwx => pte.ppn \in Frames \/ pte.ppn = KernelPage
    BY <1>1 DEF IInv, Sound, EntriesLead
  <2>3. pte_invalid.ppn = PageZero
    BY DEF pte_invalid
  <2> HIDE DEF pte
  <2> QED
    BY <2>2, <2>3 DEF is_pte_table
<1>3. t \in Tables
  BY DEF Tables
<1>4. ~ is_pte_table(pte) => pte.ppn \notin Tables /\ pte.ppn # t
  BY <1>2, <1>3, RiscvPageTableAssumption
<1>5. ReadSlot([table |-> root, index |-> va[0]], foreign) = pte
  BY <1>1 DEF ReadSlot, PteAt
<1>6. walk.outcome = "found" => walk.slot.table \notin Tables
  <2>1. CASE is_pte_table(pte)
    <3>1. walk.outcome = "gave up"
      BY <1>5, <2>1 DEF unmap_walk
    <3> QED
      BY <3>1
  <2>2. CASE ~ is_pte_table(pte)
    <3>1. walk.slot = [table |-> pte.ppn, index |-> va[1]]
      BY <1>4, <1>5, <2>2 DEF unmap_walk
    <3> QED
      BY <1>4, <2>2, <3>1
  <2> QED
    BY <2>1, <2>2
<1> QED
  BY <1>6 DEF unmap_page_table

LEMMA UnmapPageTableStep ==
  ASSUME IInv, NEW table \in PageTables, NEW rwx \in BOOLEAN,
         UnmapPageTable(table, [v |-> TRUE, rwx |-> rwx, ppn |-> table])
  PROVE  IInv'
<1> DEFINE foreign == [v |-> TRUE, rwx |-> rwx, ppn |-> table]
           cap == ptCap[table]
<1>1. mem' = [mem EXCEPT ![table] = Blank]
  <2>1. cap \in TableMapping
    BY DEF UnmapPageTable, IInv, TypeOK
  <2>2. cap.asid \in Asids /\ cap.va \in UserVAddr
    BY <2>1 DEF TableMapping
  <2>3. foreign \in PTE
    BY DEF PTE, Pages, Tables
  <2>4. mem' = [unmap_page_table(cap.asid, cap.va, table, foreign) EXCEPT ![table] = Blank]
    BY DEF UnmapPageTable
  <2> HIDE DEF cap, foreign
  <2>5. unmap_page_table(cap.asid, cap.va, table, foreign) = mem
    BY <2>2, <2>3, Vain DEF UnmapPageTableIsVain
  <2> QED
    BY <2>4, <2>5
<1>2. /\ Sound(mem) /\ ptCap' = [ptCap EXCEPT ![table] = NoCap]
      /\ UNCHANGED <<vspaceOf, frameCap, itRoot, booted>> /\ LeftBehind({table})
  BY DEF UnmapPageTable, IInv
<1>3. Sound(mem') /\ \A t \in Tables, i \in Index :
        mem'[t][i] = IF t = table THEN pte_invalid ELSE mem[t][i]
  <2> DEFINE n == [mem EXCEPT ![table] = Blank]
  <2>1. Sound(n) /\ \A t \in Tables, i \in Index :
          n[t][i] = IF t = table THEN pte_invalid ELSE mem[t][i]
    BY <1>2, BlankSound
  <2>2. mem' = n
    BY <1>1
  <2> HIDE DEF n
  <2> QED
    BY <2>1, <2>2
<1>4. \A a : Space(a)' = Space(a)
  BY <1>2 DEF Space
<1>5. SpacesHaveKernel'
  <2>1. \A r \in Roots \cup {KernelRoot} : r \in Tables /\ r # table
    BY RiscvPageTableAssumption DEF Tables
  <2> QED
    BY <1>3, <1>4, <2>1 DEF IInv, SpacesHaveKernel, Half
<1>6. TypeOK' /\ LiveTables' = LiveTables
  BY <1>2, <1>3 DEF IInv, TypeOK, Sound, Memory, LeftBehind, LiveTables, Live
<1> DEFINE K == leftBehind \cup {table}
<1>7. /\ Trees(mem', LiveTables', leftBehind', ptCap')
      /\ \A r \in Roots \cap LiveTables, va \in UserVAddr :
           Clean(mem', leftBehind', r, va) => Clean(mem', K, r, va)
  <2>1. /\ Trees(mem, LiveTables, leftBehind, ptCap) /\ leftBehind \subseteq PageTables
        /\ LiveTables \subseteq Tables /\ PageTables \subseteq Tables
        /\ K \subseteq PageTables /\ leftBehind \subseteq K
    BY LiveIs DEF IInv, TypeOK, Tables
  <2>2. \A t \in LiveTables, i \in Index :
          /\ is_pte_table(mem'[t][i]) => t \in LiveTables /\ mem'[t][i] = mem[t][i]
          /\ is_pte_table(mem[t][i]) => mem[t][i].ppn \in PageTables
    BY <1>2, <1>3, <2>1 DEF Sound, EntriesLead, is_pte_table, pte_invalid
  <2>3. \A t \in PageTables : t \in K \/ (ptCap'[t] = ptCap[t] /\ mem'[t] = mem[t])
    <3>1. \A t \in PageTables : t # table => mem'[t] = mem[t]
      BY <1>1, <1>2, <2>1 DEF Sound, Memory
    <3> QED
      BY <1>2, <3>1 DEF IInv, TypeOK
  <2> HIDE DEF K
  <2>4. Trees(mem', LiveTables', K, ptCap')
    BY <1>6, <2>1, <2>2, <2>3, FewerTrees
  <2>5. K = leftBehind \cup {table}
    BY DEF K
  <2> QED
    BY <1>2, <1>3, <1>6, <2>1, <2>4, <2>5, Remembered
<1>8. SpacesShowCaps'
  <2>1. \A r \in Roots, va \in UserVAddr :
          Reached(mem', r, va) # NoCap /\ Clean(mem', K, r, va)
            => Reached(mem, r, va) = Reached(mem', r, va) /\ Clean(mem, K, r, va)
    <3> SUFFICES ASSUME NEW r \in Roots, NEW va \in UserVAddr,
                        Reached(mem', r, va) # NoCap, Clean(mem', K, r, va)
                 PROVE  Reached(mem, r, va) = Reached(mem', r, va) /\ Clean(mem, K, r, va)
      OBVIOUS
    <3> HIDE DEF K
    <3>1. Sound(mem) /\ table \in PageTables
      BY <1>2
    <3>2. Reached([mem EXCEPT ![table] = Blank], r, va) # NoCap
      BY <1>1
    <3>3. Clean([mem EXCEPT ![table] = Blank], K, r, va)
      BY <1>1
    <3>4. /\ Reached(mem, r, va) = Reached([mem EXCEPT ![table] = Blank], r, va)
          /\ Clean(mem, K, r, va)
      BY ONLY <3>1, <3>2, <3>3, r \in Roots, va \in UserVAddr, BlankShows
    <3> QED
      BY ONLY <3>4, <1>1
  <2>2. \A r \in Roots, va \in UserVAddr : Clean(mem, K, r, va) => Clean(mem, leftBehind, r, va)
    BY DEF Clean
  <2>3. \A a \in Asids, r \in Roots : Space(a) = r => r \in Roots \cap LiveTables
    BY LiveIs DEF IInv
  <2> HIDE DEF K
  <2> QED
    BY <1>2, <1>4, <1>7, <2>1, <2>2, <2>3 DEF IInv, SpacesShowCaps, Says
<1>9. BootFirst' /\ SpacesDiffer'
  BY <1>2 DEF IInv, BootFirst, SpacesDiffer
<1> QED
  BY <1>3, <1>5, <1>6, <1>7, <1>8, <1>9 DEF IInv

LEMMA Inductive == IInv /\ [Next]_vars => IInv'
<1> SUFFICES ASSUME IInv, [Next]_vars PROVE IInv'
  OBVIOUS
<1>1. CASE UNCHANGED vars
  BY <1>1 DEF vars, IInv, TypeOK, BootFirst, SpacesDiffer, SpacesHaveKernel, SpacesShowCaps, Space,
     LiveTables, Live
<1>2. CASE \E r \in Roots : CreateItSpace(r)
  BY <1>2, CreateItSpaceStep
<1>3. CASE \E t \in PageTables, va \in UserVAddr : CreateItPageTable(t, va)
  BY <1>3, CreateItPageTableStep
<1>4. CASE \E f \in Frames, va \in UserVAddr, l \in BOOLEAN : CreateItFrame(f, va, l)
  BY <1>4, CreateItFrameStep
<1>5. CASE FinishBoot
  BY <1>5, FinishBootStep
<1>6. CASE \E a \in Asids, r \in Roots : CreateVSpace(a, r)
  BY <1>6, CreateVSpaceStep
<1>7. CASE \E a \in Asids : DeleteVSpace(a)
  BY <1>7, DeleteVSpaceStep
<1>8. CASE \E t \in PageTables, a \in Asids, va \in UserVAddr : MapPageTable(t, a, va)
  BY <1>8, MapPageTableStep
<1>9. CASE \E f \in Frames, a \in Asids, va \in UserVAddr, n \in Levels, rights \in BOOLEAN :
             MapFrame(f, a, va, n, rights)
  BY <1>9, MapFrameStep
<1>10. CASE \E f \in Frames : UnmapFrame(f)
  BY <1>10, UnmapFrameStep
<1>11. CASE \E t \in PageTables, rwx \in BOOLEAN :
              UnmapPageTable(t, [v |-> TRUE, rwx |-> rwx, ppn |-> t])
  BY <1>11, UnmapPageTableStep
<1>12. CASE \E asids \in SUBSET Asids : DeleteAsidPool(asids)
  BY <1>12, DeleteAsidPoolStep
<1> QED
  BY <1>1, <1>2, <1>3, <1>4, <1>5, <1>6, <1>7, <1>8, <1>9, <1>10, <1>11, <1>12 DEF Next

THEOREM Invariant == Spec => []IInv
BY Initial, Inductive, PTL DEF Spec

------------------------------------------------------------------------------
(* What follows of it.                                                     *)

\* The variables have their types, in particular every entry of every table names
\* a page: nothing lookup_pt_slot follows leads out of memory.
THEOREM TypeCorrect == Spec => []TypeOK
<1>1. IInv => TypeOK
  BY DEF IInv
<1> QED
  BY <1>1, Invariant, PTL

\* For any number of tables and spaces, and through every order of mapping,
\* unmapping and deletion: two entries lead to one table only if unmap_page_table
\* left an entry of it behind.  Of the other tables, what is done through one address
\* space shows in no other.
THEOREM TreesStay == Spec => []TablesFormTrees
<1>1. IInv => TablesFormTrees
  <2> SUFFICES ASSUME IInv, NEW s \in Links, NEW u \in Links
               PROVE  /\ PteAt(s).ppn \in PageTables
                      /\ PteAt(s).ppn = PteAt(u).ppn => s = u \/ PteAt(s).ppn \in leftBehind
    BY DEF TablesFormTrees
  <2>1. /\ s \in [table : Tables, index : Index] /\ u \in [table : Tables, index : Index]
        /\ Live(s.table) /\ Live(u.table) /\ is_pte_table(PteAt(s)) /\ is_pte_table(PteAt(u))
    BY DEF Links
  <2>2. /\ s.table \in Tables /\ s.index \in Index /\ u.table \in Tables /\ u.index \in Index
        /\ s = [table |-> s.table, index |-> s.index]
        /\ u = [table |-> u.table, index |-> u.index]
    BY <2>1
  <2>3. PteAt(s).ppn \in PageTables
    BY <2>1, <2>2 DEF IInv, Sound, EntriesLead, PteAt
  <2>4. s.table \in LiveTables /\ u.table \in LiveTables
    BY <2>1, <2>2 DEF LiveTables
  <2>5. PteAt(s).ppn = PteAt(u).ppn /\ PteAt(s).ppn \notin leftBehind
          => s.table = u.table /\ s.index = u.index
    BY <2>1, <2>2, <2>4 DEF IInv, Trees, OneParent, PteAt
  <2> QED
    BY <2>2, <2>3, <2>5
<1> QED
  BY <1>1, Invariant, PTL

\* Every bound root has the kernel's entries, so that a trap taken in any address
\* space finds the kernel, whatever was mapped and unmapped in it.
THEOREM KernelStays == Spec => []KernelHalfIntact
<1>1. IInv => KernelHalfIntact
  <2> SUFFICES ASSUME IInv, NEW a \in Asids, vspaceOf[a] # NoRoot,
                      NEW i \in KernelIndex .. IndexSize - 1
               PROVE  mem[vspaceOf[a]][i] = mem[KernelRoot][i]
    BY DEF KernelHalfIntact
  <2>1. vspaceOf[a] \in Roots /\ Space(a) = vspaceOf[a]
    BY DEF IInv, TypeOK, BootFirst, Space
  <2>2. i \in Index /\ i >= KernelIndex
    BY RiscvPageTableAssumption DEF Index
  <2> QED
    BY <2>1, <2>2 DEF IInv, SpacesHaveKernel, Half
<1> QED
  BY <1>1, Invariant, PTL

\* The translation of the module is what is reached below the root that is bound.
LEMMA TranslationIs ==
  ASSUME NEW a, NEW va
  PROVE  Translation(a, va) = IF vspaceOf[a] = NoRoot THEN NoCap
                              ELSE Reached(mem, vspaceOf[a], va)
<1>1. lookup_pt_slot(vspaceOf[a], va) = Lookup(mem, vspaceOf[a], va)
  BY Unfold DEF lookup_pt_slot, Walk, PteAt
<1> QED
  BY <1>1 DEF Translation, Reached, PteAt, At

LEMMA TranslationIsNext ==
  ASSUME NEW a, NEW va
  PROVE  Translation(a, va)' = IF vspaceOf'[a] = NoRoot THEN NoCap
                               ELSE Reached(mem', vspaceOf'[a], va)
<1>1. lookup_pt_slot(vspaceOf[a], va)' = Lookup(mem', vspaceOf'[a], va)
  BY Unfold DEF lookup_pt_slot, Walk, PteAt, is_pte_table
<1> QED
  BY <1>1 DEF Translation, Reached, PteAt, At

\* A frame can be reached in a live address space only where its capability says
\* that it is mapped, or through a table that unmap_page_table left behind.  Past
\* those, once unmap_page has run for it, on whichever of its paths, nobody reaches
\* the frame.
THEOREM FramesHaveCaps == Spec => []MappedFrameHasCap
<1>1. IInv => MappedFrameHasCap
  <2> SUFFICES ASSUME IInv, NEW a \in Asids, NEW va \in UserVAddr, Translation(a, va) # NoCap,
                      ~ PassesLeftBehind(a, va)
               PROVE  LET tr == Translation(a, va)
                      IN  frameCap[tr.frame] =
                            [asid |-> a, va |-> AlignDown(va, tr.level), level |-> tr.level]
    BY DEF MappedFrameHasCap
  <2>1. vspaceOf[a] # NoRoot /\ Translation(a, va) = Reached(mem, vspaceOf[a], va)
    BY TranslationIs
  <2>2. vspaceOf[a] \in Roots /\ Space(a) = vspaceOf[a]
    BY <2>1 DEF IInv, TypeOK, BootFirst, Space
  <2>c. Clean(mem, leftBehind, vspaceOf[a], va)
    <3>1. /\ Walk(vspaceOf[a], va)[1] = Turn1(mem, vspaceOf[a], va)
          /\ Walk(vspaceOf[a], va)[2] = Lookup(mem, vspaceOf[a], va)
          /\ 1 \in Levels /\ 2 \in Levels
      BY ONLY LookupIs DEF lookup_pt_slot, Levels
    <3> QED
      BY <3>1 DEF PassesLeftBehind, Clean
  <2>3. Says(frameCap, a, va, Translation(a, va))
    BY <2>1, <2>2, <2>c DEF IInv, SpacesShowCaps
  <2> QED
    BY <2>3 DEF Says
<1> QED
  BY <1>1, Invariant, PTL

\* unmap_page_table leaves every table as it was, for every address and whatever it
\* reads in pages that are no tables: the entry that leads to the table outlives its
\* capability.
THEOREM UnmapPageTableDoesNothing == Spec => []UnmapPageTableIsVain
BY Vain, Invariant, PTL

\* A translation of a live address space ends only when its frame is unmapped by its
\* own capability, when some page table is, or when the space goes.
THEOREM OnlyOwners == Spec => OnlyItsOwnerUnmaps
<1> DEFINE Ends(a, va) ==
             LET tr == Translation(a, va)
             IN  tr # NoCap =>
                   \/ Translation(a, va)' = tr
                   \/ frameCap'[tr.frame] = NoCap
                   \/ vspaceOf'[a] # vspaceOf[a]
                   \/ \E t \in PageTables : ptCap[t] # NoCap /\ ptCap'[t] = NoCap
<1>1. ASSUME IInv, Next, NEW a \in Asids, NEW va \in UserVAddr
      PROVE  Ends(a, va)
  <2> SUFFICES ASSUME Translation(a, va) # NoCap, vspaceOf'[a] = vspaceOf[a]
               PROVE  \/ Translation(a, va)' = Translation(a, va)
                      \/ frameCap'[Translation(a, va).frame] = NoCap
                      \/ \E t \in PageTables : ptCap[t] # NoCap /\ ptCap'[t] = NoCap
    OBVIOUS
  <2>1. PICK r \in Roots : r = vspaceOf[a]
    BY <1>1, TranslationIs DEF IInv, TypeOK
  <2>2. /\ Translation(a, va) = Reached(mem, r, va) /\ Reached(mem, r, va) # NoCap
        /\ Translation(a, va)' = Reached(mem', r, va)
    BY <2>1, TranslationIs, TranslationIsNext, RiscvPageTableAssumption
  <2>3. booted /\ itRoot = NoRoot /\ Sound(mem)
    BY <1>1, <2>1, RiscvPageTableAssumption DEF IInv, BootFirst
  <2>4. CASE UNCHANGED mem
    BY <2>2, <2>4
  <2>5. CASE \E b \in Asids, q \in Roots : CreateVSpace(b, q)
    <3>1. PICK b \in Asids, q \in Roots : CreateVSpace(b, q)
      BY <2>5
    <3>2. r # q /\ mem' = Copy(mem, q)
      BY <2>1, <3>1 DEF CreateVSpace, copyGlobalMappings, Copy
    <3> QED
      BY <2>2, <2>3, <3>2, CopyShows
  <2>6. CASE \E t \in PageTables, b \in Asids, vb \in UserVAddr : MapPageTable(t, b, vb)
    <3>1. PICK t \in PageTables, b \in Asids, vb \in UserVAddr : MapPageTable(t, b, vb)
      BY <2>6
    <3> QED
      BY <1>1, <2>2, <3>1, MapPageTableStep
  <2>7. CASE \E f \in Frames, b \in Asids, vb \in UserVAddr, n \in Levels, rights \in BOOLEAN :
               MapFrame(f, b, vb, n, rights)
    <3>1. PICK f \in Frames, b \in Asids, vb \in UserVAddr, n \in Levels, rights \in BOOLEAN :
            MapFrame(f, b, vb, n, rights)
      BY <2>7
    <3> QED
      BY <1>1, <2>2, <3>1, MapFrameStep
  <2>8. CASE \E f \in Frames : UnmapFrame(f)
    <3>1. PICK f \in Frames : UnmapFrame(f)
      BY <2>8
    <3>2. \/ Reached(mem', r, va) = Reached(mem, r, va)
          \/ Reached(mem, r, va).frame = f
      BY <1>1, <2>2, <3>1, UnmapFrameStep
    <3>3. frameCap'[f] = NoCap
      BY <1>1, <3>1 DEF UnmapFrame, IInv, TypeOK
    <3> QED
      BY <2>2, <3>2, <3>3
  <2>9. CASE \E t \in PageTables, rwx \in BOOLEAN :
               UnmapPageTable(t, [v |-> TRUE, rwx |-> rwx, ppn |-> t])
    <3>1. PICK t \in PageTables, rwx \in BOOLEAN :
            UnmapPageTable(t, [v |-> TRUE, rwx |-> rwx, ppn |-> t])
      BY <2>9
    <3>2. ptCap[t] # NoCap /\ ptCap'[t] = NoCap
      BY <1>1, <3>1 DEF UnmapPageTable, IInv, TypeOK
    <3> QED
      BY <3>2
  <2>10. CASE \/ \E q \in Roots : CreateItSpace(q)
              \/ \E t \in PageTables, vb \in UserVAddr : CreateItPageTable(t, vb)
              \/ \E f \in Frames, vb \in UserVAddr, l \in BOOLEAN : CreateItFrame(f, vb, l)
              \/ FinishBoot
    BY <2>3, <2>10 DEF CreateItSpace, CreateItPageTable, CreateItFrame, FinishBoot
  <2>11. CASE \E b \in Asids : DeleteVSpace(b)
    BY <2>4, <2>11 DEF DeleteVSpace
  <2>12. CASE \E asids \in SUBSET Asids : DeleteAsidPool(asids)
    BY <2>4, <2>12 DEF DeleteAsidPool
  <2> QED
    BY <1>1, <2>5, <2>6, <2>7, <2>8, <2>9, <2>10, <2>11, <2>12 DEF Next
<1>2. IInv /\ [Next]_vars => [\A a \in Asids, va \in UserVAddr : Ends(a, va)]_vars
  BY <1>1
<1>3. Spec => [][\A a \in Asids, va \in UserVAddr : Ends(a, va)]_vars
  BY <1>2, Invariant, PTL DEF Spec
<1> QED
  BY <1>3 DEF OnlyItsOwnerUnmaps

------------------------------------------------------------------------------
(* Where the spaces come from.                                             *)

\* find_vspace_for_asid, as the page tables use it, whatever the pools.
AsidLayer == INSTANCE AsidMap WITH Blocks <- SUBSET Asids

\* The spaces come and go here as AsidMap lets them, which is what the tables and
\* pools of the ASID layer are shown to implement: a space has one ASID, and an
\* ASID keeps to its space until it is deleted.
THEOREM SpacesComeFromTheAsidLayer == Spec => AsidLayer!Spec
<1>1. Init => AsidLayer!Init
  BY DEF Init, AsidLayer!Init
<1>2. ASSUME IInv, [Next]_vars
      PROVE  [AsidLayer!Next]_vspaceOf
  <2>1. ASSUME NEW a \in Asids, NEW r \in Roots, CreateVSpace(a, r)
        PROVE  AsidLayer!Bind(a, r)
    BY <2>1 DEF CreateVSpace, AsidLayer!Bind
  <2>2. ASSUME NEW a \in Asids, DeleteVSpace(a)
        PROVE  AsidLayer!Release(a)
    BY <2>2 DEF DeleteVSpace, AsidLayer!Release
  <2>3. ASSUME NEW asids \in SUBSET Asids, DeleteAsidPool(asids)
        PROVE  AsidLayer!ReleaseBlock(asids)
    BY <2>3 DEF DeleteAsidPool, AsidLayer!ReleaseBlock
  <2>4. CASE FinishBoot
    <3>1. itRoot \in Roots /\ ItAsid \in Asids /\ \A a \in Asids : vspaceOf[a] # itRoot
      BY <1>2, <2>4, RiscvPageTableAssumption
         DEF FinishBoot, IInv, BootFirst, TypeOK
    <3>2. vspaceOf[ItAsid] = NoRoot
      BY <1>2, <2>4, <3>1 DEF FinishBoot, IInv, BootFirst, TypeOK
    <3>3. AsidLayer!Bind(ItAsid, itRoot)
      BY <2>4, <3>1, <3>2 DEF FinishBoot, AsidLayer!Bind
    <3> QED
      BY <3>1, <3>3 DEF AsidLayer!Next
  <2>5. CASE \/ \E r \in Roots : CreateItSpace(r)
             \/ \E t \in PageTables, va \in UserVAddr : CreateItPageTable(t, va)
             \/ \E f \in Frames, va \in UserVAddr, l \in BOOLEAN : CreateItFrame(f, va, l)
             \/ \E t \in PageTables, a \in Asids, va \in UserVAddr : MapPageTable(t, a, va)
             \/ \E f \in Frames, a \in Asids, va \in UserVAddr, n \in Levels, rights \in BOOLEAN :
                  MapFrame(f, a, va, n, rights)
             \/ \E f \in Frames : UnmapFrame(f)
             \/ \E t \in PageTables, rwx \in BOOLEAN :
                  UnmapPageTable(t, [v |-> TRUE, rwx |-> rwx, ppn |-> t])
             \/ UNCHANGED vars
    <3>1. vspaceOf' = vspaceOf
      BY <2>5 DEF CreateItSpace, CreateItPageTable, CreateItFrame, MapPageTable, MapFrame,
         UnmapFrame, UnmapPageTable, vars
    <3> QED
      BY <3>1
  <2> QED
    BY <1>2, <2>1, <2>2, <2>3, <2>4, <2>5 DEF Next, AsidLayer!Next
<1> QED
  BY <1>1, <1>2, Invariant, PTL DEF Spec, AsidLayer!Spec
=============================================================================
