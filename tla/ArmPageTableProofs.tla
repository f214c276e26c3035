------------------------- MODULE ArmPageTableProofs -------------------------
(***************************************************************************)
(* The page tables of AArch64 form trees, a frame is reached only where    *)
(* its capability says, and by an entry of the kind that its level takes,  *)
(* outside of what unmap_page_table leaves behind.                         *)
(*                                                                         *)
(* The proof is about one memory m, or two of them, and no variable: S[a]  *)
(* is the root of the space a, F and P are the capabilities of frames and  *)
(* tables, D the displaced tables and H the unclaimed slots.  An action    *)
(* shows Sound of what it leaves, before anything is healed.               *)
(***************************************************************************)
EXTENDS ArmPageTable, TLAPS

Memory == [Tables -> [Index -> PTE]]

\* The table that the entry leads to, if any.
Below(m, t, i) ==
  IF t # None /\ m[t][i].type = "pte_table" THEN m[t][i].addr ELSE None

\* Walk in the memory m, written down level by level.
Way(m, r, va) ==
  LET first  == Below(m, r, va[0])
      second == Below(m, first, va[1])
      third  == Below(m, second, va[2])
  IN  [n \in Levels |-> IF n = 0 THEN r
                        ELSE IF n = 1 THEN first ELSE IF n = 2 THEN second ELSE third]

\* The address va of the space a passes the table t at level n.
Passes(m, S, a, va, n, t) == Way(m, S[a], va)[n] = t

OneWay(m, S, D) ==
  \A t \in Tables \ D, a, b \in Asids, va, wa \in VAddrs, k, n \in Levels :
    Passes(m, S, a, va, k, t) /\ Passes(m, S, b, wa, n, t)
      => a = b /\ k = n /\ SamePage(va, wa, k - 1)

TableCapsTell(m, S, P, D) ==
  \A t \in PageTables \ D, a \in Asids, va \in VAddrs, n \in Levels :
    Passes(m, S, a, va, n, t)
      => P[t] # None /\ P[t].asid = a /\ SamePage(P[t].va, va, n - 1)

UnusedAreBlank(m, P, D) == \A t \in PageTables \ D : P[t] = None => m[t] = Blank

\* What is displaced, or unclaimed, leads to displaced tables only.
Closed(m, D) ==
  \A t \in D, i \in Index : m[t][i].type = "pte_table" => m[t][i].addr \in D
LeadInto(m, H, D) ==
  \A s \in H : m[s.table][s.index].type = "pte_table" => m[s.table][s.index].addr \in D

\* An entry is of a kind that its level takes, and its frame's capability knows.
Fits(e, F, a, va, n) ==
  /\ e.type = "pte_table" => n < 3
  /\ e.type = "pte_4k_page" => n = 3
  /\ e.type = "pte_page" => n \in {1, 2}
  /\ e.type \in {"pte_page", "pte_4k_page"} =>
       /\ F[e.addr] # None
       /\ F[e.addr].asid = a /\ F[e.addr].level = n /\ SamePage(F[e.addr].va, va, n)

FrameCapsTell(m, S, F, D, H) ==
  \A t \in Tables \ D, a \in Asids, va \in VAddrs, n \in Levels :
    Passes(m, S, a, va, n, t) /\ SlotIn(t, va, n) \notin H => Fits(m[t][va[n]], F, a, va, n)

Sound(m, S, F, P, D, H) ==
  /\ OneWay(m, S, D)
  /\ TableCapsTell(m, S, P, D)
  /\ UnusedAreBlank(m, P, D)
  /\ Closed(m, D) /\ LeadInto(m, H, D)
  /\ FrameCapsTell(m, S, F, D, H)

\* While the boot code runs there is one space, and it has no ASID yet.
Space == [a \in Asids |-> IF itRoot # None /\ a = ItAsid THEN itRoot ELSE vspaceOf[a]]

BootFirst ==
  /\ booted => itRoot = None
  /\ ~ booted => vspaceOf = [a \in Asids |-> None]
  /\ ~ booted /\ itRoot = None => \A r \in Roots : mem[r] = Blank

UnclaimedAreValid == \A s \in unclaimed : mem[s.table][s.index] # pte_invalid

IInv ==
  /\ TypeOK
  /\ BootFirst
  /\ UnclaimedAreValid
  /\ Sound(mem, Space, frameCap, ptCap, displaced, unclaimed)

------------------------------------------------------------------------------
(* Ways through a memory.                                                  *)

LEMMA Objects ==
  /\ None \notin Tables /\ Roots \subseteq Tables /\ PageTables \subseteq Tables
  /\ \A t \in PageTables : t \notin Roots
  /\ \A va \in VAddrs, n \in Levels : va[n] \in Index
  /\ PageZero \notin Frames /\ None \notin Frames
BY ArmPageTableAssumption DEF Tables, Pages

LEMMA Entries ==
  ASSUME NEW m \in Memory, NEW t \in Tables, NEW i \in Index
  PROVE  LET e == m[t][i]
         IN  /\ e \in PTE
             /\ e.type \in {"pte_invalid", "pte_table", "pte_page", "pte_4k_page"}
             /\ e.type = "pte_invalid" <=> e = pte_invalid
             /\ e.type = "pte_table" => e.addr \in PageTables
             /\ e.type \in {"pte_page", "pte_4k_page"} => e.addr \in Frames
<1>1. m[t][i] \in PTE
  BY DEF Memory
<1> QED
  BY <1>1 DEF PTE, pte_invalid

LEMMA WayIs ==
  ASSUME NEW m, NEW r, NEW va
  PROVE  /\ Way(m, r, va)[0] = r
         /\ \A n \in 1 .. 3 : Way(m, r, va)[n] = Below(m, Way(m, r, va)[n - 1], va[n - 1])
         /\ Way(m, r, va) = [n \in Levels |-> Way(m, r, va)[n]]
<1> DEFINE w == Way(m, r, va)
<1>1. /\ w[0] = r /\ w[1] = Below(m, w[0], va[0])
      /\ w[2] = Below(m, w[1], va[1]) /\ w[3] = Below(m, w[2], va[2])
      /\ w = [n \in Levels |-> w[n]]
  BY DEF Way, Levels
<1> HIDE DEF w
<1>2. \A n \in 1 .. 3 : (n = 1 /\ n - 1 = 0) \/ (n = 2 /\ n - 1 = 1) \/ (n = 3 /\ n - 1 = 2)
  OBVIOUS
<1>3. \A n \in 1 .. 3 : w[n] = Below(m, w[n - 1], va[n - 1])
  BY <1>1, <1>2
<1> QED
  BY <1>1, <1>3 DEF w

\* What holds at the root, and at each level if it does one above, holds at all.
LEMMA LevelInduction ==
  ASSUME NEW X, 0 \in X, \A n \in 1 .. 3 : n - 1 \in X => n \in X
  PROVE  \A n \in Levels : n \in X
<1>1. 1 - 1 \in X => 1 \in X
  OBVIOUS
<1>2. 2 - 1 \in X => 2 \in X
  OBVIOUS
<1>3. 3 - 1 \in X => 3 \in X
  OBVIOUS
<1>4. 1 \in X /\ 2 \in X /\ 3 \in X
  BY <1>1, <1>2, <1>3
<1> QED
  BY <1>4 DEF Levels

LEMMA LevelBelow ==
  ASSUME NEW n \in 1 .. 3
  PROVE  n \in Levels /\ n - 1 \in Levels /\ n # 0
BY DEF Levels

LEMMA LevelCases == \A n \in Levels : n = 0 \/ n \in 1 .. 3
BY DEF Levels

\* A table on the way is a root at the top, or a page table that an entry of the
\* table above leads to.
LEMMA Above ==
  ASSUME NEW m \in Memory, NEW r \in Roots \cup {None}, NEW va \in VAddrs,
         NEW n \in 1 .. 3, Way(m, r, va)[n] # None
  PROVE  LET t == Way(m, r, va)[n]
             p == Way(m, r, va)[n - 1]
         IN  /\ p \in Tables /\ t \in PageTables /\ va[n - 1] \in Index
             /\ m[p][va[n - 1]].type = "pte_table" /\ m[p][va[n - 1]].addr = t
<1> DEFINE w == Way(m, r, va)
           X == {k \in Levels : w[k] \in Tables \cup {None} /\ (k > 0 => w[k] \in PageTables \cup {None})}
<1>1. w[0] = r /\ \A k \in 1 .. 3 : w[k] = Below(m, w[k - 1], va[k - 1])
  BY WayIs
<1> HIDE DEF w
<1>2. \A k \in Levels : k \in X
  <2>1. 0 \in X
    BY <1>1, Objects DEF Levels
  <2>2. ASSUME NEW k \in 1 .. 3, k - 1 \in X
        PROVE  k \in X
    <3>1. w[k] = Below(m, w[k - 1], va[k - 1]) /\ k \in Levels /\ k - 1 \in Levels
      BY <1>1, LevelBelow
    <3>2. CASE w[k - 1] = None
      BY <3>1, <3>2 DEF Below
    <3>3. CASE w[k - 1] \in Tables
      <4>1. va[k - 1] \in Index
        BY <3>1, Objects
      <4>2. m[w[k - 1]][va[k - 1]].type = "pte_table"
              => m[w[k - 1]][va[k - 1]].addr \in PageTables
        BY <3>3, <4>1, Entries
      <4> QED
        BY <3>1, <4>2, Objects DEF Below
    <3> QED
      BY <2>2, <3>2, <3>3
  <2> HIDE DEF X
  <2> QED
    BY <2>1, <2>2, LevelInduction
<1>3. n \in Levels /\ n - 1 \in Levels /\ n > 0
  BY LevelBelow
<1>4. w[n] = Below(m, w[n - 1], va[n - 1]) /\ w[n] # None
  BY <1>1 DEF w
<1>5. w[n - 1] # None /\ m[w[n - 1]][va[n - 1]].type = "pte_table"
      /\ w[n] = m[w[n - 1]][va[n - 1]].addr
  BY <1>4 DEF Below
<1>6. w[n - 1] \in Tables /\ w[n] \in PageTables
  BY <1>2, <1>3, <1>4, <1>5
<1> QED
  BY <1>3, <1>5, <1>6, Objects DEF w

\* The other way about: an entry leads on.
LEMMA Under ==
  ASSUME NEW m \in Memory, NEW r \in Roots \cup {None}, NEW va \in VAddrs,
         NEW n \in 1 .. 3, Way(m, r, va)[n - 1] \in Tables,
         m[Way(m, r, va)[n - 1]][va[n - 1]].type = "pte_table"
  PROVE  Way(m, r, va)[n] = m[Way(m, r, va)[n - 1]][va[n - 1]].addr
BY WayIs, Objects DEF Below

LEMMA TopOfWay ==
  ASSUME NEW m \in Memory, NEW r \in Roots \cup {None}, NEW va \in VAddrs,
         NEW n \in Levels, Way(m, r, va)[n] \in Tables
  PROVE  /\ n = 0 => Way(m, r, va)[n] = r /\ r \in Roots
         /\ n # 0 => n \in 1 .. 3 /\ Way(m, r, va)[n] \in PageTables
         /\ Way(m, r, va)[n] \in Roots <=> n = 0
<1>1. Way(m, r, va)[0] = r /\ None \notin Tables
  BY WayIs, Objects
<1>2. n # 0 => n \in 1 .. 3
  BY LevelCases
<1>3. n # 0 => Way(m, r, va)[n] \in PageTables
  BY <1>1, <1>2, Above
<1> QED
  BY <1>1, <1>2, <1>3, Objects

LEMMA SamePageAbove ==
  ASSUME NEW va, NEW wa, NEW n \in Levels, SamePage(va, wa, n)
  PROVE  va[n] = wa[n] /\ SamePage(va, wa, n - 1)
BY DEF SamePage, Levels

\* An address that agrees above a level has the same table there.
LEMMA SamePrefix ==
  ASSUME NEW m, NEW r, NEW va, NEW wa, NEW n \in Levels, SamePage(va, wa, n - 1)
  PROVE  Way(m, r, va)[n] = Way(m, r, wa)[n]
<1> DEFINE v == Way(m, r, va)
           w == Way(m, r, wa)
           X == {k \in Levels : k <= n => v[k] = w[k]}
<1>1. v[0] = r /\ \A k \in 1 .. 3 : v[k] = Below(m, v[k - 1], va[k - 1])
  BY WayIs
<1>2. w[0] = r /\ \A k \in 1 .. 3 : w[k] = Below(m, w[k - 1], wa[k - 1])
  BY WayIs
<1> HIDE DEF v, w
<1>3. ASSUME NEW k \in 1 .. 3, k - 1 \in X
      PROVE  k \in X
  <2>1. k <= n => va[k - 1] = wa[k - 1]
    BY LevelBelow DEF SamePage, Levels
  <2>2. k <= n => v[k - 1] = w[k - 1]
    BY <1>3 DEF Levels
  <2> QED
    BY <1>1, <1>2, <2>1, <2>2, LevelBelow
<1>4. 0 \in X
  BY <1>1, <1>2 DEF Levels
<1> HIDE DEF X
<1>5. n \in X
  BY <1>3, <1>4, LevelInduction
<1> QED
  BY <1>5 DEF X, v, w, Levels

------------------------------------------------------------------------------
(* The model's operators are those of memory mem.                          *)

\* A recursive function is the one that satisfies its equation, if any does; with
\* four levels the one that does can be written down.
LEMMA Unfold ==
  ASSUME NEW m, NEW r, NEW va
  PROVE  LET down[n \in Levels] ==
               IF n = 0 THEN r
               ELSE LET up == down[n - 1]
                    IN  IF up # None /\ m[up][va[n - 1]].type = "pte_table"
                        THEN m[up][va[n - 1]].addr
                        ELSE None
         IN  down = Way(m, r, va)
<1> DEFINE Body(w, n) ==
             IF n = 0 THEN r
             ELSE LET up == w[n - 1]
                  IN  IF up # None /\ m[up][va[n - 1]].type = "pte_table"
                      THEN m[up][va[n - 1]].addr
                      ELSE None
           down == CHOOSE w : w = [n \in Levels |-> Body(w, n)]
           f == Way(m, r, va)
<1>1. \A w : Body(w, 0) = r
  OBVIOUS
<1>2. \A w, n : n \in 1 .. 3 => Body(w, n) = Below(m, w[n - 1], va[n - 1])
  BY DEF Below
<1>3. f[0] = r /\ (\A n \in 1 .. 3 : f[n] = Below(m, f[n - 1], va[n - 1]))
      /\ f = [n \in Levels |-> f[n]]
  BY WayIs
<1> HIDE DEF Body, f
<1>4. \A n \in Levels : f[n] = Body(f, n)
  BY <1>1, <1>2, <1>3, LevelCases
<1>5. f = [n \in Levels |-> Body(f, n)]
  BY <1>3, <1>4
<1>6. down = [n \in Levels |-> Body(down, n)]
  BY <1>5
<1> HIDE DEF down
<1>7. \A n \in Levels : down[n] = Body(down, n)
  BY <1>6
<1>8. \A n \in Levels : n \in {k \in Levels : down[k] = f[k]}
  <2> DEFINE X == {k \in Levels : down[k] = f[k]}
  <2>1. 0 \in X
    BY <1>1, <1>3, <1>7 DEF Levels
  <2>2. ASSUME NEW n \in 1 .. 3, n - 1 \in X
        PROVE  n \in X
    BY <1>2, <1>3, <1>7, <2>2, LevelBelow
  <2> HIDE DEF X
  <2>3. \A n \in Levels : n \in X
    BY <2>1, <2>2, LevelInduction
  <2> QED
    BY <2>3 DEF X
<1>9. down = f
  BY <1>3, <1>6, <1>8
<1> QED
  BY <1>9 DEF down, f, Body

LEMMA WalkIs ==
  ASSUME NEW r, NEW va
  PROVE  Walk(r, va) = Way(mem, r, va)
BY Unfold DEF Walk, get_type, PteAt, SlotIn

LEMMA WalkIsNext ==
  ASSUME NEW r, NEW va
  PROVE  Walk(r, va)' = Way(mem', r, va)
BY Unfold DEF Walk, get_type, PteAt, SlotIn

\* Where a lookup ends: at one level, the deepest that the way gets to.
EndsAt(m, r, va, n) ==
  /\ n \in Levels
  /\ Way(m, r, va)[n] # None
  /\ n = 3 \/ Way(m, r, va)[n + 1] = None

LEMMA OneEnd ==
  ASSUME NEW m, NEW r, NEW va, r # None
  PROVE  /\ \E n : EndsAt(m, r, va, n)
         /\ \A k, n : EndsAt(m, r, va, k) /\ EndsAt(m, r, va, n) => k = n
<1> DEFINE w == Way(m, r, va)
<1>1. /\ w[0] = r
      /\ \A n \in 1 .. 3 : w[n - 1] = None => w[n] = None
  BY WayIs DEF Below
<1> HIDE DEF w
<1>2. /\ w[0] # None
      /\ w[1] = None => w[2] = None
      /\ w[2] = None => w[3] = None
  <2>1. 2 \in 1 .. 3 /\ 3 \in 1 .. 3 /\ 2 - 1 = 1 /\ 3 - 1 = 2
    OBVIOUS
  <2> QED
    BY <1>1, <2>1
<1> DEFINE E(n) == n \in Levels /\ w[n] # None /\ (n = 3 \/ w[n + 1] = None)
<1>3. 0 + 1 = 1 /\ 1 + 1 = 2 /\ 2 + 1 = 3
  OBVIOUS
<1>4. \A n : n \in Levels <=> n \in {0, 1, 2, 3}
  BY DEF Levels
<1>5. /\ E(0) <=> w[1] = None
      /\ E(1) <=> w[1] # None /\ w[2] = None
      /\ E(2) <=> w[2] # None /\ w[3] = None
      /\ E(3) <=> w[3] # None
  BY <1>2, <1>3, <1>4
<1>6. \A n : E(n) => n \in {0, 1, 2, 3}
  BY <1>4
<1> HIDE DEF E
<1>7. \E n : E(n)
  BY <1>2, <1>5
<1>8. \A k, n : E(k) /\ E(n) => k = n
  BY <1>2, <1>5, <1>6
<1> QED
  BY <1>7, <1>8 DEF EndsAt, E, w

LEMMA LookupIs ==
  ASSUME NEW r, NEW va, r # None
  PROVE  LET lu == lookup_pt_slot(r, va)
         IN  /\ EndsAt(mem, r, va, lu.level)
             /\ lu.slot = SlotIn(Way(mem, r, va)[lu.level], va, lu.level)
             /\ lu = [slot |-> lu.slot, level |-> lu.level]
<1> DEFINE level == CHOOSE n \in Levels :
                      Way(mem, r, va)[n] # None /\ (n = 3 \/ Way(mem, r, va)[n + 1] = None)
<1>1. lookup_pt_slot(r, va)
        = [slot |-> SlotIn(Way(mem, r, va)[level], va, level), level |-> level]
  BY WalkIs DEF lookup_pt_slot
<1>2. EndsAt(mem, r, va, level)
  BY OneEnd DEF EndsAt
<1> HIDE DEF level
<1> QED
  BY <1>1, <1>2

LEMMA LookupIsNext ==
  ASSUME NEW r, NEW va, r # None
  PROVE  LET lu == lookup_pt_slot(r, va)'
         IN  /\ EndsAt(mem', r, va, lu.level)
             /\ lu.slot = SlotIn(Way(mem', r, va)[lu.level], va, lu.level)
             /\ lu = [slot |-> lu.slot, level |-> lu.level]
<1> DEFINE level == CHOOSE n \in Levels :
                      Way(mem', r, va)[n] # None /\ (n = 3 \/ Way(mem', r, va)[n + 1] = None)
<1>1. lookup_pt_slot(r, va)'
        = [slot |-> SlotIn(Way(mem', r, va)[level], va, level), level |-> level]
  BY WalkIsNext DEF lookup_pt_slot, SlotIn
<1>2. EndsAt(mem', r, va, level)
  BY OneEnd DEF EndsAt
<1> HIDE DEF level
<1> QED
  BY <1>1, <1>2

\* The slot where a lookup ends is one of memory, and its entry leads no further.
LEMMA EndIsSlot ==
  ASSUME NEW m \in Memory, NEW r \in Roots \cup {None}, NEW va \in VAddrs, NEW n,
         EndsAt(m, r, va, n)
  PROVE  LET t == Way(m, r, va)[n]
         IN  /\ n \in Levels /\ t \in Tables /\ va[n] \in Index
             /\ n # 0 => t \in PageTables
             /\ n = 0 => t \in Roots
             /\ m[t][va[n]].type = "pte_table" => n = 3
<1>1. n \in Levels /\ Way(m, r, va)[n] # None
  BY DEF EndsAt
<1>2. n = 0 => Way(m, r, va)[n] \in Roots
  BY <1>1, WayIs, Objects
<1>3. n # 0 => Way(m, r, va)[n] \in PageTables
  BY <1>1, LevelCases, Above
<1>4. Way(m, r, va)[n] \in Tables /\ va[n] \in Index
  BY <1>1, <1>2, <1>3, Objects
<1>5. ASSUME n # 3, m[Way(m, r, va)[n]][va[n]].type = "pte_table"
      PROVE  FALSE
  <2>1. n + 1 \in 1 .. 3 /\ (n + 1) - 1 = n
    BY <1>1, <1>5 DEF Levels
  <2>2. ASSUME NEW k \in 1 .. 3, k - 1 = n
        PROVE  Way(m, r, va)[k] = m[Way(m, r, va)[n]][va[n]].addr
    BY <1>4, <1>5, <2>2, Under
  <2>3. Way(m, r, va)[n + 1] = m[Way(m, r, va)[n]][va[n]].addr
    BY <2>1, <2>2
  <2>4. Way(m, r, va)[n + 1] \in PageTables
    BY <1>4, <1>5, <2>3, Entries
  <2> QED
    BY <1>5, <2>4, Objects DEF EndsAt
<1> QED
  BY <1>1, <1>2, <1>3, <1>4, <1>5

------------------------------------------------------------------------------
(* What healing takes out of the history matters to nothing that is Sound.  *)

LEMMA Heal ==
  ASSUME NEW m \in Memory, NEW S \in [Asids -> Roots \cup {None}], NEW F, NEW P,
         NEW D \in SUBSET PageTables, NEW H \in SUBSET Slots,
         Sound(m, S, F, P, D, H)
  PROVE  Sound(m, S, F, P,
               {t \in D : m[t] # Blank \/ \E s \in Slots : m[s.table][s.index] = pte_new_table(t)},
               {s \in H : m[s.table][s.index] # pte_invalid})
<1> DEFINE Led(t) == \E s \in Slots : m[s.table][s.index] = pte_new_table(t)
           D2 == {t \in D : m[t] # Blank \/ Led(t)}
           H2 == {s \in H : m[s.table][s.index] # pte_invalid}
<1>1. /\ OneWay(m, S, D) /\ TableCapsTell(m, S, P, D) /\ UnusedAreBlank(m, P, D)
      /\ Closed(m, D) /\ LeadInto(m, H, D) /\ FrameCapsTell(m, S, F, D, H)
  BY DEF Sound
<1>2. ASSUME NEW t \in Tables, NEW i \in Index, m[t][i].type = "pte_table"
      PROVE  Led(m[t][i].addr)
  <2>1. m[t][i] = pte_new_table(m[t][i].addr)
    <3>1. m[t][i] \in PTE
      BY Entries
    <3> QED
      BY <1>2, <3>1 DEF PTE, pte_new_table
  <2>2. [table |-> t, index |-> i] \in Slots
    BY DEF Slots
  <2> QED
    BY <2>1, <2>2
<1> HIDE DEF Led
<1>3. ASSUME NEW t \in Tables \ D2, NEW a \in Asids, NEW va \in VAddrs, NEW n \in Levels,
             Passes(m, S, a, va, n, t)
      PROVE  t \notin D
  <2>1. S[a] \in Roots \cup {None} /\ Way(m, S[a], va)[n] = t /\ t # None
    BY <1>3, Objects DEF Passes
  <2>2. CASE n = 0
    BY <2>1, <2>2, TopOfWay, Objects
  <2>3. CASE n # 0
    <3>1. n \in 1 .. 3
      BY <2>3, LevelCases
    <3>2. LET p == Way(m, S[a], va)[n - 1]
          IN  /\ p \in Tables /\ va[n - 1] \in Index
              /\ m[p][va[n - 1]].type = "pte_table" /\ m[p][va[n - 1]].addr = t
      BY <2>1, <3>1, Above
    <3>3. Led(t)
      BY <1>2, <3>2
    <3> QED
      BY <3>3
  <2> QED
    BY <2>2, <2>3
<1>4. OneWay(m, S, D2)
  BY <1>1, <1>3 DEF OneWay
<1>5. TableCapsTell(m, S, P, D2)
  BY <1>1, <1>3, Objects DEF TableCapsTell
<1>6. UnusedAreBlank(m, P, D2)
  BY <1>1 DEF UnusedAreBlank
<1>7. Closed(m, D2)
  BY <1>1, <1>2, Objects DEF Closed
<1>8. LeadInto(m, H2, D2)
  <2>1. \A s \in H : s.table \in Tables /\ s.index \in Index
    BY DEF Slots
  <2> QED
    BY <1>1, <1>2, <2>1 DEF LeadInto
<1>9. FrameCapsTell(m, S, F, D2, H2)
  <2> SUFFICES ASSUME NEW t \in Tables \ D2, NEW a \in Asids, NEW va \in VAddrs, NEW n \in Levels,
                      Passes(m, S, a, va, n, t), SlotIn(t, va, n) \notin H2
               PROVE  Fits(m[t][va[n]], F, a, va, n)
    BY DEF FrameCapsTell
  <2>1. t \notin D
    BY <1>3
  <2>2. CASE SlotIn(t, va, n) \notin H
    BY <1>1, <2>1, <2>2 DEF FrameCapsTell
  <2>3. CASE SlotIn(t, va, n) \in H
    <3>1. m[t][va[n]] = pte_invalid
      BY <2>3 DEF SlotIn
    <3> QED
      BY <3>1 DEF Fits, pte_invalid
  <2> QED
    BY <2>2, <2>3
<1> HIDE DEF D2, H2
<1>10. Sound(m, S, F, P, D2, H2)
  BY <1>4, <1>5, <1>6, <1>7, <1>8, <1>9 DEF Sound
<1> QED
  BY <1>10 DEF D2, H2, Led

LEMMA SpreadIs ==
  ASSUME mem' \in Memory, NEW X \in SUBSET PageTables
  PROVE  /\ Spread(X) \in SUBSET PageTables
         /\ X \subseteq Spread(X)
         /\ Closed(mem', Spread(X))
<1>1. Spread(X) \in SUBSET PageTables /\ X \subseteq Spread(X)
  BY DEF Spread
<1>2. ASSUME NEW t \in Spread(X), NEW i \in Index, mem'[t][i].type = "pte_table"
      PROVE  mem'[t][i].addr \in Spread(X)
  <2>1. t \in Tables
    BY <1>1, Objects
  <2>2. mem'[t][i].addr \in PageTables
    BY <1>2, <2>1, Entries
  <2>3. ASSUME NEW Y \in SUBSET PageTables, X \subseteq Y /\ LeadsInto(Y)
        PROVE  mem'[t][i].addr \in Y
    <3>1. t \in Y
      BY <2>3 DEF Spread
    <3> QED
      BY <1>2, <2>3, <3>1 DEF LeadsInto
  <2> QED
    BY <2>2, <2>3 DEF Spread
<1> QED
  BY <1>1, <1>2 DEF Closed

\* An action shows Sound with every set of displaced tables that is closed.
LEMMA Healed ==
  ASSUME mem' \in Memory, displaced \in SUBSET PageTables,
         NEW S \in [Asids -> Roots \cup {None}], NEW F, NEW P,
         NEW slots \in SUBSET Slots, NEW tables \in SUBSET PageTables,
         LeftBehind(slots, tables),
         \A D \in SUBSET PageTables :
           displaced \cup tables \subseteq D /\ Closed(mem', D)
             => Sound(mem', S, F, P, D, slots)
  PROVE  /\ displaced' \subseteq PageTables /\ unclaimed' \subseteq Slots
         /\ UnclaimedAreValid'
         /\ Sound(mem', S, F, P, displaced', unclaimed')
<1> DEFINE D == Spread(displaced \cup tables)
           H == slots
<1>1. D \in SUBSET PageTables /\ displaced \cup tables \subseteq D /\ Closed(mem', D)
  BY SpreadIs
<1>2. /\ unclaimed' = {s \in H : mem'[s.table][s.index] # pte_invalid}
      /\ displaced' = {t \in D : \/ mem'[t] # Blank
                                 \/ \E s \in Slots : mem'[s.table][s.index] = pte_new_table(t)}
  BY DEF LeftBehind, Leads
<1> HIDE DEF D
<1>3. Sound(mem', S, F, P, D, H)
  BY <1>1
<1>4. H \in SUBSET Slots
  OBVIOUS
<1> HIDE DEF H
<1>5. Sound(mem', S, F, P, displaced', unclaimed')
  BY <1>1, <1>2, <1>3, <1>4, Heal
<1>6. UnclaimedAreValid'
  BY <1>2 DEF UnclaimedAreValid, pte_invalid
<1> QED
  BY <1>1, <1>2, <1>4, <1>5, <1>6

------------------------------------------------------------------------------
(* What a write leaves Sound.                                              *)

Put(m, t, i, e) == [m EXCEPT ![t][i] = e]

LEMMA PutIs ==
  ASSUME NEW m \in Memory, NEW t \in Tables, NEW i \in Index, NEW e \in PTE
  PROVE  /\ Put(m, t, i, e) \in Memory
         /\ Put(m, t, i, e)[t][i] = e
         /\ \A u \in Tables, j \in Index :
              u # t \/ j # i => Put(m, t, i, e)[u][j] = m[u][j]
         /\ \A u \in Tables : u # t => Put(m, t, i, e)[u] = m[u]
BY DEF Put, Memory

\* A write that makes no new link, but into displaced tables, makes no new way.
LEMMA FewerWays ==
  ASSUME NEW m \in Memory, NEW w \in Memory, NEW r \in Roots \cup {None},
         NEW D \in SUBSET PageTables, Closed(w, D),
         \A t \in Tables \ D, i \in Index :
           w[t][i].type = "pte_table" /\ w[t][i].addr \notin D => w[t][i] = m[t][i],
         NEW va \in VAddrs, NEW n \in Levels, NEW t \in Tables \ D, Way(w, r, va)[n] = t
  PROVE  Way(m, r, va)[n] = t
<1> DEFINE x == Way(w, r, va)
           y == Way(m, r, va)
           X == {k \in Levels : x[k] \in Tables \ D => y[k] = x[k]}
<1>1. x[0] = r /\ y[0] = r
  BY WayIs
<1>2. ASSUME NEW k \in 1 .. 3, k - 1 \in X, x[k] \in Tables \ D
      PROVE  y[k] = x[k]
  <2> DEFINE p == x[k - 1]
  <2>1. /\ p \in Tables /\ x[k] \in PageTables /\ va[k - 1] \in Index
        /\ w[p][va[k - 1]].type = "pte_table" /\ w[p][va[k - 1]].addr = x[k]
    BY <1>2, Above, Objects
  <2>2. p \notin D
    BY <1>2, <2>1 DEF Closed
  <2>3. y[k - 1] = p
    BY <1>2, <2>1, <2>2
  <2>4. w[p][va[k - 1]] = m[p][va[k - 1]]
    BY <1>2, <2>1, <2>2
  <2>5. y[k] = m[p][va[k - 1]].addr
    <3>1. y[k - 1] \in Tables /\ m[y[k - 1]][va[k - 1]].type = "pte_table"
      BY <2>1, <2>3, <2>4
    <3> HIDE DEF p
    <3> QED
      BY <2>3, <3>1, Under
  <2> QED
    BY <2>1, <2>4, <2>5
<1> HIDE DEF x, y
<1>3. ASSUME NEW k \in 1 .. 3, k - 1 \in X
      PROVE  k \in X
  BY <1>2, <1>3, LevelBelow
<1>4. 0 \in X
  BY <1>1 DEF Levels
<1> HIDE DEF X
<1>5. n \in X
  BY <1>3, <1>4, LevelInduction
<1> QED
  BY <1>5 DEF X, x, y

\* An entry that leads no further is where the lookup ends.
LEMMA LeafEnds ==
  ASSUME NEW m \in Memory, NEW r \in Roots \cup {None}, NEW va \in VAddrs, NEW n \in Levels,
         Way(m, r, va)[n] \in Tables,
         m[Way(m, r, va)[n]][va[n]].type # "pte_table"
  PROVE  EndsAt(m, r, va, n)
<1>1. ASSUME n # 3, Way(m, r, va)[n + 1] # None
      PROVE  FALSE
  <2>1. n + 1 \in 1 .. 3 /\ (n + 1) - 1 = n
    BY <1>1 DEF Levels
  <2>2. m[Way(m, r, va)[n]][va[n]].type = "pte_table"
    BY <1>1, <2>1, Above
  <2> QED
    BY <2>2
<1> QED
  BY <1>1, Objects DEF EndsAt

\* Two addresses that pass one table and have one slot there share its page.
LEMMA OneSlot ==
  ASSUME NEW m, NEW S, NEW D, OneWay(m, S, D),
         NEW t \in Tables \ D, NEW a \in Asids, NEW b \in Asids,
         NEW va \in VAddrs, NEW wa \in VAddrs, NEW k \in Levels, NEW n \in Levels,
         Passes(m, S, a, va, k, t), Passes(m, S, b, wa, n, t), va[k] = wa[n]
  PROVE  a = b /\ k = n /\ SamePage(va, wa, k)
<1>1. a = b /\ k = n /\ SamePage(va, wa, k - 1)
  BY DEF OneWay
<1>2. \A l \in Levels : l <= k => l = k \/ l <= k - 1
  BY DEF Levels
<1> QED
  BY <1>1, <1>2 DEF SamePage

\* A frame is mapped where a lookup ends, by the entry of that level.  Unless its
\* capability tells of this level the slot is in X, and unclaimed from now on.
LEMMA LeafSound ==
  ASSUME NEW m \in Memory, NEW S \in [Asids -> Roots \cup {None}],
         NEW F \in [Frames -> FrameMapping \cup {None}], NEW P,
         NEW D \in SUBSET PageTables, NEW H \in SUBSET Slots, Sound(m, S, F, P, D, H),
         NEW a \in Asids, NEW va \in VAddrs, NEW n, EndsAt(m, S[a], va, n),
         n # 0, NEW f \in Frames, NEW l \in Levels,
         F[f] \in {None, [asid |-> a, va |-> va, level |-> l]},
         NEW w, w = Put(m, Way(m, S[a], va)[n], va[n], make_user_pte(f, n)),
         NEW X \in SUBSET {SlotIn(Way(m, S[a], va)[n], va, n)}, l # n => X # {},
         NEW D2 \in SUBSET PageTables, D \subseteq D2, Closed(w, D2)
  PROVE  Sound(w, S, [F EXCEPT ![f] = [asid |-> a, va |-> va, level |-> l]], P, D2,
               (H \ {SlotIn(Way(m, S[a], va)[n], va, n)}) \cup X)
<1> DEFINE t == Way(m, S[a], va)[n]
           e == make_user_pte(f, n)
           cap == [asid |-> a, va |-> va, level |-> l]
           F2 == [F EXCEPT ![f] = cap]
           H2 == (H \ {SlotIn(t, va, n)}) \cup X
<1>0. /\ e \in PTE /\ e.addr = f
      /\ (e.type = "pte_4k_page" /\ n = 3) \/ (e.type = "pte_page" /\ n \in {1, 2})
  <2>1. n \in {1, 2, 3}
    BY DEF EndsAt, Levels
  <2> QED
    BY <2>1 DEF make_user_pte, pte_new_4k_page, pte_new_page, PTE
<1>1. /\ OneWay(m, S, D) /\ TableCapsTell(m, S, P, D) /\ UnusedAreBlank(m, P, D)
      /\ Closed(m, D) /\ LeadInto(m, H, D) /\ FrameCapsTell(m, S, F, D, H)
  BY DEF Sound
<1>2. \A b \in Asids : S[b] \in Roots \cup {None}
  OBVIOUS
<1>3. n \in Levels /\ t \in Tables /\ va[n] \in Index
      /\ (n = 0 => t \in Roots)
  BY <1>2, EndIsSlot
<1>4. Passes(m, S, a, va, n, t)
  BY DEF Passes
<1> HIDE DEF t, e
<1>5. /\ w \in Memory /\ w[t][va[n]] = e
      /\ \A u \in Tables, j \in Index : u # t \/ j # va[n] => w[u][j] = m[u][j]
      /\ \A u \in Tables : u # t => w[u] = m[u]
  BY <1>0, <1>3, PutIs DEF t, e
<1>6. \A u \in Tables, j \in Index : w[u][j].type = "pte_table" => w[u][j] = m[u][j]
  BY <1>0, <1>3, <1>5
<1>7. ASSUME NEW u \in Tables \ D2, NEW b \in Asids, NEW wa \in VAddrs, NEW k \in Levels,
             Passes(w, S, b, wa, k, u)
      PROVE  Passes(m, S, b, wa, k, u) /\ u \in Tables \ D
  <2>1. S[b] \in Roots \cup {None} /\ Way(w, S[b], wa)[k] = u
    BY <1>2, <1>7 DEF Passes
  <2>2. \A x \in Tables \ D2, i \in Index :
          w[x][i].type = "pte_table" /\ w[x][i].addr \notin D2 => w[x][i] = m[x][i]
    BY <1>6
  <2>3. Way(m, S[b], wa)[k] = u
    BY ONLY <1>5, <1>7, <2>1, <2>2, FewerWays, Closed(w, D2), m \in Memory,
            D2 \in SUBSET PageTables
  <2> QED
    BY <2>3 DEF Passes
<1>8. OneWay(w, S, D2)
  BY <1>1, <1>7 DEF OneWay
<1>9. TableCapsTell(w, S, P, D2)
  BY <1>1, <1>7, Objects DEF TableCapsTell
<1>10. UnusedAreBlank(w, P, D2)
  <2> SUFFICES ASSUME NEW u \in PageTables \ D2, P[u] = None
               PROVE  w[u] = Blank
    BY DEF UnusedAreBlank
  <2>1. m[u] = Blank
    BY <1>1 DEF UnusedAreBlank
  <2>2. u # t
    BY <1>1, <1>3, <1>4 DEF TableCapsTell
  <2> QED
    BY <1>5, <2>1, <2>2, Objects
<1>11. LeadInto(w, H2, D2)
  <2> SUFFICES ASSUME NEW s \in H2, w[s.table][s.index].type = "pte_table"
               PROVE  w[s.table][s.index].addr \in D2
    BY DEF LeadInto
  <2>1. s \in H \/ s = SlotIn(t, va, n)
    BY DEF t
  <2>2. s # SlotIn(t, va, n)
    BY <1>0, <1>5 DEF SlotIn
  <2>3. s \in H /\ s.table \in Tables /\ s.index \in Index
    BY <2>1, <2>2 DEF Slots
  <2> HIDE DEF H2
  <2> QED
    BY <1>1, <1>6, <2>3 DEF LeadInto
<1>12. FrameCapsTell(w, S, F2, D2, H2)
  <2> SUFFICES ASSUME NEW u \in Tables \ D2, NEW b \in Asids, NEW wa \in VAddrs, NEW k \in Levels,
                      Passes(w, S, b, wa, k, u), SlotIn(u, wa, k) \notin H2
               PROVE  Fits(w[u][wa[k]], F2, b, wa, k)
    BY DEF FrameCapsTell
  <2>1. Passes(m, S, b, wa, k, u) /\ u \in Tables \ D /\ wa[k] \in Index
    BY <1>7, Objects
  <2>2. /\ SlotIn(u, wa, k) \notin X
        /\ SlotIn(u, wa, k) \in H => SlotIn(u, wa, k) = SlotIn(t, va, n)
    OBVIOUS
  <2>3. /\ F2[f] = cap /\ cap # None /\ F[f] \in {None, cap}
        /\ \A g \in Frames : g # f => F2[g] = F[g]
    <3>1. cap \in FrameMapping
      BY <1>3 DEF FrameMapping
    <3> QED
      BY <3>1, ArmPageTableAssumption
  <2>4. CASE u = t /\ wa[k] = va[n]
    <3>1. a = b /\ n = k /\ SamePage(va, wa, n)
      BY <1>1, <1>3, <1>4, <2>1, <2>4, OneSlot
    <3>2. w[u][wa[k]] = e
      BY <1>5, <2>4
    <3>3. SlotIn(u, wa, k) = SlotIn(t, va, n)
      BY <2>4 DEF SlotIn
    <3>4. l = n
      BY <2>2, <3>3 DEF t
    <3>5. F2[f] = cap /\ cap # None /\ cap.asid = b /\ cap.level = k /\ SamePage(cap.va, wa, k)
      BY <2>3, <3>1, <3>4
    <3> HIDE DEF F2, cap
    <3> QED
      BY ONLY <1>0, <3>1, <3>2, <3>5 DEF Fits
  <2>5. CASE ~ (u = t /\ wa[k] = va[n])
    <3>1. w[u][wa[k]] = m[u][wa[k]]
      BY <1>5, <2>1, <2>5
    <3>2. m[u][wa[k]].type \in {"pte_page", "pte_4k_page"} => m[u][wa[k]].addr \in Frames
      BY <2>1, Entries
    <3>3. SlotIn(u, wa, k) \notin H
      BY <2>2, <2>5 DEF SlotIn
    <3>4. Fits(m[u][wa[k]], F, b, wa, k)
      BY <1>1, <2>1, <3>3 DEF FrameCapsTell
    <3> HIDE DEF F2, cap
    <3> QED
      BY <2>3, <3>1, <3>2, <3>4 DEF Fits
  <2> QED
    BY <2>4, <2>5
<1> QED
  BY <1>8, <1>9, <1>10, <1>11, <1>12 DEF Sound, t

\* The ways after a table is linked: the earlier ones, and one into the table.
LEMMA LinkWays ==
  ASSUME NEW m \in Memory, NEW S \in [Asids -> Roots \cup {None}], NEW P,
         NEW D \in SUBSET PageTables,
         OneWay(m, S, D), TableCapsTell(m, S, P, D), UnusedAreBlank(m, P, D),
         NEW a \in Asids, NEW va \in VAddrs, NEW n, EndsAt(m, S[a], va, n),
         NEW u \in PageTables, P[u] = None,
         NEW w \in Memory, w = Put(m, Way(m, S[a], va)[n], va[n], pte_new_table(u)),
         NEW D2 \in SUBSET PageTables, D \subseteq D2, Closed(w, D2),
         NEW b \in Asids, NEW wa \in VAddrs, NEW l \in Levels, NEW x \in Tables \ D2,
         Passes(w, S, b, wa, l, x)
  PROVE  \/ Passes(m, S, b, wa, l, x)
         \/ x = u /\ b = a /\ l = n + 1 /\ SamePage(va, wa, n)
<1> DEFINE t == Way(m, S[a], va)[n]
           new == Way(w, S[b], wa)
           old == Way(m, S[b], wa)
           Into(k) == new[k] = u /\ b = a /\ k = n + 1 /\ SamePage(va, wa, n)
           X == {k \in Levels : new[k] \in Tables \ D2 => old[k] = new[k] \/ Into(k)}
<1>1. S[a] \in Roots \cup {None} /\ S[b] \in Roots \cup {None}
  OBVIOUS
<1>2. /\ n \in Levels /\ t \in Tables /\ va[n] \in Index
      /\ (n = 0 => t \in Roots)
  BY <1>1, EndIsSlot
<1>3. Passes(m, S, a, va, n, t)
  BY DEF Passes
<1>4. new[0] = S[b] /\ old[0] = S[b]
  BY WayIs
<1>5. pte_new_table(u) \in PTE
  BY DEF PTE, pte_new_table
<1> HIDE DEF t
<1>6. /\ w[t][va[n]] = pte_new_table(u)
      /\ \A y \in Tables, j \in Index : y # t \/ j # va[n] => w[y][j] = m[y][j]
      /\ \A y \in Tables : y # t => w[y] = m[y]
  BY <1>2, <1>5, PutIs DEF t
<1>7. ASSUME u \notin D2
      PROVE  \A i \in Index : w[u][i].type # "pte_table"
  <2>1. u # t
    BY <1>2, <1>3, <1>7 DEF TableCapsTell
  <2>2. m[u] = Blank
    BY <1>7 DEF UnusedAreBlank
  <2> QED
    BY <1>6, <2>1, <2>2, Objects DEF Blank, pte_invalid
<1>8. ASSUME NEW k \in 1 .. 3, k - 1 \in X, new[k] \in Tables \ D2
      PROVE  old[k] = new[k] \/ Into(k)
  <2> DEFINE p == new[k - 1]
  <2>1. /\ p \in Tables /\ new[k] \in PageTables /\ wa[k - 1] \in Index
        /\ w[p][wa[k - 1]].type = "pte_table" /\ w[p][wa[k - 1]].addr = new[k]
    <3>1. new[k] # None
      BY ONLY <1>8, Objects
    <3> QED
      BY ONLY <1>1, w \in Memory, <3>1, k \in 1 .. 3, wa \in VAddrs, Above
  <2>2. p \notin D2 /\ k - 1 \in Levels
    BY <1>8, <2>1, LevelBelow DEF Closed
  <2>3. p # u
    BY <1>7, <2>1, <2>2
  <2>4. old[k - 1] = p
    BY <1>8, <2>1, <2>2, <2>3
  <2>5. Passes(m, S, b, wa, k - 1, p)
    BY <2>4 DEF Passes
  <2> HIDE DEF p, new
  <2>6. CASE p = t /\ wa[k - 1] = va[n]
    <3>1. a = b /\ n = k - 1 /\ SamePage(va, wa, n)
      BY <1>2, <1>3, <2>1, <2>2, <2>5, <2>6, OneSlot
    <3>2. new[k] = u
      BY <1>6, <2>1, <2>6 DEF pte_new_table
    <3>3. k = n + 1
      BY <3>1
    <3> QED
      BY <3>1, <3>2, <3>3
  <2>7. CASE ~ (p = t /\ wa[k - 1] = va[n])
    <3>1. w[p][wa[k - 1]] = m[p][wa[k - 1]]
      BY <1>6, <2>1, <2>7
    <3>2. old[k - 1] \in Tables /\ m[old[k - 1]][wa[k - 1]].type = "pte_table"
      BY <2>1, <2>4, <3>1
    <3>3. old[k] = Below(m, old[k - 1], wa[k - 1])
      BY WayIs
    <3> HIDE DEF old
    <3> QED
      BY <2>1, <2>4, <3>1, <3>2, <3>3, Objects DEF Below
  <2> QED
    BY <2>6, <2>7
<1> HIDE DEF new, old, Into
<1>9. ASSUME NEW k \in 1 .. 3, k - 1 \in X
      PROVE  k \in X
  BY <1>8, <1>9, LevelBelow
<1>10. 0 \in X
  BY <1>4 DEF Levels
<1> HIDE DEF X
<1>11. l \in X
  BY <1>9, <1>10, LevelInduction
<1>12. new[l] = x
  BY DEF Passes, new
<1>13. old[l] = x \/ Into(l)
  BY <1>11, <1>12 DEF X
<1> QED
  BY <1>12, <1>13 DEF Into, old, Passes

\* A table is linked at an empty slot.
LEMMA LinkSound ==
  ASSUME NEW m \in Memory, NEW S \in [Asids -> Roots \cup {None}], NEW F,
         NEW P \in [PageTables -> TableMapping \cup {None}],
         NEW D \in SUBSET PageTables, NEW H \in SUBSET Slots, Sound(m, S, F, P, D, H),
         \A s \in H : m[s.table][s.index] # pte_invalid,
         NEW a \in Asids, NEW va \in VAddrs, NEW n, EndsAt(m, S[a], va, n), n # 3,
         m[Way(m, S[a], va)[n]][va[n]] = pte_invalid,
         NEW u \in PageTables, P[u] = None,
         NEW w, w = Put(m, Way(m, S[a], va)[n], va[n], pte_new_table(u)),
         NEW D2 \in SUBSET PageTables, D \subseteq D2, Closed(w, D2)
  PROVE  Sound(w, S, F, [P EXCEPT ![u] = [asid |-> a, va |-> va]], D2, H)
<1> DEFINE t == Way(m, S[a], va)[n]
           cap == [asid |-> a, va |-> va]
           P2 == [P EXCEPT ![u] = cap]
           Into(b, wa, k, x) == x = u /\ b = a /\ k = n + 1 /\ SamePage(va, wa, n)
<1>1. /\ OneWay(m, S, D) /\ TableCapsTell(m, S, P, D) /\ UnusedAreBlank(m, P, D)
      /\ Closed(m, D) /\ LeadInto(m, H, D) /\ FrameCapsTell(m, S, F, D, H)
  BY DEF Sound
<1>2. \A b \in Asids : S[b] \in Roots \cup {None}
  OBVIOUS
<1>3. /\ n \in Levels /\ t \in Tables /\ va[n] \in Index
      /\ (n = 0 => t \in Roots)
  BY <1>2, EndIsSlot
<1>4. Passes(m, S, a, va, n, t)
  BY DEF Passes
<1>5. pte_new_table(u) \in PTE
  BY DEF PTE, pte_new_table
<1>6. m[t][va[n]] = pte_invalid
  OBVIOUS
<1> HIDE DEF t
<1>7. /\ w \in Memory /\ w[t][va[n]] = pte_new_table(u)
      /\ \A y \in Tables, j \in Index : y # t \/ j # va[n] => w[y][j] = m[y][j]
      /\ \A y \in Tables : y # t => w[y] = m[y]
  BY <1>3, <1>5, PutIs DEF t
<1>8. ASSUME NEW x \in Tables \ D2, NEW b \in Asids, NEW wa \in VAddrs, NEW k \in Levels,
             Passes(w, S, b, wa, k, x)
      PROVE  x \in Tables \ D /\ (Passes(m, S, b, wa, k, x) \/ Into(b, wa, k, x))
  BY <1>1, <1>7, <1>8, LinkWays
<1>9. ASSUME NEW b \in Asids, NEW wa \in VAddrs, NEW k \in Levels, Passes(m, S, b, wa, k, u)
      PROVE  u \in D
  BY <1>1, <1>9 DEF TableCapsTell
<1>10. cap \in TableMapping /\ cap # None
  <2>1. cap \in TableMapping
    BY DEF TableMapping
  <2> QED
    BY <2>1, ArmPageTableAssumption
<1>11. P2[u] = cap /\ \A x \in PageTables : x # u => P2[x] = P[x]
  OBVIOUS
<1>12. (n + 1) - 1 = n
  BY <1>3 DEF Levels
<1> HIDE DEF Into
<1>13. OneWay(w, S, D2)
  <2> SUFFICES ASSUME NEW x \in Tables \ D2, NEW b \in Asids, NEW c \in Asids,
                      NEW vb \in VAddrs, NEW vc \in VAddrs, NEW j \in Levels, NEW k \in Levels,
                      Passes(w, S, b, vb, j, x), Passes(w, S, c, vc, k, x)
               PROVE  b = c /\ j = k /\ SamePage(vb, vc, j - 1)
    BY DEF OneWay
  <2>1. x \in Tables \ D
        /\ (Passes(m, S, b, vb, j, x) \/ Into(b, vb, j, x))
        /\ (Passes(m, S, c, vc, k, x) \/ Into(c, vc, k, x))
    BY <1>8
  <2>2. CASE Passes(m, S, b, vb, j, x) /\ Passes(m, S, c, vc, k, x)
    BY <1>1, <2>1, <2>2 DEF OneWay
  <2>3. CASE Into(b, vb, j, x) /\ Into(c, vc, k, x)
    BY <1>12, <2>3 DEF Into, SamePage
  <2>4. CASE x = u /\ (Passes(m, S, b, vb, j, x) \/ Passes(m, S, c, vc, k, x))
    BY <1>9, <2>1, <2>4
  <2> QED
    BY <2>1, <2>2, <2>3, <2>4 DEF Into
<1>14. TableCapsTell(w, S, P2, D2)
  <2> SUFFICES ASSUME NEW x \in PageTables \ D2, NEW b \in Asids, NEW wa \in VAddrs,
                      NEW k \in Levels, Passes(w, S, b, wa, k, x)
               PROVE  P2[x] # None /\ P2[x].asid = b /\ SamePage(P2[x].va, wa, k - 1)
    BY DEF TableCapsTell
  <2>1. x \in PageTables \ D /\ (Passes(m, S, b, wa, k, x) \/ Into(b, wa, k, x))
    BY <1>8, Objects
  <2>2. CASE Passes(m, S, b, wa, k, x)
    <3>1. x # u
      BY <1>9, <2>1, <2>2
    <3> HIDE DEF P2
    <3> QED
      BY <1>1, <1>11, <2>1, <2>2, <3>1 DEF TableCapsTell
  <2>3. CASE Into(b, wa, k, x)
    BY <1>10, <1>11, <1>12, <2>3 DEF Into
  <2> QED
    BY <2>1, <2>2, <2>3
<1>15. UnusedAreBlank(w, P2, D2)
  <2> SUFFICES ASSUME NEW x \in PageTables \ D2, P2[x] = None
               PROVE  w[x] = Blank
    BY DEF UnusedAreBlank
  <2>1. P[x] = None /\ x # u
    BY <1>10, <1>11
  <2>2. m[x] = Blank
    BY <1>1, <2>1 DEF UnusedAreBlank
  <2>3. x # t
    BY <1>1, <1>3, <1>4, <2>1 DEF TableCapsTell
  <2> QED
    BY <1>7, <2>2, <2>3, Objects
<1>16. LeadInto(w, H, D2)
  <2> SUFFICES ASSUME NEW s \in H, w[s.table][s.index].type = "pte_table"
               PROVE  w[s.table][s.index].addr \in D2
    BY DEF LeadInto
  <2>1. s.table \in Tables /\ s.index \in Index
    BY DEF Slots
  <2>2. ~ (s.table = t /\ s.index = va[n])
    BY <1>6
  <2>3. w[s.table][s.index] = m[s.table][s.index]
    BY <1>7, <2>1, <2>2
  <2> QED
    BY <1>1, <2>3 DEF LeadInto
<1>17. FrameCapsTell(w, S, F, D2, H)
  <2> SUFFICES ASSUME NEW x \in Tables \ D2, NEW b \in Asids, NEW wa \in VAddrs, NEW k \in Levels,
                      Passes(w, S, b, wa, k, x), SlotIn(x, wa, k) \notin H
               PROVE  Fits(w[x][wa[k]], F, b, wa, k)
    BY DEF FrameCapsTell
  <2>1. /\ x \in Tables \ D /\ wa[k] \in Index
        /\ Passes(m, S, b, wa, k, x) \/ Into(b, wa, k, x)
    BY <1>8, Objects
  <2>2. CASE Passes(m, S, b, wa, k, x) /\ x = t /\ wa[k] = va[n]
    <3>1. n = k
      BY <1>1, <1>3, <1>4, <2>1, <2>2, OneSlot
    <3>2. w[x][wa[k]] = pte_new_table(u) /\ n < 3
      BY <1>3, <1>7, <2>2 DEF Levels
    <3> QED
      BY ONLY <3>1, <3>2 DEF Fits, pte_new_table
  <2>3. CASE Passes(m, S, b, wa, k, x) /\ ~ (x = t /\ wa[k] = va[n])
    <3>1. w[x][wa[k]] = m[x][wa[k]]
      BY <1>7, <2>1, <2>3
    <3> QED
      BY <1>1, <2>1, <2>3, <3>1 DEF FrameCapsTell
  <2>4. CASE Into(b, wa, k, x)
    <3>1. x = u /\ u \in PageTables \ D
      BY <2>1, <2>4 DEF Into
    <3>2. u # t
      BY <1>1, <1>3, <1>4, <3>1 DEF TableCapsTell
    <3>3. w[x] = Blank
      BY <1>1, <1>7, <3>1, <3>2, Objects DEF UnusedAreBlank
    <3> QED
      BY <2>1, <3>3 DEF Fits, Blank, pte_invalid
  <2> QED
    BY <2>1, <2>2, <2>3, <2>4
<1> QED
  BY <1>13, <1>14, <1>15, <1>16, <1>17 DEF Sound

\* A frame is unmapped by its capability: the leaf that the capability tells of is
\* cleared, if there is one.
LEMMA ClearSound ==
  ASSUME NEW m \in Memory, NEW S \in [Asids -> Roots \cup {None}],
         NEW F \in [Frames -> FrameMapping \cup {None}], NEW P,
         NEW D \in SUBSET PageTables, NEW H \in SUBSET Slots, Sound(m, S, F, P, D, H),
         NEW f \in Frames, F[f] # None,
         NEW w \in Memory,
         \A t \in Tables, i \in Index : w[t][i] = m[t][i] \/ w[t][i] = pte_invalid,
         \A n \in Levels :
           LET t == Way(m, S[F[f].asid], F[f].va)[n]
               e == m[t][F[f].va[n]]
           IN  /\ EndsAt(m, S[F[f].asid], F[f].va, n) /\ n = F[f].level
               /\ e.type \in {"pte_page", "pte_4k_page"} /\ e.addr = f
               => w[t][F[f].va[n]] = pte_invalid,
         NEW D2 \in SUBSET PageTables, D \subseteq D2, Closed(w, D2)
  PROVE  Sound(w, S, [F EXCEPT ![f] = None], P, D2, H)
<1> DEFINE cap == F[f]
           F2 == [F EXCEPT ![f] = None]
<1>1. /\ OneWay(m, S, D) /\ TableCapsTell(m, S, P, D) /\ UnusedAreBlank(m, P, D)
      /\ Closed(m, D) /\ LeadInto(m, H, D) /\ FrameCapsTell(m, S, F, D, H)
  BY DEF Sound
<1>2. \A b \in Asids : S[b] \in Roots \cup {None}
  OBVIOUS
<1>3. cap \in FrameMapping /\ cap.va \in VAddrs /\ cap.asid \in Asids
  BY DEF FrameMapping
<1>4. \A u \in Tables, j \in Index : w[u][j].type = "pte_table" => w[u][j] = m[u][j]
  <2>1. pte_invalid.type # "pte_table"
    BY ONLY DEF pte_invalid
  <2> QED
    BY <2>1
<1>5. ASSUME NEW u \in Tables \ D2, NEW b \in Asids, NEW wa \in VAddrs, NEW k \in Levels,
             Passes(w, S, b, wa, k, u)
      PROVE  Passes(m, S, b, wa, k, u) /\ u \in Tables \ D
  <2>1. S[b] \in Roots \cup {None} /\ Way(w, S[b], wa)[k] = u
    BY <1>2, <1>5 DEF Passes
  <2>2. /\ m \in Memory /\ w \in Memory /\ D2 \in SUBSET PageTables /\ Closed(w, D2)
        /\ wa \in VAddrs /\ k \in Levels /\ u \in Tables \ D2 /\ u \in Tables \ D
    OBVIOUS
  <2>3. \A t \in Tables \ D2, i \in Index :
          w[t][i].type = "pte_table" /\ w[t][i].addr \notin D2 => w[t][i] = m[t][i]
    BY ONLY <1>4
  <2>4. Way(m, S[b], wa)[k] = u
    BY ONLY <2>1, <2>2, <2>3, FewerWays
  <2> QED
    BY ONLY <2>2, <2>4 DEF Passes
<1>6. OneWay(w, S, D2)
  BY ONLY <1>1, <1>5 DEF OneWay
<1>7. TableCapsTell(w, S, P, D2)
  BY ONLY <1>1, <1>5, Objects DEF TableCapsTell
<1>8. UnusedAreBlank(w, P, D2)
  <2> SUFFICES ASSUME NEW u \in PageTables \ D2, P[u] = None
               PROVE  w[u] = Blank
    BY DEF UnusedAreBlank
  <2>1. m[u] = Blank /\ u \in Tables
    BY <1>1, Objects DEF UnusedAreBlank
  <2>2. \A i \in Index : w[u][i] = pte_invalid
    BY <2>1 DEF Blank
  <2> QED
    BY <2>1, <2>2 DEF Memory, Blank
<1>9. LeadInto(w, H, D2)
  <2>1. \A s \in H : s.table \in Tables /\ s.index \in Index
    BY DEF Slots
  <2> QED
    BY ONLY <1>1, <1>4, <2>1, D \subseteq D2 DEF LeadInto
<1>10. FrameCapsTell(w, S, F2, D2, H)
  <2> SUFFICES ASSUME NEW u \in Tables \ D2, NEW b \in Asids, NEW wa \in VAddrs, NEW k \in Levels,
                      Passes(w, S, b, wa, k, u), SlotIn(u, wa, k) \notin H
               PROVE  Fits(w[u][wa[k]], F2, b, wa, k)
    BY DEF FrameCapsTell
  <2> DEFINE e == m[u][wa[k]]
  <2>1. Passes(m, S, b, wa, k, u) /\ u \in Tables \ D /\ wa[k] \in Index
    BY <1>5, Objects
  <2>2. Fits(e, F, b, wa, k)
    BY <1>1, <2>1 DEF FrameCapsTell
  <2>3. CASE w[u][wa[k]] = pte_invalid
    BY ONLY <2>3 DEF Fits, pte_invalid
  <2>4. CASE w[u][wa[k]] = e /\ e.type \in {"pte_page", "pte_4k_page"} /\ e.addr = f
    <3>1. cap.asid = b /\ cap.level = k /\ SamePage(cap.va, wa, k)
      BY <2>2, <2>4 DEF Fits
    <3>2. cap.va[k] = wa[k] /\ SamePage(cap.va, wa, k - 1)
      BY <3>1, SamePageAbove
    <3>3. Way(m, S[b], cap.va)[k] = u
      <4>1. Way(m, S[b], wa)[k] = u
        BY <2>1 DEF Passes
      <4> HIDE DEF cap
      <4>2. Way(m, S[b], cap.va)[k] = Way(m, S[b], wa)[k]
        BY ONLY <3>2, k \in Levels, SamePrefix
      <4> QED
        BY <4>1, <4>2
    <3>4. EndsAt(m, S[b], cap.va, k)
      BY <1>2, <1>3, <2>1, <2>4, <3>2, <3>3, LeafEnds
    <3>5. w[u][wa[k]] = pte_invalid
      BY <2>4, <3>1, <3>2, <3>3, <3>4
    <3> QED
      BY <2>3, <3>5
  <2>5. CASE w[u][wa[k]] = e /\ ~ (e.type \in {"pte_page", "pte_4k_page"} /\ e.addr = f)
    <3>1. e.type \in {"pte_page", "pte_4k_page"} => e.addr \in Frames
      BY <2>1, Entries
    <3>2. \A g \in Frames : g # f => F2[g] = F[g]
      OBVIOUS
    <3> HIDE DEF F2, e
    <3> QED
      BY <2>2, <2>5, <3>1, <3>2 DEF Fits
  <2> QED
    BY <2>1, <2>3, <2>4, <2>5
<1> QED
  BY <1>6, <1>7, <1>8, <1>9, <1>10 DEF Sound

\* A blank root leads nowhere.
LEMMA BlankWay ==
  ASSUME NEW w, NEW r, NEW va \in VAddrs, NEW n \in Levels,
         r = None \/ w[r] = Blank, n # 0
  PROVE  Way(w, r, va)[n] = None
<1> DEFINE x == Way(w, r, va)
           X == {k \in Levels : k # 0 => x[k] = None}
<1>1. x[0] = r /\ \A k \in 1 .. 3 : x[k] = Below(w, x[k - 1], va[k - 1])
  BY WayIs
<1> HIDE DEF x
<1>2. ASSUME NEW k \in 1 .. 3, k - 1 \in X
      PROVE  k \in X
  <2>1. k - 1 \in Levels /\ va[k - 1] \in Index /\ k \in Levels
    BY LevelBelow, Objects
  <2>2. CASE k - 1 = 0
    <3>1. r = None \/ w[r][va[k - 1]] = pte_invalid
      BY <2>1 DEF Blank
    <3> QED
      BY <1>1, <2>1, <2>2, <3>1 DEF Below, pte_invalid
  <2>3. CASE k - 1 # 0
    BY <1>1, <1>2, <2>1, <2>3 DEF Below
  <2> QED
    BY <2>2, <2>3
<1>3. 0 \in X
  BY DEF Levels
<1> HIDE DEF X
<1>4. n \in X
  BY <1>2, <1>3, LevelInduction
<1> QED
  BY <1>4 DEF X, x

\* A clear root becomes a space.
LEMMA BlankSound ==
  ASSUME NEW m \in Memory, NEW S \in [Asids -> Roots \cup {None}], NEW F, NEW P,
         NEW D \in SUBSET PageTables, NEW H \in SUBSET Slots, Sound(m, S, F, P, D, H),
         NEW a \in Asids, NEW r \in Roots, \A b \in Asids : S[b] # r,
         NEW w \in Memory, w[r] = Blank, \A t \in Tables : t # r => w[t] = m[t],
         NEW D2 \in SUBSET PageTables, D \subseteq D2, Closed(w, D2)
  PROVE  Sound(w, [S EXCEPT ![a] = r], F, P, D2, H)
<1> DEFINE S2 == [S EXCEPT ![a] = r]
<1>1. /\ OneWay(m, S, D) /\ TableCapsTell(m, S, P, D) /\ UnusedAreBlank(m, P, D)
      /\ Closed(m, D) /\ LeadInto(m, H, D) /\ FrameCapsTell(m, S, F, D, H)
  BY DEF Sound
<1>2. S2[a] = r /\ \A b \in Asids : b # a => S2[b] = S[b] /\ S2[b] \in Roots \cup {None}
  OBVIOUS
<1>3. \A i \in Index : w[r][i].type # "pte_table"
  BY DEF Blank, pte_invalid
<1>4. \A t \in Tables, i \in Index : w[t][i].type = "pte_table" => w[t][i] = m[t][i]
  BY <1>3
<1> HIDE DEF S2
<1>5. ASSUME NEW u \in Tables \ D2, NEW b \in Asids, NEW wa \in VAddrs, NEW k \in Levels,
             Passes(w, S2, b, wa, k, u)
      PROVE  \/ b = a /\ u = r /\ k = 0
             \/ b # a /\ u # r /\ u \in Tables \ D /\ Passes(m, S, b, wa, k, u)
  <2>1. Way(w, S2[b], wa)[k] = u /\ u # None
    BY <1>5, Objects DEF Passes
  <2>2. CASE b = a
    <3>1. k = 0
      BY <1>2, <2>1, <2>2, BlankWay
    <3> QED
      BY <1>2, <2>1, <2>2, <3>1, WayIs
  <2>3. CASE b # a
    <3>1. S[b] \in Roots \cup {None} /\ S2[b] = S[b]
      BY <1>2, <2>3
    <3>2. Way(m, S[b], wa)[k] = u
      BY <1>4, <2>1, <3>1, FewerWays
    <3>3. u # r
      BY <3>1, <3>2, TopOfWay
    <3> QED
      BY <2>3, <3>2, <3>3 DEF Passes
  <2> QED
    BY <2>2, <2>3
<1>6. OneWay(w, S2, D2)
  <2>1. \A va, wa : SamePage(va, wa, 0 - 1)
    BY DEF SamePage, Levels
  <2> SUFFICES ASSUME NEW x \in Tables \ D2, NEW b \in Asids, NEW c \in Asids,
                      NEW vb \in VAddrs, NEW vc \in VAddrs, NEW j \in Levels, NEW k \in Levels,
                      Passes(w, S2, b, vb, j, x), Passes(w, S2, c, vc, k, x)
               PROVE  b = c /\ j = k /\ SamePage(vb, vc, j - 1)
    BY DEF OneWay
  <2>2. \/ b = a /\ x = r /\ j = 0 /\ c = a /\ k = 0
        \/ x \in Tables \ D /\ Passes(m, S, b, vb, j, x) /\ Passes(m, S, c, vc, k, x)
    BY <1>5
  <2> QED
    BY <1>1, <2>1, <2>2 DEF OneWay
<1>7. TableCapsTell(w, S2, P, D2)
  BY <1>1, <1>5, Objects DEF TableCapsTell
<1>8. UnusedAreBlank(w, P, D2)
  BY <1>1, Objects DEF UnusedAreBlank
<1>9. LeadInto(w, H, D2)
  <2>1. \A s \in H : s.table \in Tables /\ s.index \in Index
    BY DEF Slots
  <2> QED
    BY <1>1, <1>4, <2>1 DEF LeadInto
<1>10. FrameCapsTell(w, S2, F, D2, H)
  <2> SUFFICES ASSUME NEW x \in Tables \ D2, NEW b \in Asids, NEW wa \in VAddrs, NEW k \in Levels,
                      Passes(w, S2, b, wa, k, x), SlotIn(x, wa, k) \notin H
               PROVE  Fits(w[x][wa[k]], F, b, wa, k)
    BY DEF FrameCapsTell
  <2>1. wa[k] \in Index
    BY Objects
  <2>2. CASE x = r
    BY <2>1, <2>2 DEF Fits, Blank, pte_invalid
  <2>3. CASE x # r
    <3>1. x \in Tables \ D /\ Passes(m, S, b, wa, k, x) /\ w[x] = m[x]
      BY <1>5, <2>3
    <3> QED
      BY <1>1, <3>1 DEF FrameCapsTell
  <2> QED
    BY <2>2, <2>3
<1> QED
  BY <1>6, <1>7, <1>8, <1>9, <1>10 DEF Sound, S2

\* Spaces go, one or many, and their tables stay.
LEMMA GoneSound ==
  ASSUME NEW m \in Memory, NEW S \in [Asids -> Roots \cup {None}], NEW F, NEW P,
         NEW D \in SUBSET PageTables, NEW H, Sound(m, S, F, P, D, H),
         NEW S2, \A a \in Asids : S2[a] \in {S[a], None}
  PROVE  Sound(m, S2, F, P, D, H)
<1>1. /\ OneWay(m, S, D) /\ TableCapsTell(m, S, P, D) /\ UnusedAreBlank(m, P, D)
      /\ Closed(m, D) /\ LeadInto(m, H, D) /\ FrameCapsTell(m, S, F, D, H)
  BY DEF Sound
<1>2. ASSUME NEW u \in Tables, NEW b \in Asids, NEW wa \in VAddrs, NEW k \in Levels,
             Passes(m, S2, b, wa, k, u)
      PROVE  Passes(m, S, b, wa, k, u)
  <2>1. Way(m, None, wa)[k] = None
    BY BlankWay, WayIs
  <2> QED
    BY <1>2, <2>1, Objects DEF Passes
<1>3. OneWay(m, S2, D)
  BY <1>1, <1>2 DEF OneWay
<1>4. TableCapsTell(m, S2, P, D)
  BY <1>1, <1>2, Objects DEF TableCapsTell
<1>5. FrameCapsTell(m, S2, F, D, H)
  BY <1>1, <1>2 DEF FrameCapsTell
<1> QED
  BY <1>1, <1>3, <1>4, <1>5 DEF Sound

\* A table is unmapped by its capability.  X has the slot that the loop found, if
\* it found one; what that slot then leads to is displaced, and the table is clear.
LEMMA RemoveSound ==
  ASSUME NEW m \in Memory, NEW S \in [Asids -> Roots \cup {None}], NEW F,
         NEW P \in [PageTables -> TableMapping \cup {None}],
         NEW D \in SUBSET PageTables, NEW H \in SUBSET Slots, Sound(m, S, F, P, D, H),
         NEW u \in PageTables, P[u] # None,
         NEW w \in Memory, w[u] = Blank,
         NEW X \in SUBSET Slots,
         \A t \in Tables, i \in Index :
           t = u \/ [table |-> t, index |-> i] \in X \/ w[t][i] = m[t][i],
         \A s \in X : m[s.table] # Blank,
         \A n \in 1 .. 3 :
           LET way == Way(m, S[P[u].asid], P[u].va)
           IN  way[n] = u /\ (\A k \in 1 .. 3 : way[k] = u => n <= k)
                 => SlotIn(way[n - 1], P[u].va, n - 1) \in X,
         NEW D2 \in SUBSET PageTables, D \subseteq D2, Closed(w, D2), LeadInto(w, X, D2)
  PROVE  Sound(w, S, F, [P EXCEPT ![u] = None], D2, H \cup X)
<1> DEFINE cap == P[u]
           P2 == [P EXCEPT ![u] = None]
<1>1. /\ OneWay(m, S, D) /\ TableCapsTell(m, S, P, D) /\ UnusedAreBlank(m, P, D)
      /\ Closed(m, D) /\ LeadInto(m, H, D) /\ FrameCapsTell(m, S, F, D, H)
  BY DEF Sound
<1>2. \A b \in Asids : S[b] \in Roots \cup {None}
  OBVIOUS
<1>3. cap.va \in VAddrs /\ cap.asid \in Asids
  BY DEF TableMapping
<1>4. \A i \in Index : w[u][i] = pte_invalid /\ w[u][i].type # "pte_table"
  BY DEF Blank, pte_invalid
<1>5. ASSUME NEW t \in Tables, NEW i \in Index, w[t][i].type = "pte_table", w[t][i].addr \notin D2
      PROVE  w[t][i] = m[t][i] /\ t # u /\ [table |-> t, index |-> i] \notin X
  BY <1>4, <1>5 DEF LeadInto
<1>6. ASSUME NEW x \in Tables \ D2, NEW b \in Asids, NEW wa \in VAddrs, NEW k \in Levels,
             Passes(w, S, b, wa, k, x)
      PROVE  Passes(m, S, b, wa, k, x) /\ x \in Tables \ D
  <2>1. S[b] \in Roots \cup {None} /\ Way(w, S[b], wa)[k] = x
    BY <1>2, <1>6 DEF Passes
  <2>2. \A t \in Tables \ D2, i \in Index :
          w[t][i].type = "pte_table" /\ w[t][i].addr \notin D2 => w[t][i] = m[t][i]
    BY <1>5
  <2> QED
    BY <2>1, <2>2, FewerWays DEF Passes
\* The loop finds the only slot that leads to the table, if it is not displaced.
<1>7. ASSUME u \notin D2, NEW b \in Asids, NEW wa \in VAddrs, NEW n \in Levels,
             Passes(w, S, b, wa, n, u)
      PROVE  FALSE
  <2> DEFINE way == Way(m, S[b], cap.va)
             p == Way(w, S[b], wa)[n - 1]
  <2>1. u \in Tables /\ u # None /\ S[b] \in Roots \cup {None}
    BY <1>2, Objects
  <2>2. Way(w, S[b], wa)[n] = u
    BY <1>7 DEF Passes
  <2>3. n \in 1 .. 3
    BY <2>1, <2>2, TopOfWay, Objects
  <2>4. /\ p \in Tables /\ wa[n - 1] \in Index /\ n - 1 \in Levels
        /\ w[p][wa[n - 1]].type = "pte_table" /\ w[p][wa[n - 1]].addr = u
    <3>1. w \in Memory /\ wa \in VAddrs /\ Way(w, S[b], wa)[n] # None
      BY <2>1, <2>2
    <3>2. n - 1 \in Levels
      BY ONLY <2>3, LevelBelow
    <3>3. /\ p \in Tables /\ wa[n - 1] \in Index
          /\ w[p][wa[n - 1]].type = "pte_table"
          /\ w[p][wa[n - 1]].addr = Way(w, S[b], wa)[n]
      BY ONLY <2>1, <2>3, <3>1, Above
    <3> QED
      BY ONLY <2>2, <3>2, <3>3
  <2>5. p \notin D2
    BY <1>7, <2>4 DEF Closed
  <2>6. Passes(w, S, b, wa, n - 1, p)
    BY DEF Passes
  <2> HIDE DEF p
  <2>7. Passes(m, S, b, wa, n - 1, p) /\ Passes(m, S, b, wa, n, u) /\ u \in PageTables \ D
    BY <1>6, <1>7, <2>1, <2>4, <2>5, <2>6
  <2>8. cap.asid = b /\ SamePage(cap.va, wa, n - 1)
    BY <1>1, <2>7 DEF TableCapsTell
  <2>9. cap.va[n - 1] = wa[n - 1] /\ SamePage(cap.va, wa, (n - 1) - 1)
    BY <2>4, <2>8, SamePageAbove
  <2>10. way[n] = u /\ way[n - 1] = p
    <3>1. Way(m, S[b], wa)[n] = u /\ Way(m, S[b], wa)[n - 1] = p
      BY <2>7 DEF Passes
    <3>2. way[n] = Way(m, S[b], wa)[n]
      BY <2>8, SamePrefix
    <3>3. way[n - 1] = Way(m, S[b], wa)[n - 1]
      BY <2>4, <2>9, SamePrefix
    <3> QED
      BY <3>1, <3>2, <3>3
  <2>11. ASSUME NEW k \in 1 .. 3, way[k] = u
         PROVE  n <= k
    <3>1. k \in Levels /\ Passes(m, S, b, cap.va, k, u)
      BY <2>11, LevelBelow DEF Passes
    <3>2. k = n
      BY <1>1, <1>3, <2>1, <2>7, <3>1 DEF OneWay
    <3> QED
      BY <2>3, <3>2
  <2>12. SlotIn(p, wa, n - 1) \in X
    <3>1. SlotIn(way[n - 1], cap.va, n - 1) \in X
      BY <2>3, <2>8, <2>10, <2>11
    <3> QED
      BY <2>9, <2>10, <3>1 DEF SlotIn
  <2>13. w[p][wa[n - 1]].addr \in D2
    BY <2>4, <2>12 DEF LeadInto, SlotIn
  <2> QED
    BY <1>7, <2>4, <2>13
<1>8. OneWay(w, S, D2)
  BY <1>1, <1>6 DEF OneWay
<1>9. TableCapsTell(w, S, P2, D2)
  <2> SUFFICES ASSUME NEW x \in PageTables \ D2, NEW b \in Asids, NEW wa \in VAddrs,
                      NEW k \in Levels, Passes(w, S, b, wa, k, x)
               PROVE  P2[x] # None /\ P2[x].asid = b /\ SamePage(P2[x].va, wa, k - 1)
    BY DEF TableCapsTell
  <2>1. Passes(m, S, b, wa, k, x) /\ x \in PageTables \ D
    BY <1>6, Objects
  <2>2. P2[x] = P[x]
    BY <1>7
  <2> QED
    BY <1>1, <2>1, <2>2 DEF TableCapsTell
<1>10. UnusedAreBlank(w, P2, D2)
  <2> SUFFICES ASSUME NEW x \in PageTables \ D2, P2[x] = None, x # u
               PROVE  w[x] = Blank
    BY DEF UnusedAreBlank
  <2>1. P[x] = None /\ x \in Tables
    BY Objects
  <2>2. m[x] = Blank
    BY <1>1, <2>1 DEF UnusedAreBlank
  <2>3. \A i \in Index : [table |-> x, index |-> i] \notin X
    BY <2>2
  <2>4. \A i \in Index : w[x][i] = pte_invalid
    BY <2>1, <2>2, <2>3 DEF Blank
  <2> QED
    BY <2>1, <2>4 DEF Memory, Blank
<1>11. LeadInto(w, H \cup X, D2)
  <2> SUFFICES ASSUME NEW s \in H, s \notin X, w[s.table][s.index].type = "pte_table"
               PROVE  w[s.table][s.index].addr \in D2
    BY DEF LeadInto
  <2>1. s.table \in Tables /\ s.index \in Index /\ s = [table |-> s.table, index |-> s.index]
    BY DEF Slots
  <2>2. w[s.table][s.index] = m[s.table][s.index]
    BY <1>4, <2>1
  <2> QED
    BY <1>1, <2>2 DEF LeadInto
<1>12. FrameCapsTell(w, S, F, D2, H \cup X)
  <2> SUFFICES ASSUME NEW x \in Tables \ D2, NEW b \in Asids, NEW wa \in VAddrs, NEW k \in Levels,
                      Passes(w, S, b, wa, k, x), SlotIn(x, wa, k) \notin H \cup X
               PROVE  Fits(w[x][wa[k]], F, b, wa, k)
    BY DEF FrameCapsTell
  <2>1. Passes(m, S, b, wa, k, x) /\ x \in Tables \ D /\ wa[k] \in Index
    BY <1>6, Objects
  <2>2. x # u
    BY <1>7
  <2>3. w[x][wa[k]] = m[x][wa[k]]
    BY <2>1, <2>2 DEF SlotIn
  <2> QED
    BY <1>1, <2>1, <2>3 DEF FrameCapsTell
<1> QED
  BY <1>8, <1>9, <1>10, <1>11, <1>12 DEF Sound

------------------------------------------------------------------------------
(* The steps.                                                              *)

\* find_pt in the memory m, written down level by level.
Finding(m, r, va) ==
  LET first  == SlotIn(m[r][va[0]].addr, va, 1)
      second == SlotIn(m[first.table][first.index].addr, va, 2)
      third  == SlotIn(m[second.table][second.index].addr, va, 3)
  IN  [n \in Levels |-> IF n = 0 THEN SlotIn(r, va, 0)
                        ELSE IF n = 1 THEN first ELSE IF n = 2 THEN second ELSE third]

LEMMA FindingIs ==
  ASSUME NEW m, NEW r, NEW va
  PROVE  LET f == Finding(m, r, va)
         IN  /\ f[0] = SlotIn(r, va, 0)
             /\ \A n \in 1 .. 3 : f[n] = SlotIn(m[f[n - 1].table][f[n - 1].index].addr, va, n)
             /\ f = [n \in Levels |-> f[n]]
<1> DEFINE f == Finding(m, r, va)
           top    == SlotIn(r, va, 0)
           first  == SlotIn(m[r][va[0]].addr, va, 1)
           second == SlotIn(m[first.table][first.index].addr, va, 2)
           third  == SlotIn(m[second.table][second.index].addr, va, 3)
<1>1. f = [n \in Levels |-> IF n = 0 THEN top
                            ELSE IF n = 1 THEN first ELSE IF n = 2 THEN second ELSE third]
  BY DEF Finding
<1>2. top.table = r /\ top.index = va[0]
  BY DEF SlotIn
<1> HIDE DEF f, top, first, second, third
<1>3. /\ f[0] = top /\ f[1] = first /\ f[2] = second /\ f[3] = third
      /\ f = [n \in Levels |-> f[n]]
  BY <1>1 DEF Levels
<1>4. /\ f[0] = SlotIn(r, va, 0)
      /\ f[1] = SlotIn(m[f[0].table][f[0].index].addr, va, 1)
      /\ f[2] = SlotIn(m[f[1].table][f[1].index].addr, va, 2)
      /\ f[3] = SlotIn(m[f[2].table][f[2].index].addr, va, 3)
      /\ f = [n \in Levels |-> f[n]]
  BY <1>2, <1>3 DEF top, first, second, third
<1>5. \A n \in 1 .. 3 : (n = 1 /\ n - 1 = 0) \/ (n = 2 /\ n - 1 = 1) \/ (n = 3 /\ n - 1 = 2)
  OBVIOUS
<1>6. \A n \in 1 .. 3 : f[n] = SlotIn(m[f[n - 1].table][f[n - 1].index].addr, va, n)
  BY <1>4, <1>5
<1> QED
  BY <1>4, <1>6 DEF f

LEMMA FindUnfold ==
  ASSUME NEW m, NEW r, NEW va
  PROVE  LET down[n \in Levels] ==
               IF n = 0 THEN SlotIn(r, va, 0)
               ELSE SlotIn(m[down[n - 1].table][down[n - 1].index].addr, va, n)
         IN  down = Finding(m, r, va)
<1> DEFINE Body(w, n) ==
             IF n = 0 THEN SlotIn(r, va, 0)
             ELSE SlotIn(m[w[n - 1].table][w[n - 1].index].addr, va, n)
           down == CHOOSE w : w = [n \in Levels |-> Body(w, n)]
           f == Finding(m, r, va)
<1>1. \A w : Body(w, 0) = SlotIn(r, va, 0)
  OBVIOUS
<1>2. \A w, n : n \in 1 .. 3 =>
        Body(w, n) = SlotIn(m[w[n - 1].table][w[n - 1].index].addr, va, n)
  OBVIOUS
<1>3. /\ f[0] = SlotIn(r, va, 0)
      /\ \A n \in 1 .. 3 : f[n] = SlotIn(m[f[n - 1].table][f[n - 1].index].addr, va, n)
      /\ f = [n \in Levels |-> f[n]]
  BY FindingIs
<1> HIDE DEF Body, f
<1>4. \A n \in Levels : f[n] = Body(f, n)
  BY <1>1, <1>2, <1>3, LevelCases
<1>5. f = [n \in Levels |-> Body(f, n)]
  BY <1>3, <1>4
<1>6. down = [n \in Levels |-> Body(down, n)]
  BY <1>5
<1> HIDE DEF down
<1>7. \A n \in Levels : down[n] = Body(down, n)
  BY <1>6
<1> DEFINE X == {k \in Levels : down[k] = f[k]}
<1>8. 0 \in X
  BY <1>1, <1>3, <1>7 DEF Levels
<1>9. ASSUME NEW n \in 1 .. 3, n - 1 \in X
      PROVE  n \in X
  <2>1. n \in Levels /\ n - 1 \in Levels
    BY ONLY n \in 1 .. 3, LevelBelow
  <2>2. down[n - 1] = f[n - 1]
    BY <1>9
  <2>3. down[n] = SlotIn(m[down[n - 1].table][down[n - 1].index].addr, va, n)
    BY <1>2, <1>7, <2>1
  <2>4. down[n] = f[n]
    BY ONLY <1>3, <2>2, <2>3, n \in 1 .. 3
  <2> QED
    BY ONLY <2>1, <2>4
<1> HIDE DEF X
<1>10. \A n \in Levels : n \in X
  BY <1>8, <1>9, LevelInduction
<1>11. down = f
  BY <1>3, <1>6, <1>10 DEF X
<1> QED
  BY <1>11 DEF down, f, Body

\* As long as the tables are there, find_pt comes where the lookup comes.
LEMMA FindIs ==
  ASSUME mem \in Memory, NEW r \in Roots, NEW va \in VAddrs, NEW n \in Levels,
         Way(mem, r, va)[n] # None
  PROVE  find_pt(r, va, n) = SlotIn(Way(mem, r, va)[n], va, n)
<1> DEFINE way == Way(mem, r, va)
           find == Finding(mem, r, va)
           X == {k \in Levels : way[k] # None => find[k] = SlotIn(way[k], va, k)}
<1>1. /\ find[0] = SlotIn(r, va, 0)
      /\ \A k \in 1 .. 3 :
           find[k] = SlotIn(mem[find[k - 1].table][find[k - 1].index].addr, va, k)
  BY FindingIs
<1>2. way[0] = r
  BY WayIs
<1>3. find_pt(r, va, n) = find[n]
  BY FindUnfold DEF find_pt, PteAt
<1> HIDE DEF find
<1>4. ASSUME NEW k \in 1 .. 3, k - 1 \in X, way[k] # None
      PROVE  find[k] = SlotIn(way[k], va, k)
  <2>1. way[k - 1] \in Tables /\ mem[way[k - 1]][va[k - 1]].addr = way[k]
    BY <1>4, Above
  <2> HIDE DEF way
  <2>2. find[k - 1] = SlotIn(way[k - 1], va, k - 1)
    BY <1>4, <2>1, Objects
  <2> QED
    BY <1>1, <2>1, <2>2 DEF SlotIn
<1> HIDE DEF way
<1>5. ASSUME NEW k \in 1 .. 3, k - 1 \in X
      PROVE  k \in X
  BY <1>4, <1>5, LevelBelow
<1>6. 0 \in X
  BY <1>1, <1>2 DEF Levels
<1> HIDE DEF X
<1>7. n \in X
  BY <1>5, <1>6, LevelInduction
<1> QED
  BY <1>3, <1>7 DEF X, way

LEMMA UpdateIs ==
  ASSUME NEW t, NEW va, NEW n, NEW e
  PROVE  update(SlotIn(t, va, n), e) = Put(mem, t, va[n], e)
BY DEF update, SlotIn, Put

LEMMA Typed ==
  ASSUME TypeOK
  PROVE  /\ mem \in Memory /\ Space \in [Asids -> Roots \cup {None}]
         /\ itRoot # None => Space[ItAsid] = itRoot
         /\ itRoot = None => Space = vspaceOf
  BY ArmPageTableAssumption DEF TypeOK, Memory, Space

LEMMA SpaceNext ==
  ASSUME itRoot' = itRoot, vspaceOf' = vspaceOf
  PROVE  Space' = Space
BY DEF Space

\* What the steps that map something have in common.
LEMMA LinkStep ==
  ASSUME IInv, NEW a \in Asids, NEW va \in VAddrs, NEW u \in PageTables,
         Space[a] # None, TableFits(Space[a], u, va),
         mem' = update(lookup_pt_slot(Space[a], va).slot, pte_new_table(u)),
         ptCap' = [ptCap EXCEPT ![u] = [asid |-> a, va |-> va]],
         LeftBehind(unclaimed, {}), UNCHANGED <<vspaceOf, frameCap, boot>>,
         itRoot # None \/ booted
  PROVE  IInv'
<1> DEFINE r == Space[a]
           n == lookup_pt_slot(r, va).level
           t == Way(mem, r, va)[n]
<1>1. TypeOK /\ BootFirst /\ UnclaimedAreValid
      /\ Sound(mem, Space, frameCap, ptCap, displaced, unclaimed)
  BY DEF IInv
<1>2. mem \in Memory /\ Space \in [Asids -> Roots \cup {None}] /\ r \in Roots
  BY <1>1, Typed
<1>3. EndsAt(mem, r, va, n) /\ lookup_pt_slot(r, va).slot = SlotIn(t, va, n)
  BY LookupIs
<1>4. ptCap[u] = None /\ n < 3 /\ get_type(lookup_pt_slot(r, va).slot) = "pte_invalid"
  BY DEF TableFits
<1> HIDE DEF n
<1>5. n \in Levels /\ t \in Tables /\ va[n] \in Index
  BY <1>2, <1>3, EndIsSlot
<1>6. mem[t][va[n]] = pte_invalid
  BY <1>2, <1>3, <1>4, <1>5, Entries DEF get_type, PteAt, SlotIn
<1>7. mem' = Put(mem, t, va[n], pte_new_table(u))
  BY <1>3, UpdateIs
<1>8. mem' \in Memory
  <2>1. pte_new_table(u) \in PTE
    BY DEF PTE, pte_new_table
  <2> QED
    BY <1>2, <1>5, <1>7, <2>1, PutIs
<1>9. itRoot' = itRoot /\ vspaceOf' = vspaceOf /\ booted' = booted /\ frameCap' = frameCap
  BY DEF boot
<1>10. Space' = Space
  BY <1>9, SpaceNext
<1>11. /\ displaced \in SUBSET PageTables /\ unclaimed \in SUBSET Slots
       /\ ptCap \in [PageTables -> TableMapping \cup {None}]
  BY <1>1 DEF TypeOK
<1>12. ASSUME NEW D \in SUBSET PageTables, displaced \cup {} \subseteq D, Closed(mem', D)
       PROVE  Sound(mem', Space, frameCap, ptCap', D, unclaimed)
  <2>1. n # 3 /\ displaced \subseteq D
    BY <1>4, <1>12
  <2>2. \A s \in unclaimed : mem[s.table][s.index] # pte_invalid
    BY <1>1 DEF UnclaimedAreValid
  <2>3. a \in Asids /\ va \in VAddrs /\ u \in PageTables
        /\ ptCap' = [ptCap EXCEPT ![u] = [asid |-> a, va |-> va]]
    OBVIOUS
  <2>4. Sound(mem', Space, frameCap, [ptCap EXCEPT ![u] = [asid |-> a, va |-> va]], D, unclaimed)
    BY ONLY <1>1, <1>2, <1>3, <1>4, <1>6, <1>7, <1>11, <1>12, <2>1, <2>2, <2>3, LinkSound DEF t
  <2> QED
    BY ONLY <2>1, <2>3, <2>4
<1>13. /\ displaced' \subseteq PageTables /\ unclaimed' \subseteq Slots
       /\ UnclaimedAreValid'
       /\ Sound(mem', Space, frameCap, ptCap', displaced', unclaimed')
  <2>1. {} \in SUBSET PageTables
    OBVIOUS
  <2> QED
    BY <1>2, <1>8, <1>11, <1>12, <2>1, Healed
<1>14. TypeOK'
  <2>1. ptCap' \in [PageTables -> TableMapping \cup {None}]
    BY <1>11 DEF TableMapping
  <2> QED
    BY <1>1, <1>8, <1>9, <1>13, <2>1 DEF TypeOK, Memory
<1>15. BootFirst'
  BY <1>1, <1>9 DEF BootFirst
<1> QED
  BY <1>9, <1>10, <1>13, <1>14, <1>15 DEF IInv

LEMMA FrameStep ==
  ASSUME IInv, NEW a \in Asids, NEW va \in VAddrs, NEW f \in Frames, NEW k \in 1 .. 3, NEW l \in Levels,
         Space[a] # None, FrameFits(Space[a], va, k),
         frameCap[f] \in {None, [asid |-> a, va |-> va, level |-> l]},
         mem' = update(lookup_pt_slot(Space[a], va).slot, make_user_pte(f, k)),
         frameCap' = [frameCap EXCEPT ![f] = [asid |-> a, va |-> va, level |-> l]],
         NEW X \in SUBSET {lookup_pt_slot(Space[a], va).slot}, l # k => X # {},
         LeftBehind((unclaimed \ {lookup_pt_slot(Space[a], va).slot}) \cup X, {}), UNCHANGED <<vspaceOf, ptCap, boot>>,
         itRoot # None \/ booted
  PROVE  IInv'
<1> DEFINE r == Space[a]
           n == lookup_pt_slot(r, va).level
           t == Way(mem, r, va)[n]
           H == (unclaimed \ {SlotIn(t, va, n)}) \cup X
<1>1. TypeOK /\ BootFirst /\ UnclaimedAreValid
      /\ Sound(mem, Space, frameCap, ptCap, displaced, unclaimed)
  BY DEF IInv
<1>2. mem \in Memory /\ Space \in [Asids -> Roots \cup {None}] /\ r \in Roots
  BY <1>1, Typed
<1>3. EndsAt(mem, r, va, n) /\ lookup_pt_slot(r, va).slot = SlotIn(t, va, n)
  BY LookupIs
<1>4. n = k
  BY DEF FrameFits
<1> HIDE DEF n
<1>5. n \in Levels /\ t \in Tables /\ va[n] \in Index
  BY <1>2, <1>3, EndIsSlot
<1>6. mem' = Put(mem, t, va[n], make_user_pte(f, n))
  BY <1>3, <1>4, UpdateIs
<1>7. make_user_pte(f, n) \in PTE
  BY DEF make_user_pte, pte_new_4k_page, pte_new_page, PTE
<1>8. mem' \in Memory
  BY <1>2, <1>5, <1>6, <1>7, PutIs
<1>9. itRoot' = itRoot /\ vspaceOf' = vspaceOf /\ booted' = booted /\ ptCap' = ptCap
  BY DEF boot
<1>10. Space' = Space
  BY <1>9, SpaceNext
<1>11. /\ displaced \in SUBSET PageTables /\ unclaimed \in SUBSET Slots
       /\ frameCap \in [Frames -> FrameMapping \cup {None}]
       /\ frameCap' = [frameCap EXCEPT ![f] = [asid |-> a, va |-> va, level |-> l]]
       /\ LeftBehind(H, {}) /\ X \in SUBSET {SlotIn(t, va, n)} /\ (l # n => X # {})
  BY <1>1, <1>3, <1>4 DEF TypeOK
<1>12. ASSUME NEW D \in SUBSET PageTables, displaced \cup {} \subseteq D, Closed(mem', D)
       PROVE  Sound(mem', Space, frameCap', ptCap, D, H)
  <2>1. n # 0 /\ displaced \subseteq D
    BY <1>4, <1>12
  <2>2. Sound(mem', Space, [frameCap EXCEPT ![f] = [asid |-> a, va |-> va, level |-> l]],
              ptCap, D, H)
    BY <1>1, <1>2, <1>3, <1>4, <1>6, <1>11, <1>12, <2>1, LeafSound
  <2> QED
    BY <1>11, <2>1, <2>2
<1>13. /\ displaced' \subseteq PageTables /\ unclaimed' \subseteq Slots
       /\ UnclaimedAreValid'
       /\ Sound(mem', Space, frameCap', ptCap, displaced', unclaimed')
  <2>1. {} \in SUBSET PageTables
    OBVIOUS
  <2>2. H \in SUBSET Slots
    BY <1>5, <1>11 DEF SlotIn, Slots
  <2> HIDE DEF H
  <2> QED
    BY <1>2, <1>8, <1>11, <1>12, <2>1, <2>2, Healed
<1>14. TypeOK'
  <2>1. frameCap' \in [Frames -> FrameMapping \cup {None}]
    BY <1>5, <1>11 DEF FrameMapping
  <2> QED
    BY <1>1, <1>8, <1>9, <1>13, <2>1 DEF TypeOK, Memory
<1>15. BootFirst'
  BY <1>1, <1>9 DEF BootFirst
<1> QED
  BY <1>9, <1>10, <1>13, <1>14, <1>15 DEF IInv

LEMMA Initial == Init => IInv
<1> SUFFICES ASSUME Init
             PROVE  IInv
  OBVIOUS
<1>1. TypeOK
  BY DEF Init, TypeOK, Blank, PTE, pte_invalid
<1>2. BootFirst /\ UnclaimedAreValid
  BY Objects DEF Init, BootFirst, UnclaimedAreValid
<1>3. \A a \in Asids : Space[a] = None
  BY DEF Init, Space
<1>4. \A t \in Tables, a \in Asids, va \in VAddrs, n \in Levels : ~ Passes(mem, Space, a, va, n, t)
  <2> SUFFICES ASSUME NEW t \in Tables, NEW a \in Asids, NEW va \in VAddrs, NEW n \in Levels
               PROVE  Way(mem, Space[a], va)[n] # t
    BY DEF Passes
  <2>1. Way(mem, None, va)[n] = None
    BY BlankWay, WayIs
  <2> QED
    BY <1>3, <2>1, Objects
<1>5. OneWay(mem, Space, displaced) /\ TableCapsTell(mem, Space, ptCap, displaced)
      /\ FrameCapsTell(mem, Space, frameCap, displaced, unclaimed)
  BY <1>4, Objects DEF OneWay, TableCapsTell, FrameCapsTell
<1>6. /\ UnusedAreBlank(mem, ptCap, displaced)
      /\ Closed(mem, displaced) /\ LeadInto(mem, unclaimed, displaced)
  BY Objects DEF Init, UnusedAreBlank, Closed, LeadInto
<1> QED
  BY <1>1, <1>2, <1>5, <1>6 DEF IInv, Sound

LEMMA CreateItSpaceStep ==
  ASSUME IInv, NEW r \in Roots, CreateItSpace(r)
  PROVE  IInv'
<1>1. TypeOK /\ BootFirst /\ UnclaimedAreValid
      /\ Sound(mem, Space, frameCap, ptCap, displaced, unclaimed)
  BY DEF IInv
<1>2. itRoot = None /\ ~ booted /\ itRoot' = r
      /\ UNCHANGED <<mem, vspaceOf, frameCap, ptCap, booted, unclaimed, displaced>>
  BY DEF CreateItSpace, caps, history
<1>3. mem \in Memory /\ Space \in [Asids -> Roots \cup {None}] /\ Space = vspaceOf
  BY <1>1, <1>2, Typed
<1>4. r # None /\ \A b \in Asids : Space[b] = None /\ Space[b] # r
  BY <1>1, <1>2, <1>3, Objects DEF BootFirst
<1>5. Space' = [Space EXCEPT ![ItAsid] = r]
  BY <1>2, <1>3, <1>4 DEF Space
<1>6. Sound(mem, [Space EXCEPT ![ItAsid] = r], frameCap, ptCap, displaced, unclaimed)
  <2>1. mem[r] = Blank
    BY <1>1, <1>2 DEF BootFirst
  <2>2. displaced \in SUBSET PageTables /\ unclaimed \in SUBSET Slots /\ Closed(mem, displaced)
    BY <1>1 DEF TypeOK, Sound
  <2> QED
    BY <1>1, <1>3, <1>4, <2>1, <2>2, BlankSound, ArmPageTableAssumption
<1>7. TypeOK'
  BY <1>1, <1>2 DEF TypeOK
<1>8. BootFirst' /\ UnclaimedAreValid'
  BY <1>1, <1>2, <1>4 DEF BootFirst, UnclaimedAreValid
<1> QED
  BY <1>2, <1>5, <1>6, <1>7, <1>8 DEF IInv

LEMMA BootSpace ==
  ASSUME IInv, itRoot # None
  PROVE  /\ itRoot \in Roots /\ Space[ItAsid] = itRoot /\ ItAsid \in Asids
         /\ mem \in Memory
BY Typed, ArmPageTableAssumption DEF IInv, TypeOK

LEMMA CreateItTableStep ==
  ASSUME IInv, NEW t \in PageTables, NEW va \in VAddrs, CreateItTable(t, va)
  PROVE  IInv'
<1> DEFINE lu == lookup_pt_slot(itRoot, va)
<1>1. /\ itRoot # None /\ TableFits(itRoot, t, va)
      /\ ptCap' = [ptCap EXCEPT ![t] = [asid |-> ItAsid, va |-> va]]
      /\ LeftBehind(unclaimed, {}) /\ UNCHANGED <<vspaceOf, frameCap, boot>>
  BY DEF CreateItTable
<1>2. itRoot \in Roots /\ Space[ItAsid] = itRoot /\ ItAsid \in Asids /\ mem \in Memory
  BY <1>1, BootSpace
<1>3. EndsAt(mem, itRoot, va, lu.level)
      /\ lu.slot = SlotIn(Way(mem, itRoot, va)[lu.level], va, lu.level)
  BY <1>1, LookupIs
<1>4. lu.level \in {0, 1, 2}
  BY <1>1, <1>3 DEF TableFits, EndsAt, Levels
<1>5. lu.level \in Levels /\ find_pt(itRoot, va, lu.level) = lu.slot
  BY <1>2, <1>3, FindIs DEF EndsAt
<1>6. mem' = update(lu.slot, pte_new_table(t))
  <2>1. mem' = CASE lu.level = 0 -> map_it_pud_cap(t, va)
                 [] lu.level = 1 -> map_it_pd_cap(t, va)
                 [] lu.level = 2 -> map_it_pt_cap(t, va)
    BY DEF CreateItTable
  <2> HIDE DEF lu
  <2> QED
    BY <1>4, <1>5, <2>1 DEF map_it_pud_cap, map_it_pd_cap, map_it_pt_cap
<1> QED
  BY <1>1, <1>2, <1>6, LinkStep

LEMMA CreateItFrameStep ==
  ASSUME IInv, NEW f \in Frames, NEW va \in VAddrs, NEW large \in BOOLEAN,
         CreateItFrame(f, va, large)
  PROVE  IInv'
<1> DEFINE lu == lookup_pt_slot(itRoot, va)
           size == IF large THEN 2 ELSE 3
           X == IF large THEN {lu.slot} ELSE {}
<1>1. /\ itRoot # None /\ FrameFits(itRoot, va, 3) /\ frameCap[f] = None
      /\ mem' = update(find_pt(itRoot, va, 3), pte_new_4k_page(f))
      /\ frameCap' = [frameCap EXCEPT ![f] = [asid |-> ItAsid, va |-> va, level |-> size]]
      /\ LeftBehind(IF large THEN unclaimed \cup {find_pt(itRoot, va, 3)}
                             ELSE unclaimed \ {find_pt(itRoot, va, 3)}, {})
      /\ UNCHANGED <<vspaceOf, ptCap, boot>>
  BY DEF CreateItFrame, map_it_frame_cap
<1>2. itRoot \in Roots /\ Space[ItAsid] = itRoot /\ ItAsid \in Asids /\ mem \in Memory
  BY <1>1, BootSpace
<1>3. EndsAt(mem, itRoot, va, lu.level)
      /\ lu.slot = SlotIn(Way(mem, itRoot, va)[lu.level], va, lu.level)
  BY <1>1, LookupIs
<1>4. lu.level = 3
  BY <1>1 DEF FrameFits
<1>5. find_pt(itRoot, va, 3) = lu.slot
  BY <1>2, <1>3, <1>4, FindIs DEF EndsAt
<1>6. mem' = update(lu.slot, make_user_pte(f, 3)) /\ 3 \in 1 .. 3 /\ size \in Levels
  BY <1>1, <1>5 DEF make_user_pte, Levels
<1>7. /\ X \in SUBSET {lu.slot} /\ (size # 3 => X # {})
      /\ LeftBehind((unclaimed \ {lu.slot}) \cup X, {})
  <2>1. (IF large THEN unclaimed \cup {lu.slot} ELSE unclaimed \ {lu.slot})
          = (unclaimed \ {lu.slot}) \cup X
    OBVIOUS
  <2> QED
    BY <1>1, <1>5, <2>1
<1> HIDE DEF X, size
<1> QED
  BY <1>1, <1>2, <1>6, <1>7, FrameStep

LEMMA FinishBootStep == IInv /\ FinishBoot => IInv'
<1> SUFFICES ASSUME IInv, FinishBoot
             PROVE  IInv'
  OBVIOUS
<1>1. TypeOK /\ BootFirst /\ UnclaimedAreValid
      /\ Sound(mem, Space, frameCap, ptCap, displaced, unclaimed)
  BY DEF IInv
<1>2. /\ itRoot # None /\ vspaceOf' = [vspaceOf EXCEPT ![ItAsid] = itRoot]
      /\ booted' = TRUE /\ itRoot' = None
      /\ UNCHANGED <<mem, frameCap, ptCap, unclaimed, displaced>>
  BY DEF FinishBoot, caps, history
<1>3. Space' = Space
  BY <1>1, <1>2 DEF Space, TypeOK
<1>4. TypeOK'
  BY <1>1, <1>2 DEF TypeOK
<1>5. BootFirst' /\ UnclaimedAreValid'
  BY <1>1, <1>2 DEF BootFirst, UnclaimedAreValid
<1> QED
  BY <1>1, <1>2, <1>3, <1>4, <1>5 DEF IInv

LEMMA Booted ==
  ASSUME IInv, booted
  PROVE  /\ itRoot = None /\ Space = vspaceOf /\ mem \in Memory
         /\ Space \in [Asids -> Roots \cup {None}]
         /\ TypeOK /\ BootFirst /\ UnclaimedAreValid
         /\ Sound(mem, Space, frameCap, ptCap, displaced, unclaimed)
BY Typed DEF IInv, BootFirst

LEMMA CreateVSpaceStep ==
  ASSUME IInv, NEW a \in Asids, NEW r \in Roots, CreateVSpace(a, r)
  PROVE  IInv'
<1> DEFINE S2 == [Space EXCEPT ![a] = r]
<1>1. /\ booted /\ vspaceOf[a] = None /\ \A b \in Asids : vspaceOf[b] # r
      /\ mem' = [mem EXCEPT ![r] = Blank] /\ vspaceOf' = [vspaceOf EXCEPT ![a] = r]
      /\ LeftBehind(unclaimed, {})
      /\ UNCHANGED <<frameCap, ptCap, itRoot, booted>>
  BY DEF CreateVSpace, caps, boot
<1>2. /\ itRoot = None /\ Space = vspaceOf /\ mem \in Memory
      /\ Space \in [Asids -> Roots \cup {None}]
      /\ TypeOK /\ BootFirst /\ UnclaimedAreValid
      /\ Sound(mem, Space, frameCap, ptCap, displaced, unclaimed)
  BY <1>1, Booted
<1>3. mem' \in Memory /\ mem'[r] = Blank /\ \A t \in Tables : t # r => mem'[t] = mem[t]
  BY <1>1, <1>2, Objects DEF Memory, Blank, PTE, pte_invalid
<1>4. Space' = S2 /\ S2 \in [Asids -> Roots \cup {None}]
  BY <1>1, <1>2 DEF Space
<1>5. displaced \in SUBSET PageTables /\ unclaimed \in SUBSET Slots
  BY <1>2 DEF TypeOK
<1>6. ASSUME NEW D \in SUBSET PageTables, displaced \cup {} \subseteq D, Closed(mem', D)
      PROVE  Sound(mem', S2, frameCap, ptCap, D, unclaimed)
  <2>1. displaced \subseteq D
    BY <1>6
  <2>2. \A b \in Asids : Space[b] # r
    BY <1>1, <1>2
  <2>3. Sound(mem', S2, frameCap, ptCap, D, unclaimed)
    BY <1>2, <1>3, <1>5, <1>6, <2>1, <2>2, BlankSound
  <2> HIDE DEF S2
  <2> QED
    BY <2>1, <2>3
<1> HIDE DEF S2
<1>7. /\ displaced' \subseteq PageTables /\ unclaimed' \subseteq Slots
      /\ UnclaimedAreValid'
      /\ Sound(mem', S2, frameCap, ptCap, displaced', unclaimed')
  <2>1. {} \in SUBSET PageTables
    OBVIOUS
  <2> QED
    BY <1>1, <1>3, <1>4, <1>5, <1>6, <2>1, Healed
<1>8. TypeOK'
  BY <1>1, <1>2, <1>3, <1>7 DEF TypeOK, Memory
<1>9. BootFirst'
  BY <1>1, <1>2 DEF BootFirst
<1> QED
  BY <1>1, <1>4, <1>7, <1>8, <1>9 DEF IInv

LEMMA SpacesGo ==
  ASSUME IInv, booted, NEW asids \in SUBSET Asids,
         vspaceOf' = [a \in Asids |-> IF a \in asids THEN None ELSE vspaceOf[a]],
         UNCHANGED <<mem, frameCap, ptCap, itRoot, booted, unclaimed, displaced>>
  PROVE  IInv'
<1>1. \A a \in Asids : vspaceOf'[a] \in {vspaceOf[a], None}
  OBVIOUS
<1>2. /\ itRoot = None /\ Space = vspaceOf /\ mem \in Memory
      /\ Space \in [Asids -> Roots \cup {None}]
      /\ TypeOK /\ BootFirst /\ UnclaimedAreValid
      /\ Sound(mem, Space, frameCap, ptCap, displaced, unclaimed)
  BY <1>1, Booted
<1>3. \A a \in Asids : Space'[a] \in {Space[a], None}
  BY <1>1, <1>2 DEF Space
<1>4. Sound(mem, Space', frameCap, ptCap, displaced, unclaimed)
  <2>1. displaced \in SUBSET PageTables
    BY <1>2 DEF TypeOK
  <2> QED
    BY <1>2, <1>3, <2>1, GoneSound
<1>5. TypeOK'
  BY <1>1, <1>2 DEF TypeOK
<1>6. BootFirst' /\ UnclaimedAreValid'
  BY <1>1, <1>2 DEF BootFirst, UnclaimedAreValid
<1> QED
  BY <1>4, <1>5, <1>6 DEF IInv

LEMMA DeleteVSpaceStep ==
  ASSUME IInv, NEW asid \in Asids, DeleteVSpace(asid)
  PROVE  IInv'
<1>1. vspaceOf' = [a \in Asids |-> IF a \in {asid} THEN None ELSE vspaceOf[a]]
  BY DEF DeleteVSpace, IInv, TypeOK
<1>2. booted /\ UNCHANGED <<mem, frameCap, ptCap, itRoot, booted, unclaimed, displaced>>
  BY DEF DeleteVSpace, caps, boot, history
<1> QED
  BY <1>1, <1>2, SpacesGo

LEMMA DeleteAsidPoolStep ==
  ASSUME IInv, NEW asids \in SUBSET Asids, DeleteAsidPool(asids)
  PROVE  IInv'
BY SpacesGo DEF DeleteAsidPool, caps, boot, history

LEMMA MapPageTableStep ==
  ASSUME IInv, NEW t \in PageTables, NEW a \in Asids, NEW va \in VAddrs, MapPageTable(t, a, va)
  PROVE  IInv'
<1>1. /\ booted /\ vspaceOf[a] # None /\ TableFits(vspaceOf[a], t, va)
      /\ mem' = update(lookup_pt_slot(vspaceOf[a], va).slot, pte_new_table(t))
      /\ ptCap' = [ptCap EXCEPT ![t] = [asid |-> a, va |-> va]]
      /\ LeftBehind(unclaimed, {}) /\ UNCHANGED <<vspaceOf, frameCap, boot>>
  BY DEF MapPageTable
<1>2. Space = vspaceOf
  BY <1>1, Booted
<1> QED
  BY <1>1, <1>2, LinkStep

LEMMA MapFrameStep ==
  ASSUME IInv, NEW f \in Frames, NEW a \in Asids, NEW va \in VAddrs, NEW n \in Levels,
         MapFrame(f, a, va, n)
  PROVE  IInv'
<1> DEFINE cap == [asid |-> a, va |-> va, level |-> n]
           slot == lookup_pt_slot(vspaceOf[a], va).slot
<1>1. /\ booted /\ vspaceOf[a] # None /\ FrameFits(vspaceOf[a], va, n)
      /\ frameCap[f] \in {None, cap}
      /\ mem' = update(slot, make_user_pte(f, n))
      /\ frameCap' = [frameCap EXCEPT ![f] = cap]
      /\ LeftBehind(unclaimed \ {slot}, {}) /\ UNCHANGED <<vspaceOf, ptCap, boot>>
  BY DEF MapFrame
<1>2. n \in 1 .. 3
  BY DEF MapFrame, Levels
<1>3. Space = vspaceOf
  BY <1>1, Booted
<1>4. {} \in SUBSET {slot} /\ LeftBehind((unclaimed \ {slot}) \cup {}, {})
  <2>1. (unclaimed \ {slot}) \cup {} = unclaimed \ {slot}
    OBVIOUS
  <2> QED
    BY <1>1, <2>1
<1> QED
  BY <1>1, <1>2, <1>3, <1>4, FrameStep

LEMMA UnmapFrameStep ==
  ASSUME IInv, NEW f \in Frames, UnmapFrame(f)
  PROVE  IInv'
<1> DEFINE cap == frameCap[f]
           lu == lookup_pt_slot(vspaceOf[cap.asid], cap.va)
           Hits == /\ vspaceOf[cap.asid] # None
                   /\ lu.level = cap.level
                   /\ get_type(lu.slot) \in {"pte_page", "pte_4k_page"}
                   /\ PteAt(lu.slot).addr = f
<1>1. /\ booted /\ cap # None
      /\ mem' = unmap_page(cap.level, cap.asid, cap.va, f)
      /\ frameCap' = [frameCap EXCEPT ![f] = None]
      /\ LeftBehind(unclaimed, {}) /\ UNCHANGED <<vspaceOf, ptCap, itRoot, booted>>
  BY DEF UnmapFrame, boot
<1>2. /\ itRoot = None /\ Space = vspaceOf /\ mem \in Memory
      /\ Space \in [Asids -> Roots \cup {None}]
      /\ TypeOK /\ BootFirst /\ UnclaimedAreValid
      /\ Sound(mem, Space, frameCap, ptCap, displaced, unclaimed)
  BY <1>1, Booted
<1>3. /\ displaced \in SUBSET PageTables /\ unclaimed \in SUBSET Slots
      /\ frameCap \in [Frames -> FrameMapping \cup {None}]
  BY <1>2 DEF TypeOK
<1>4. cap.va \in VAddrs /\ Space[cap.asid] \in Roots \cup {None}
  <2>1. cap \in FrameMapping
    BY <1>1, <1>3
  <2> QED
    BY <1>2, <2>1 DEF FrameMapping
<1>5. mem' = IF Hits THEN update(lu.slot, pte_invalid) ELSE mem
  BY <1>1 DEF unmap_page
<1>6. vspaceOf[cap.asid] # None =>
        /\ EndsAt(mem, vspaceOf[cap.asid], cap.va, lu.level)
        /\ lu.slot = SlotIn(Way(mem, vspaceOf[cap.asid], cap.va)[lu.level], cap.va, lu.level)
  BY LookupIs
<1> HIDE DEF lu
<1>7. Hits => mem' = Put(mem, Way(mem, Space[cap.asid], cap.va)[lu.level], cap.va[lu.level], pte_invalid)
  BY <1>2, <1>5, <1>6, UpdateIs
<1>8. Hits => /\ Way(mem, Space[cap.asid], cap.va)[lu.level] \in Tables
              /\ cap.va[lu.level] \in Index
  BY <1>2, <1>4, <1>6, EndIsSlot
<1>9. pte_invalid \in PTE
  BY DEF pte_invalid, PTE
<1>10. /\ mem' \in Memory
       /\ \A t \in Tables, i \in Index : mem'[t][i] = mem[t][i] \/ mem'[t][i] = pte_invalid
       /\ Hits => mem'[Way(mem, Space[cap.asid], cap.va)[lu.level]][cap.va[lu.level]] = pte_invalid
  <2>1. CASE Hits
    BY <1>2, <1>7, <1>8, <1>9, <2>1, PutIs
  <2>2. CASE ~ Hits
    BY <1>2, <1>5, <2>2
  <2> QED
    BY <2>1, <2>2
<1>11. ASSUME NEW n \in Levels, EndsAt(mem, Space[cap.asid], cap.va, n), n = cap.level,
              mem[Way(mem, Space[cap.asid], cap.va)[n]][cap.va[n]].type \in {"pte_page", "pte_4k_page"},
              mem[Way(mem, Space[cap.asid], cap.va)[n]][cap.va[n]].addr = f
       PROVE  mem'[Way(mem, Space[cap.asid], cap.va)[n]][cap.va[n]] = pte_invalid
  <2>1. Space[cap.asid] # None
    <3>1. Way(mem, None, cap.va)[n] = None
      BY <1>4, BlankWay, WayIs
    <3> QED
      BY <1>11, <3>1 DEF EndsAt
  <2>2. lu.level = n
    BY <1>2, <1>6, <1>11, <2>1, OneEnd
  <2>3. Hits
    <3>1. lu.slot = SlotIn(Way(mem, Space[cap.asid], cap.va)[n], cap.va, n)
      BY <1>2, <1>6, <2>1, <2>2
    <3>2. PteAt(lu.slot) = mem[Way(mem, Space[cap.asid], cap.va)[n]][cap.va[n]]
      BY <3>1 DEF PteAt, SlotIn
    <3> QED
      BY <1>2, <1>11, <2>1, <2>2, <3>2 DEF get_type
  <2> HIDE DEF Hits
  <2> QED
    BY <1>10, <2>2, <2>3
<1> HIDE DEF Hits
<1>12. ASSUME NEW D \in SUBSET PageTables, displaced \cup {} \subseteq D, Closed(mem', D)
       PROVE  Sound(mem', Space, frameCap', ptCap, D, unclaimed)
  <2>1. displaced \subseteq D
    BY <1>12
  <2>2. \A n \in Levels :
          LET t == Way(mem, Space[frameCap[f].asid], frameCap[f].va)[n]
              e == mem[t][frameCap[f].va[n]]
          IN  /\ EndsAt(mem, Space[frameCap[f].asid], frameCap[f].va, n)
              /\ n = frameCap[f].level
              /\ e.type \in {"pte_page", "pte_4k_page"} /\ e.addr = f
              => mem'[t][frameCap[f].va[n]] = pte_invalid
    BY <1>11
  <2>3. frameCap[f] # None
    BY <1>1
  <2> HIDE DEF cap
  <2>4. Sound(mem', Space, [frameCap EXCEPT ![f] = None], ptCap, D, unclaimed)
    BY <1>2, <1>3, <1>10, <1>12, <2>1, <2>2, <2>3, ClearSound
  <2> QED
    BY <1>1, <2>1, <2>4
<1>13. /\ displaced' \subseteq PageTables /\ unclaimed' \subseteq Slots
       /\ UnclaimedAreValid'
       /\ Sound(mem', Space, frameCap', ptCap, displaced', unclaimed')
  <2>1. {} \in SUBSET PageTables
    OBVIOUS
  <2> QED
    BY <1>1, <1>2, <1>3, <1>10, <1>12, <2>1, Healed
<1>14. Space' = Space
  BY <1>1, SpaceNext
<1>15. TypeOK'
  BY <1>1, <1>2, <1>3, <1>10, <1>13 DEF TypeOK, Memory
<1>16. BootFirst'
  BY <1>1, <1>2 DEF BootFirst
<1> QED
  BY <1>1, <1>13, <1>14, <1>15, <1>16 DEF IInv

\* The loop of unmap_page_table stops at the first level that has the table.
LEMMA FirstLevel ==
  ASSUME NEW A \in SUBSET (1 .. 3), A # {}
  PROVE  LET n == CHOOSE k \in A : \A j \in A : k <= j
         IN  n \in A /\ \A j \in A : n <= j
<1>0. \A j \in A : j \in {1, 2, 3}
  OBVIOUS
<1>1. \E k \in A : \A j \in A : k <= j
  <2>1. CASE 1 \in A
    BY <1>0, <2>1
  <2>2. CASE 1 \notin A /\ 2 \in A
    BY <1>0, <2>2
  <2>3. CASE 1 \notin A /\ 2 \notin A
    <3>1. \A j \in A : j = 3
      BY <1>0, <2>3
    <3>2. PICK k \in A : TRUE
      OBVIOUS
    <3>3. \A j \in A : k <= j
      BY <3>1
    <3> QED
      BY <3>3
  <2> QED
    BY <2>1, <2>2, <2>3
<1> QED
  BY <1>1

LEMMA UnmapPageTableStep ==
  ASSUME IInv, NEW u \in PageTables, UnmapPageTable(u)
  PROVE  IInv'
<1> DEFINE cap == ptCap[u]
           way == Way(mem, Space[cap.asid], cap.va)
           level == CHOOSE n \in FoundAt(u, cap.asid, cap.va) :
                      \A k \in FoundAt(u, cap.asid, cap.va) : n <= k
           hit == Found(u, cap.asid, cap.va)
           slot == SlotTo(u, cap.asid, cap.va)
           first == mem[u][0]
           X == IF hit THEN {slot} ELSE {}
           tables == IF hit THEN {first.addr} \cap PageTables ELSE {}
<1>1. /\ booted /\ cap # None
      /\ mem' = [unmap_page_table(cap.asid, cap.va, u) EXCEPT ![u] = Blank]
      /\ ptCap' = [ptCap EXCEPT ![u] = None]
      /\ UNCHANGED <<vspaceOf, frameCap, itRoot, booted>>
  BY DEF UnmapPageTable, boot
<1>2. LeftBehind(unclaimed \cup X, tables)
  <2>1. hit => LeftBehind(unclaimed \cup {slot}, {first.addr} \cap PageTables)
    BY DEF UnmapPageTable
  <2>2. ~ hit => LeftBehind(unclaimed, {})
    BY DEF UnmapPageTable
  <2>3. unclaimed \cup {} = unclaimed
    OBVIOUS
  <2> HIDE DEF hit, slot, first
  <2> QED
    BY <2>1, <2>2, <2>3
<1>3. /\ itRoot = None /\ Space = vspaceOf /\ mem \in Memory
      /\ Space \in [Asids -> Roots \cup {None}]
      /\ TypeOK /\ BootFirst /\ UnclaimedAreValid
      /\ Sound(mem, Space, frameCap, ptCap, displaced, unclaimed)
  BY <1>1, Booted
<1>4. /\ displaced \in SUBSET PageTables /\ unclaimed \in SUBSET Slots
      /\ ptCap \in [PageTables -> TableMapping \cup {None}]
  BY <1>3 DEF TypeOK
<1>5. cap.va \in VAddrs /\ Space[cap.asid] \in Roots \cup {None} /\ u \in Tables
  <2>1. cap \in TableMapping
    BY <1>1, <1>4
  <2> QED
    BY <1>3, <2>1, Objects DEF TableMapping
<1>6. 0 \in Index
  <2>1. cap.va[0] \in Index
    BY <1>5, Objects DEF Levels
  <2> QED
    BY <2>1, ArmPageTableAssumption DEF Index
<1>7. FoundAt(u, cap.asid, cap.va) = {n \in 1 .. 3 : way[n] = u}
  BY <1>3, WalkIs DEF FoundAt
<1>8. hit => /\ level \in 1 .. 3 /\ way[level] = u
             /\ \A n \in 1 .. 3 : way[n] = u => level <= n
  <2>1. hit => FoundAt(u, cap.asid, cap.va) # {}
    BY DEF Found
  <2>2. FoundAt(u, cap.asid, cap.va) \in SUBSET (1 .. 3)
    BY <1>7
  <2>3. hit => /\ level \in FoundAt(u, cap.asid, cap.va)
               /\ \A n \in FoundAt(u, cap.asid, cap.va) : level <= n
    BY <2>1, <2>2, FirstLevel
  <2> HIDE DEF level, hit, way
  <2> QED
    BY <1>7, <2>3
<1>9. slot = SlotIn(way[level - 1], cap.va, level - 1)
  BY <1>3, WalkIs DEF SlotTo
<1>10. ASSUME NEW n \in 1 .. 3, way[n] = u
       PROVE  hit
  <2>1. Space[cap.asid] # None
    <3>1. n \in Levels /\ n # 0
      BY LevelBelow
    <3> QED
      BY <1>5, <1>10, <3>1, BlankWay, Objects
  <2> QED
    BY <1>3, <1>7, <1>10, <2>1 DEF Found
<1>11. hit => /\ way[level - 1] \in Tables /\ cap.va[level - 1] \in Index
              /\ mem[way[level - 1]][cap.va[level - 1]].type = "pte_table"
  <2>1. hit => level \in 1 .. 3 /\ way[level] # None
    BY <1>5, <1>8, Objects
  <2> HIDE DEF level, hit
  <2> QED
    BY <1>3, <1>5, <2>1, Above
<1>12. first \in PTE
  BY <1>3, <1>5, <1>6, Entries
<1>13. mem' = [(IF hit THEN update(slot, first) ELSE mem) EXCEPT ![u] = Blank]
  BY <1>1 DEF unmap_page_table
<1> HIDE DEF level, hit, way, slot, first
<1> DEFINE put == IF hit THEN update(slot, first) ELSE mem
<1>14. hit => /\ slot \in Slots /\ mem[slot.table] # Blank
              /\ slot.table \in Tables /\ slot.index \in Index
  <2>1. hit => /\ slot.table = way[level - 1] /\ slot.index = cap.va[level - 1]
               /\ slot = [table |-> slot.table, index |-> slot.index]
    BY <1>9 DEF SlotIn
  <2> QED
    BY <1>11, <2>1 DEF Slots, Blank, pte_invalid
<1>15. /\ put \in Memory
       /\ \A t \in Tables, i \in Index : [table |-> t, index |-> i] \in X \/ put[t][i] = mem[t][i]
       /\ hit => put[slot.table][slot.index] = first
  <2>1. CASE hit
    <3>1. put = Put(mem, slot.table, slot.index, first)
      BY <2>1 DEF update, Put
    <3>2. slot = [table |-> slot.table, index |-> slot.index]
      BY <1>14, <2>1 DEF Slots
    <3> HIDE DEF put
    <3> QED
      BY <1>3, <1>12, <1>14, <2>1, <3>1, <3>2, PutIs
  <2>2. CASE ~ hit
    BY <1>3, <2>2
  <2> QED
    BY <2>1, <2>2
<1> HIDE DEF put
<1>16. /\ mem' \in Memory /\ mem'[u] = Blank
       /\ \A t \in Tables : t # u => mem'[t] = put[t]
  <2>1. mem' = [put EXCEPT ![u] = Blank]
    BY <1>13 DEF put
  <2> QED
    BY <1>5, <1>15, <2>1 DEF Memory, Blank, PTE, pte_invalid
<1>17. \A t \in Tables, i \in Index :
         t = u \/ [table |-> t, index |-> i] \in X \/ mem'[t][i] = mem[t][i]
  BY <1>15, <1>16
<1>18. X \in SUBSET Slots /\ tables \in SUBSET PageTables /\ \A s \in X : mem[s.table] # Blank
  BY <1>14
<1>19. ASSUME NEW D, tables \subseteq D
       PROVE  LeadInto(mem', X, D)
  <2> SUFFICES ASSUME hit, mem'[slot.table][slot.index].type = "pte_table"
               PROVE  mem'[slot.table][slot.index].addr \in D
    BY DEF LeadInto
  <2>1. slot.table # u
    BY <1>14, <1>16 DEF Blank, pte_invalid
  <2>2. mem'[slot.table][slot.index] = first
    BY <1>14, <1>15, <1>16, <2>1
  <2>3. first.addr \in PageTables
    BY <1>12, <2>2 DEF PTE
  <2> QED
    BY <1>19, <2>2, <2>3
<1>20. ASSUME NEW n \in 1 .. 3, way[n] = u, \A k \in 1 .. 3 : way[k] = u => n <= k
       PROVE  SlotIn(way[n - 1], cap.va, n - 1) \in X
  <2>1. hit
    BY <1>10, <1>20
  <2>2. n <= level /\ level <= n /\ level \in 1 .. 3
    BY <1>8, <1>20, <2>1
  <2>3. n = level
    BY <2>2
  <2> QED
    BY <1>9, <2>1, <2>3
<1>21. ASSUME NEW D \in SUBSET PageTables, displaced \cup tables \subseteq D, Closed(mem', D)
       PROVE  Sound(mem', Space, frameCap, ptCap', D, unclaimed \cup X)
  <2>1. displaced \subseteq D /\ LeadInto(mem', X, D)
    BY <1>19, <1>21
  <2> HIDE DEF X
  <2>2. \A n \in 1 .. 3 :
          LET path == Way(mem, Space[ptCap[u].asid], ptCap[u].va)
          IN  path[n] = u /\ (\A k \in 1 .. 3 : path[k] = u => n <= k)
                => SlotIn(path[n - 1], ptCap[u].va, n - 1) \in X
    BY <1>20 DEF way
  <2>3. ptCap[u] # None
    BY <1>1
  <2> HIDE DEF cap
  <2>4. Sound(mem', Space, frameCap, [ptCap EXCEPT ![u] = None], D, unclaimed \cup X)
    BY <1>3, <1>4, <1>16, <1>17, <1>18, <1>21, <2>1, <2>2, <2>3, RemoveSound
  <2> QED
    BY <1>1, <2>4
<1> HIDE DEF X, tables
<1>22. /\ displaced' \subseteq PageTables /\ unclaimed' \subseteq Slots
       /\ UnclaimedAreValid'
       /\ Sound(mem', Space, frameCap, ptCap', displaced', unclaimed')
  <2> DEFINE H == unclaimed \cup X
  <2>1. H \in SUBSET Slots /\ LeftBehind(H, tables)
    BY <1>2, <1>4, <1>18
  <2>2. \A D \in SUBSET PageTables :
          displaced \cup tables \subseteq D /\ Closed(mem', D)
            => Sound(mem', Space, frameCap, ptCap', D, H)
    BY <1>21
  <2> HIDE DEF H
  <2> QED
    BY ONLY <1>3, <1>4, <1>16, <1>18, <2>1, <2>2, Healed
<1>23. Space' = Space
  BY <1>1, SpaceNext
<1>24. TypeOK'
  BY <1>1, <1>3, <1>4, <1>16, <1>22 DEF TypeOK, Memory
<1>25. BootFirst'
  BY <1>1, <1>3 DEF BootFirst
<1> QED
  BY <1>1, <1>22, <1>23, <1>24, <1>25 DEF IInv

LEMMA Inductive == IInv /\ [Next]_vars => IInv'
<1> SUFFICES ASSUME IInv, [Next]_vars
             PROVE  IInv'
  OBVIOUS
<1>1. CASE UNCHANGED vars
  BY <1>1 DEF vars, IInv, TypeOK, BootFirst, UnclaimedAreValid, Space
<1>2. CASE Next
  BY <1>2, CreateItSpaceStep, CreateItTableStep, CreateItFrameStep, FinishBootStep,
     CreateVSpaceStep, DeleteVSpaceStep, DeleteAsidPoolStep, MapPageTableStep, MapFrameStep,
     UnmapFrameStep, UnmapPageTableStep DEF Next
<1> QED
  BY <1>1, <1>2

\* The inductive invariant: Sound of the memory as it is, with the spaces as they are.
THEOREM Invariant == Spec => []IInv
<1>1. Init => IInv
  BY Initial
<1>2. IInv /\ [Next]_vars => IInv'
  BY Inductive
<1> QED
  BY <1>1, <1>2, PTL DEF Spec

\* Every variable keeps to its type: no entry leads to what is not a table, a frame
\* or page 0, and only page tables are ever displaced.
THEOREM TypeCorrect == Spec => []TypeOK
<1>1. IInv => TypeOK
  BY DEF IInv
<1> QED
  BY <1>1, Invariant, PTL

------------------------------------------------------------------------------
(* What the invariant says of live addresses.                              *)

LEMMA LiveIs ==
  ASSUME IInv, NEW p \in Live
  PROVE  /\ p[1] \in Asids /\ p[2] \in VAddrs /\ vspaceOf[p[1]] \in Roots
         /\ booted /\ Space = vspaceOf /\ mem \in Memory
         /\ Space \in [Asids -> Roots \cup {None}]
         /\ Sound(mem, Space, frameCap, ptCap, displaced, unclaimed)
<1>1. p[1] \in Asids /\ p[2] \in VAddrs /\ vspaceOf[p[1]] # None
  BY DEF Live
<1>2. booted
  BY <1>1 DEF IInv, BootFirst
<1>3. vspaceOf[p[1]] \in Roots
  BY <1>1 DEF IInv, TypeOK
<1> QED
  BY <1>1, <1>2, <1>3, Booted

LEMMA WayTyped ==
  ASSUME NEW m \in Memory, NEW r \in Roots, NEW va \in VAddrs, NEW n \in Levels
  PROVE  Way(m, r, va)[n] \in Tables \cup {None}
<1>1. n = 0 => Way(m, r, va)[n] = r /\ r \in Tables
  BY WayIs, Objects
<1>2. n # 0 /\ Way(m, r, va)[n] # None => Way(m, r, va)[n] \in PageTables
  BY LevelCases, Above
<1> QED
  BY <1>1, <1>2, Objects

\* A table is reached in one way, unless unmap_page_table displaced it, with any
\* number of spaces, tables and levels between them.
THEOREM TreesStay == Spec => []TablesFormTrees
<1>1. ASSUME IInv
      PROVE  TablesFormTrees
  <2> SUFFICES ASSUME NEW p \in Live, NEW q \in Live, NEW k \in Levels, NEW n \in Levels,
                      Walk(vspaceOf[p[1]], p[2])[k] # None,
                      Walk(vspaceOf[p[1]], p[2])[k] \notin displaced,
                      Walk(vspaceOf[p[1]], p[2])[k] = Walk(vspaceOf[q[1]], q[2])[n]
               PROVE  p[1] = q[1] /\ k = n /\ SamePage(p[2], q[2], k - 1)
    BY DEF TablesFormTrees
  <2> DEFINE t == Way(mem, vspaceOf[p[1]], p[2])[k]
  <2>1. /\ p[1] \in Asids /\ p[2] \in VAddrs /\ vspaceOf[p[1]] \in Roots
        /\ q[1] \in Asids /\ q[2] \in VAddrs
        /\ Space = vspaceOf /\ mem \in Memory /\ OneWay(mem, Space, displaced)
    BY <1>1, LiveIs DEF Sound
  <2>2. t # None /\ t \notin displaced /\ t = Way(mem, vspaceOf[q[1]], q[2])[n]
    BY WalkIs
  <2>3. t \in Tables
    BY <2>1, <2>2, WayTyped
  <2>4. Passes(mem, Space, p[1], p[2], k, t) /\ Passes(mem, Space, q[1], q[2], n, t)
    BY <2>1, <2>2 DEF Passes
  <2> HIDE DEF t
  <2> QED
    BY <2>1, <2>2, <2>3, <2>4 DEF OneWay
<1> QED
  BY <1>1, Invariant, PTL

\* Where the lookup of a live address ends.
LEMMA EndOf ==
  ASSUME IInv, NEW p \in Live
  PROVE  LET lu == LookupAt(p)
             t  == Way(mem, vspaceOf[p[1]], p[2])[lu.level]
         IN  /\ EndsAt(mem, vspaceOf[p[1]], p[2], lu.level)
             /\ lu.slot = SlotIn(t, p[2], lu.level)
             /\ lu.level \in Levels /\ t \in Tables /\ p[2][lu.level] \in Index
             /\ PteAt(lu.slot) = mem[t][p[2][lu.level]]
             /\ PteAt(lu.slot).type = "pte_table" => lu.level = 3
             /\ ~ Strays(p) => Fits(PteAt(lu.slot), frameCap, p[1], p[2], lu.level)
<1> DEFINE lu == LookupAt(p)
           t  == Way(mem, vspaceOf[p[1]], p[2])[lu.level]
<1>1. /\ p[1] \in Asids /\ p[2] \in VAddrs /\ vspaceOf[p[1]] \in Roots
      /\ Space = vspaceOf /\ mem \in Memory
      /\ FrameCapsTell(mem, Space, frameCap, displaced, unclaimed)
  BY LiveIs DEF Sound
<1>2. EndsAt(mem, vspaceOf[p[1]], p[2], lu.level) /\ lu.slot = SlotIn(t, p[2], lu.level)
  BY <1>1, Objects, LookupIs DEF LookupAt
<1>3. /\ lu.level \in Levels /\ t \in Tables /\ p[2][lu.level] \in Index
      /\ mem[t][p[2][lu.level]].type = "pte_table" => lu.level = 3
  BY <1>1, <1>2, EndIsSlot
<1>4. PteAt(lu.slot) = mem[t][p[2][lu.level]] /\ lu.slot.table = t
  BY <1>2 DEF PteAt, SlotIn
<1>5. Passes(mem, Space, p[1], p[2], lu.level, t)
  BY <1>1 DEF Passes
<1>6. ~ Strays(p) => t \notin displaced /\ SlotIn(t, p[2], lu.level) \notin unclaimed
  BY <1>2, <1>4 DEF Strays
<1> HIDE DEF lu, t
<1>7. ~ Strays(p) => Fits(PteAt(lu.slot), frameCap, p[1], p[2], lu.level)
  BY <1>1, <1>3, <1>4, <1>5, <1>6 DEF FrameCapsTell
<1> QED
  BY <1>2, <1>3, <1>4, <1>7 DEF lu, t

\* A frame is mapped only where its capability says, outside of what
\* unmap_page_table leaves behind.
THEOREM FramesHaveCaps == Spec => []MappedFrameHasCap
<1>1. ASSUME IInv
      PROVE  MappedFrameHasCap
  <2> SUFFICES ASSUME NEW p \in Live, LeafAt(p) # None, ~ Strays(p)
               PROVE  LET cap == frameCap[LeafAt(p).frame]
                      IN  /\ cap # None
                          /\ cap.asid = p[1] /\ cap.level = LeafAt(p).level
                          /\ SamePage(cap.va, p[2], LeafAt(p).level)
    BY DEF MappedFrameHasCap
  <2> DEFINE lu == LookupAt(p)
             e  == PteAt(lu.slot)
  <2>1. Fits(e, frameCap, p[1], p[2], lu.level)
    BY <1>1, EndOf
  <2>2. e.type \in {"pte_page", "pte_4k_page"} /\ LeafAt(p) = [frame |-> e.addr, level |-> lu.level]
    BY DEF LeafAt, get_type
  <2> HIDE DEF lu, e
  <2> QED
    BY <2>1, <2>2 DEF Fits
<1> QED
  BY <1>1, Invariant, PTL

\* An entry is of a kind that the processor reads at its level as the crate does.
THEOREM LeavesFit == Spec => []LeavesFitTheirLevel
<1>1. ASSUME IInv
      PROVE  LeavesFitTheirLevel
  <2> SUFFICES ASSUME NEW p \in Live, ~ Strays(p)
               PROVE  LET lu == LookupAt(p)
                      IN  \/ get_type(lu.slot) = "pte_invalid"
                          \/ get_type(lu.slot) = "pte_4k_page" /\ lu.level = 3
                          \/ get_type(lu.slot) = "pte_page" /\ lu.level \in {1, 2}
    BY DEF LeavesFitTheirLevel
  <2> DEFINE lu == LookupAt(p)
             t  == Way(mem, vspaceOf[p[1]], p[2])[lu.level]
             e  == PteAt(lu.slot)
  <2>1. /\ lu.level \in Levels /\ t \in Tables /\ p[2][lu.level] \in Index
        /\ e = mem[t][p[2][lu.level]]
        /\ e.type = "pte_table" => lu.level = 3
        /\ Fits(e, frameCap, p[1], p[2], lu.level)
    BY <1>1, EndOf
  <2>2. mem \in Memory
    BY <1>1, LiveIs
  <2>3. get_type(lu.slot) = e.type
    BY DEF get_type
  <2> HIDE DEF lu, e, t
  <2>4. e.type \in {"pte_invalid", "pte_table", "pte_page", "pte_4k_page"}
    BY <2>1, <2>2, Entries
  <2>5. e.type # "pte_table"
    <3>1. e.type = "pte_table" => lu.level = 3 /\ lu.level < 3
      BY ONLY <2>1 DEF Fits
    <3> QED
      BY ONLY <3>1
  <2>6. \/ get_type(lu.slot) = "pte_invalid"
        \/ get_type(lu.slot) = "pte_4k_page" /\ lu.level = 3
        \/ get_type(lu.slot) = "pte_page" /\ lu.level \in {1, 2}
    BY ONLY <2>1, <2>3, <2>4, <2>5 DEF Fits
  <2> QED
    BY <2>6 DEF lu
<1> QED
  BY <1>1, Invariant, PTL

------------------------------------------------------------------------------
(* What a step leaves mapped.                                              *)

\* A lookup ends where it ended while what is linked stays linked.
LEMMA Kept ==
  ASSUME NEW m \in Memory, NEW w \in Memory, NEW r \in Roots, NEW va \in VAddrs, NEW n,
         EndsAt(m, r, va, n),
         m[Way(m, r, va)[n]][va[n]].type # "pte_table",
         w[Way(m, r, va)[n]][va[n]].type # "pte_table",
         \A t \in PageTables \cup {r}, i \in Index :
           m[t][i].type = "pte_table" => w[t][i] = m[t][i]
  PROVE  EndsAt(w, r, va, n) /\ Way(w, r, va)[n] = Way(m, r, va)[n]
<1> DEFINE old == Way(m, r, va)
           new == Way(w, r, va)
           X == {k \in Levels : old[k] # None => new[k] = old[k]}
<1>1. old[0] = r /\ new[0] = r
      /\ \A k \in 1 .. 3 : new[k] = Below(w, new[k - 1], va[k - 1])
  BY WayIs
<1>2. ASSUME NEW k \in 1 .. 3, k - 1 \in X, old[k] # None
      PROVE  new[k] = old[k]
  <2>1. /\ old[k - 1] \in Tables /\ va[k - 1] \in Index /\ old[k] \in PageTables
        /\ m[old[k - 1]][va[k - 1]].type = "pte_table" /\ m[old[k - 1]][va[k - 1]].addr = old[k]
    BY <1>2, Above
  <2>2. old[k - 1] \in PageTables \cup {r}
    <3>1. k - 1 \in Levels
      BY LevelBelow
    <3> QED
      BY <2>1, <3>1, TopOfWay
  <2> HIDE DEF old, new
  <2>3. new[k - 1] = old[k - 1] /\ old[k - 1] # None
    BY <1>2, <2>1, Objects
  <2>4. w[old[k - 1]][va[k - 1]] = m[old[k - 1]][va[k - 1]]
    BY <2>1, <2>2
  <2> QED
    BY <1>1, <2>1, <2>3, <2>4 DEF Below
<1> HIDE DEF old, new
<1>3. ASSUME NEW k \in 1 .. 3, k - 1 \in X
      PROVE  k \in X
  BY <1>2, <1>3, LevelBelow
<1>4. 0 \in X
  BY <1>1 DEF Levels
<1> HIDE DEF X
<1>5. n \in Levels /\ old[n] # None
  BY DEF EndsAt, old
<1>6. new[n] = old[n]
  BY <1>3, <1>4, <1>5, LevelInduction DEF X
<1>7. new[n] \in Tables
  BY <1>5, <1>6, WayTyped DEF old
<1>8. EndsAt(w, r, va, n)
  BY <1>5, <1>6, <1>7, LeafEnds DEF old, new
<1> QED
  BY <1>6, <1>8 DEF old, new

\* So an address is found to map what is in its slot now.
LEMMA LeafNow ==
  ASSUME IInv, IInv', NEW p \in Live, LeafAt(p) # None,
         vspaceOf'[p[1]] = vspaceOf[p[1]],
         NEW e, e = mem'[LookupAt(p).slot.table][LookupAt(p).slot.index],
         e.type \in {"pte_page", "pte_4k_page"},
         \A t \in PageTables \cup {vspaceOf[p[1]]}, i \in Index :
           mem[t][i].type = "pte_table" => mem'[t][i] = mem[t][i]
  PROVE  LeafAt(p)' = [frame |-> e.addr, level |-> LookupAt(p).level]
<1> DEFINE r == vspaceOf[p[1]]
           va == p[2]
           lu == LookupAt(p)
           n == lu.level
           t == Way(mem, r, va)[n]
           new == lookup_pt_slot(r, va)'
<1>1. va \in VAddrs /\ r \in Roots /\ mem \in Memory /\ mem' \in Memory /\ r # None
  BY LiveIs, Objects DEF IInv, TypeOK, Memory
<1>2. /\ EndsAt(mem, r, va, n) /\ lu.slot = SlotIn(t, va, n)
      /\ PteAt(lu.slot) = mem[t][va[n]]
  BY EndOf
<1>3. /\ PteAt(lu.slot).type \in {"pte_page", "pte_4k_page"}
      /\ LeafAt(p) = [frame |-> PteAt(lu.slot).addr, level |-> n]
  BY DEF LeafAt, get_type
<1>4. mem'[t][va[n]] = e
  BY <1>2 DEF SlotIn
<1> HIDE DEF lu, n, t
<1>5. EndsAt(mem', r, va, n) /\ Way(mem', r, va)[n] = t
  <2>1. \A x \in PageTables \cup {r}, i \in Index :
          mem[x][i].type = "pte_table" => mem'[x][i] = mem[x][i]
    OBVIOUS
  <2>2. mem[t][va[n]].type # "pte_table" /\ mem'[t][va[n]].type # "pte_table"
    BY <1>2, <1>3, <1>4
  <2> HIDE DEF r, va
  <2> QED
    BY ONLY <1>1, <1>2, <2>1, <2>2, Kept DEF t
<1>6. /\ EndsAt(mem', r, va, new.level)
      /\ new.slot = SlotIn(Way(mem', r, va)[new.level], va, new.level)
  BY <1>1, LookupIsNext
<1>7. LookupAt(p)' = new
  BY DEF LookupAt, lookup_pt_slot, Walk
<1> HIDE DEF new
<1>8. new.level = n /\ new.slot = SlotIn(t, va, n)
  BY <1>1, <1>5, <1>6, OneEnd
<1>9. LookupAt(p)'.slot.table = t /\ LookupAt(p)'.slot.index = va[n] /\ LookupAt(p)'.level = n
  BY <1>7, <1>8 DEF SlotIn
<1>10. PteAt(LookupAt(p).slot)' = e
  BY <1>4, <1>9 DEF PteAt
<1>11. LeafAt(p)' = [frame |-> e.addr, level |-> n]
  BY <1>9, <1>10 DEF LeafAt, get_type
<1> QED
  BY <1>11 DEF n, lu

\* A write where a lookup ends, but for tables there.
LEMMA EndWritten ==
  ASSUME IInv, NEW p \in Live, LeafAt(p) # None, NEW a \in Asids, NEW va \in VAddrs, NEW e \in PTE,
         vspaceOf[a] # None,
         get_type(lookup_pt_slot(vspaceOf[a], va).slot) # "pte_table",
         mem' = update(lookup_pt_slot(vspaceOf[a], va).slot, e)
  PROVE  /\ LET now == mem'[LookupAt(p).slot.table][LookupAt(p).slot.index]
            IN  \/ now = PteAt(LookupAt(p).slot)
                \/ now = e /\ get_type(lookup_pt_slot(vspaceOf[a], va).slot) # "pte_invalid"
         /\ \A t \in Tables, i \in Index :
              mem[t][i].type = "pte_table" => mem'[t][i] = mem[t][i]
<1> DEFINE r == vspaceOf[a]
           n == lookup_pt_slot(r, va).level
           t == Way(mem, r, va)[n]
           lu == LookupAt(p)
<1>1. mem \in Memory /\ Space = vspaceOf /\ Space \in [Asids -> Roots \cup {None}]
  BY LiveIs
<1>2. EndsAt(mem, r, va, n) /\ lookup_pt_slot(r, va).slot = SlotIn(t, va, n)
  BY LookupIs
<1> HIDE DEF n
<1>3. t \in Tables /\ va[n] \in Index
  BY <1>1, <1>2, EndIsSlot
<1>4. /\ get_type(lookup_pt_slot(r, va).slot) = mem[t][va[n]].type
      /\ mem[t][va[n]].type # "pte_table"
  BY <1>2 DEF get_type, PteAt, SlotIn
<1>5. mem' = Put(mem, t, va[n], e)
  BY <1>2, UpdateIs
<1> HIDE DEF t
<1>6. /\ \A u \in Tables, i \in Index : u # t \/ i # va[n] => mem'[u][i] = mem[u][i]
      /\ mem'[t][va[n]] = e
  BY <1>1, <1>3, <1>5, PutIs
<1>7. PteAt(lu.slot).type \in {"pte_page", "pte_4k_page"}
  BY DEF LeafAt, get_type
<1>8. lu.slot.table \in Tables /\ lu.slot.index \in Index
      /\ PteAt(lu.slot) = mem[lu.slot.table][lu.slot.index]
  <2>1. /\ lu.slot = SlotIn(Way(mem, vspaceOf[p[1]], p[2])[lu.level], p[2], lu.level)
        /\ Way(mem, vspaceOf[p[1]], p[2])[lu.level] \in Tables /\ p[2][lu.level] \in Index
    BY EndOf
  <2> HIDE DEF lu
  <2> QED
    BY <2>1 DEF SlotIn, PteAt
<1> HIDE DEF lu
<1>9. CASE lu.slot.table = t /\ lu.slot.index = va[n]
  BY <1>4, <1>6, <1>7, <1>8, <1>9 DEF lu
<1>10. CASE lu.slot.table # t \/ lu.slot.index # va[n]
  BY <1>4, <1>6, <1>8, <1>10 DEF lu
<1> QED
  BY <1>9, <1>10

\* A mapping of a live space ends only with its frame's capability, with another's
\* mapping, with some page table's, or with the space: for unmap_page compares the entry with the frame.
THEOREM OnlyOwners == Spec => OnlyItsOwnerUnmaps
<1> DEFINE StaysMapped(p) ==
             LET leaf == LeafAt(p)
             IN  leaf # None =>
                   \/ vspaceOf'[p[1]] # vspaceOf[p[1]]
                   \/ LeafAt(p)' = leaf
                   \/ frameCap'[leaf.frame] = None
                   \/ \E f \in Frames :
                        frameCap'[f] # None /\ LeafAt(p)' = [frame |-> f, level |-> leaf.level]
                   \/ \E t \in PageTables : ptCap[t] # None /\ ptCap'[t] = None
<1>1. ASSUME IInv, IInv', [Next]_vars, NEW p \in Live
      PROVE  StaysMapped(p)
  <2> SUFFICES ASSUME LeafAt(p) # None, vspaceOf'[p[1]] = vspaceOf[p[1]]
               PROVE  \/ LeafAt(p)' = LeafAt(p)
                      \/ frameCap'[LeafAt(p).frame] = None
                      \/ \E f \in Frames :
                           /\ frameCap'[f] # None
                           /\ LeafAt(p)' = [frame |-> f, level |-> LeafAt(p).level]
                      \/ \E t \in PageTables : ptCap[t] # None /\ ptCap'[t] = None
    OBVIOUS
  <2> DEFINE r == vspaceOf[p[1]]
             lu == LookupAt(p)
  <2>1. /\ p[1] \in Asids /\ p[2] \in VAddrs /\ r \in Roots /\ booted /\ itRoot = None
        /\ Space = vspaceOf /\ mem \in Memory /\ Space \in [Asids -> Roots \cup {None}]
    BY <1>1, LiveIs, Booted
  <2>2. r \in Tables /\ \A t \in PageTables \cup {r} : t \in Tables
    BY <2>1, Objects
  <2>3. /\ lu.slot.table \in Tables /\ lu.slot.index \in Index
        /\ lu.slot = [table |-> lu.slot.table, index |-> lu.slot.index]
        /\ PteAt(lu.slot) = mem[lu.slot.table][lu.slot.index]
        /\ lu.slot.table \in PageTables \cup {r}
        /\ PteAt(lu.slot).type \in {"pte_page", "pte_4k_page"}
        /\ LeafAt(p) = [frame |-> PteAt(lu.slot).addr, level |-> lu.level]
    <3>1. EndsAt(mem, r, p[2], lu.level)
          /\ lu.slot = SlotIn(Way(mem, r, p[2])[lu.level], p[2], lu.level)
          /\ Way(mem, r, p[2])[lu.level] \in Tables /\ p[2][lu.level] \in Index
          /\ lu.level \in Levels
      BY <1>1, EndOf
    <3>2. Way(mem, r, p[2])[lu.level] \in PageTables \cup {r}
      BY <2>1, <3>1, TopOfWay
    <3>3. PteAt(lu.slot).type \in {"pte_page", "pte_4k_page"}
          /\ LeafAt(p) = [frame |-> PteAt(lu.slot).addr, level |-> lu.level]
      BY DEF LeafAt, get_type
    <3> HIDE DEF lu, r
    <3> QED
      BY ONLY <3>1, <3>2, <3>3 DEF SlotIn, PteAt
  <2> HIDE DEF lu
  <2> DEFINE Same == /\ PteAt(lu.slot) = mem'[lu.slot.table][lu.slot.index]
                     /\ \A t \in PageTables \cup {r}, i \in Index :
                          mem[t][i].type = "pte_table" => mem'[t][i] = mem[t][i]
  <2>4. Same => LeafAt(p)' = LeafAt(p)
    BY <1>1, <2>3, LeafNow DEF lu
  <2>5. CASE mem' = mem
    BY <2>3, <2>4, <2>5
  <2>6. ASSUME NEW a \in Asids, NEW s \in Roots, CreateVSpace(a, s)
        PROVE  Same
    <3>1. r # s /\ s \notin PageTables
      BY <2>1, <2>6, Objects DEF CreateVSpace
    <3>2. \A t \in PageTables \cup {r} : mem'[t] = mem[t]
      BY <2>1, <2>2, <2>6, <3>1 DEF CreateVSpace, Memory
    <3> QED
      BY <2>3, <3>2
  <2>7. ASSUME NEW t \in PageTables, NEW a \in Asids, NEW va \in VAddrs, MapPageTable(t, a, va)
        PROVE  Same
    <3>1. pte_new_table(t) \in PTE
      BY DEF PTE, pte_new_table
    <3> QED
      BY <1>1, <2>2, <2>7, <3>1, EndWritten DEF MapPageTable, TableFits, lu
  <2>8. ASSUME NEW f \in Frames, NEW a \in Asids, NEW va \in VAddrs, NEW n \in Levels,
               MapFrame(f, a, va, n)
        PROVE  \/ Same
               \/ /\ frameCap'[f] # None
                  /\ LeafAt(p)' = [frame |-> f, level |-> LeafAt(p).level]
    <3> DEFINE e == make_user_pte(f, n)
               now == mem'[lu.slot.table][lu.slot.index]
    <3>1. e \in PTE /\ e.type \in {"pte_page", "pte_4k_page"} /\ e.addr = f
      BY DEF PTE, make_user_pte, pte_new_page, pte_new_4k_page
    <3>2. /\ now = PteAt(lu.slot) \/ now = e
          /\ \A t \in Tables, i \in Index :
               mem[t][i].type = "pte_table" => mem'[t][i] = mem[t][i]
      <4>1. /\ mem' = update(lookup_pt_slot(vspaceOf[a], va).slot, e) /\ vspaceOf[a] # None
            /\ get_type(lookup_pt_slot(vspaceOf[a], va).slot) # "pte_table"
        BY <2>8 DEF MapFrame, FrameFits
      <4> HIDE DEF e
      <4> QED
        BY <1>1, <3>1, <4>1, EndWritten DEF lu
    <3> HIDE DEF e, now
    <3>3. CASE now = PteAt(lu.slot)
      BY <2>2, <3>2, <3>3 DEF now
    <3>4. CASE now = e
      <4>1. LeafAt(p)' = [frame |-> e.addr, level |-> lu.level]
        BY <1>1, <2>2, <3>1, <3>2, <3>4, LeafNow DEF lu, now
      <4>2. [asid |-> a, va |-> va, level |-> n] # None
        BY ArmPageTableAssumption DEF FrameMapping
      <4>3. frameCap'[f] # None
        BY <1>1, <2>8, <4>2 DEF MapFrame, IInv, TypeOK
      <4> QED
        BY <2>3, <3>1, <4>1, <4>3
    <3> QED
      BY <3>2, <3>3, <3>4
  <2>9. ASSUME NEW f \in Frames, UnmapFrame(f), f # LeafAt(p).frame
        PROVE  Same
    <3> DEFINE cap == frameCap[f]
               at == lookup_pt_slot(vspaceOf[cap.asid], cap.va)
    <3>1. \/ mem' = mem
          \/ /\ vspaceOf[cap.asid] # None
             /\ PteAt(at.slot).type \in {"pte_page", "pte_4k_page"} /\ PteAt(at.slot).addr = f
             /\ mem' = update(at.slot, pte_invalid)
      BY <2>9 DEF UnmapFrame, unmap_page, get_type
    <3>2. CASE mem' = mem
      BY <2>3, <3>2
    <3>3. CASE /\ vspaceOf[cap.asid] # None
               /\ PteAt(at.slot).type \in {"pte_page", "pte_4k_page"} /\ PteAt(at.slot).addr = f
               /\ mem' = update(at.slot, pte_invalid)
      <4>1. \A t \in Tables, i \in Index :
              t # at.slot.table \/ i # at.slot.index => mem'[t][i] = mem[t][i]
        BY <2>1, <3>3 DEF update, Memory
      <4>2. PteAt(at.slot) = mem[at.slot.table][at.slot.index]
        BY DEF PteAt
      <4> HIDE DEF at
      <4>3. lu.slot.table # at.slot.table \/ lu.slot.index # at.slot.index
        BY <2>3, <2>9, <3>3, <4>2
      <4>4. mem[at.slot.table][at.slot.index].type # "pte_table"
        BY <3>3, <4>2
      <4> QED
        BY <2>2, <2>3, <4>1, <4>3, <4>4
    <3> QED
      BY <3>1, <3>2, <3>3
  <2>10. ASSUME NEW f \in Frames, UnmapFrame(f)
         PROVE  frameCap'[f] = None
    BY <1>1, <2>10 DEF UnmapFrame, IInv, TypeOK
  <2>11. ASSUME NEW t \in PageTables, UnmapPageTable(t)
         PROVE  ptCap[t] # None /\ ptCap'[t] = None
    BY <1>1, <2>11 DEF UnmapPageTable, IInv, TypeOK
  <2>12. ASSUME NEW x \in Roots, CreateItSpace(x)
         PROVE  mem' = mem
    BY <2>12 DEF CreateItSpace
  <2>13. ASSUME NEW t \in PageTables, NEW va \in VAddrs, CreateItTable(t, va)
         PROVE  FALSE
    BY <2>1, <2>13 DEF CreateItTable
  <2>14. ASSUME NEW f \in Frames, NEW va \in VAddrs, NEW l \in BOOLEAN, CreateItFrame(f, va, l)
         PROVE  FALSE
    BY <2>1, <2>14 DEF CreateItFrame
  <2>15. \/ FinishBoot \/ UNCHANGED vars \/ \E a \in Asids : DeleteVSpace(a)
         \/ \E asids \in SUBSET Asids : DeleteAsidPool(asids)
         => mem' = mem
    BY DEF FinishBoot, vars, DeleteVSpace, DeleteAsidPool
  <2> HIDE DEF Same
  <2> QED
    BY <1>1, <2>4, <2>5, <2>6, <2>7, <2>8, <2>9, <2>10, <2>11, <2>12, <2>13, <2>14, <2>15 DEF Next
<1>2. IInv /\ IInv' /\ [Next]_vars => \A p \in Live : StaysMapped(p)
  BY <1>1
<1>3. [][Next]_vars /\ []IInv => [][\A p \in Live : StaysMapped(p)]_vars
  BY <1>2, PTL
<1> QED
  BY <1>3, Invariant, PTL DEF Spec, OnlyItsOwnerUnmaps

------------------------------------------------------------------------------
(* Where the spaces come from.                                             *)

\* find_vspace_for_asid, as the page tables use it, whatever the pools.
AsidLayer == INSTANCE AsidMap WITH Blocks <- SUBSET Asids, NoRoot <- None

\* The spaces come and go here as AsidMap lets them, which is what the tables and
\* pools of the ASID layer are shown to implement: a space has one ASID, and an
\* ASID keeps to its space until it is deleted.
THEOREM SpacesComeFromTheAsidLayer == Spec => AsidLayer!Spec
<1>1. Init => AsidLayer!Init
  BY DEF Init, AsidLayer!Init
<1>2. ASSUME IInv, [Next]_vars
      PROVE  [AsidLayer!Next]_vspaceOf
  <2>1. ASSUME NEW a \in Asids, NEW r \in Roots, CreateVSpace(a, r)
        PROVE  AsidLayer!Bind(a, r)
    BY <2>1 DEF CreateVSpace, AsidLayer!Bind
  <2>2. ASSUME NEW a \in Asids, DeleteVSpace(a)
        PROVE  AsidLayer!Release(a)
    BY <2>2 DEF DeleteVSpace, AsidLayer!Release
  <2>3. ASSUME NEW asids \in SUBSET Asids, DeleteAsidPool(asids)
        PROVE  AsidLayer!ReleaseBlock(asids)
    BY <2>3 DEF DeleteAsidPool, AsidLayer!ReleaseBlock
  <2>4. CASE FinishBoot
    <3>1. itRoot \in Roots /\ ItAsid \in Asids /\ \A a \in Asids : vspaceOf[a] # itRoot
      BY <1>2, <2>4, ArmPageTableAssumption
         DEF FinishBoot, IInv, BootFirst, TypeOK
    <3>2. vspaceOf[ItAsid] = None
      BY <1>2, <2>4, <3>1 DEF FinishBoot, IInv, BootFirst, TypeOK
    <3>3. AsidLayer!Bind(ItAsid, itRoot)
      BY <2>4, <3>1, <3>2 DEF FinishBoot, AsidLayer!Bind
    <3> QED
      BY <3>1, <3>3 DEF AsidLayer!Next
  <2>5. CASE \/ \E r \in Roots : CreateItSpace(r)
             \/ \E t \in PageTables, va \in VAddrs : CreateItTable(t, va)
             \/ \E f \in Frames, va \in VAddrs, l \in BOOLEAN : CreateItFrame(f, va, l)
             \/ \E t \in PageTables, a \in Asids, va \in VAddrs : MapPageTable(t, a, va)
             \/ \E f \in Frames, a \in Asids, va \in VAddrs, n \in Levels : MapFrame(f, a, va, n)
             \/ \E f \in Frames : UnmapFrame(f)
             \/ \E t \in PageTables : UnmapPageTable(t)
             \/ UNCHANGED vars
    <3>1. vspaceOf' = vspaceOf
      BY <2>5 DEF CreateItSpace, CreateItTable, CreateItFrame, MapPageTable, MapFrame,
         UnmapFrame, UnmapPageTable, vars
    <3> QED
      BY <3>1
  <2> QED
    BY <1>2, <2>1, <2>2, <2>3, <2>4, <2>5 DEF Next, AsidLayer!Next
<1> QED
  BY <1>1, <1>2, Invariant, PTL DEF Spec, AsidLayer!Spec
==============================================================================
