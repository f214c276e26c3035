---------------------------- MODULE ArmCacheProofs ----------------------------
(***************************************************************************)
(* What ArmCache guarantees for every memory, every geometry of the caches *)
(* and every range that do_flush is given.                                 *)
(*                                                                         *)
(* All that has yet to take effect is one sequence, pending: the queue of  *)
(* the data cache and then the program.  The invariant says of every line  *)
(* that could still break a promise that the operation that settles it is  *)
(* pending, and of pending that its barriers are where they must be.       *)
(*                                                                         *)
(*  - What the loops issue is computed for every range from FlattenSeq and *)
(*    the lines of the range, and what the boot code issues from Operand,  *)
(*    whose three fields Decode reads back: the induction over numbers is  *)
(*    the library's well-founded induction, applied to sets.               *)
(*  - A step of anybody else is Calm: it dirties no line, takes no line to *)
(*    a lower level and takes nothing from what a device has written.      *)
(*  - A step of the processor moreover Leaves one element of pending and   *)
(*    has the Effect of that element.  Each part of the invariant follows  *)
(*    from these three alone, whatever the instruction.                    *)
(***************************************************************************)
EXTENDS ArmCache, WellFoundedInduction, TLAPS
------------------------------------------------------------------------------
(* What is pending, and the inductive invariant.                           *)

\* The lines of memory.
Lns == 0 .. Lines - 1

\* The elements of a sequence.
Elems(s) == {s[k] : k \in 1 .. Len(s)}

\* An instruction and its argument.
Ins(name, arg) == <<name, arg>>

\* The operations on the data cache, which take effect as late as the next dsb.
IsDc(x) == x[1] \in {"dc cvac", "dc cvau", "dc ivac", "dc civac", "dc cisw"}

\* The operations on the instruction cache.
IsIc(x) == x[1] \in {"ic ivau", "ic iallu"}

\* The one operation that may lose data.
IsIvac(x) == x[1] = "dc ivac"

\* The operation by set and way.
IsSw(x) == x[1] = "dc cisw"

\* A barrier.
Plain(x) == ~ IsDc(x) /\ ~ IsIc(x)

\* The level that an operation by set and way cleans.
LevelOf(x) == Decode(x[2]).level

\* Every operation on the data cache has a dsb behind it.
Awaited(s) == \A i \in 1 .. Len(s) : IsDc(s[i]) => \E j \in i + 1 .. Len(s) : s[j] = dsb

\* A dsb stands between an operation on the data cache and every later one on
\* the instruction cache.
Fenced(s) == \A i, j \in 1 .. Len(s) :
               IsIc(s[i]) /\ IsDc(s[j]) => \E d \in j + 1 .. i - 1 : s[d] = dsb

\* Every y has an x before it.
Precedes(s, x, y) == \A i \in 1 .. Len(s) : s[i] = y => \E j \in 1 .. i - 1 : s[j] = x

\* Operations by set and way go from a level to one further out.
Ascending(s) == \A i, j \in 1 .. Len(s) :
                  i <= j /\ IsSw(s[i]) /\ IsSw(s[j]) => LevelOf(s[i]) <= LevelOf(s[j])

\* The instructions after which line l is clean.
Cleans(x, l) == x \in {Ins("dc cvac", l), Ins("dc cvau", l), Ins("dc civac", l)}

\* The instructions after which line l is not in the data cache.
Drops(x, l)  == x \in {Ins("dc ivac", l), Ins("dc civac", l)}

\* The lines of a range, its end included.
Over(start, end) == LINE_INDEX(start) .. LINE_INDEX(end)

\* What has yet to take effect, in the order in which it will.
pending == queue \o program

\* The bytes of a line that no device writes.
Owned(l) == BytesOf(l) \ Dma

\* The types.
Typed == TypeOK /\ DOMAIN dcache = Lns /\ DOMAIN icache = Lns

\* Only operations on the data cache wait, and the barriers are in place.
Ordering ==
  /\ \A k \in 1 .. Len(queue) : IsDc(queue[k])
  /\ Awaited(pending) /\ Fenced(pending)

\* A clean line has what memory has, in the bytes that the CPU writes.
Copies ==
  \A l \in Lns : dcache[l] # None /\ ~ dcache[l].dirty =>
    \A a \in Owned(l) : dcache[l].data[a] = memory[a]

\* The boot code's operation is the first; until it is done every cached line
\* has a slot, and a slot has one line.
Places ==
  /\ op # None => (op.label = "boot" <=> ~ booted)
  /\ ~ booted => \A l \in Lns : dcache[l] # None =>
       /\ dcache[l].slot \in Slots
       /\ \A m \in Lns : dcache[m] # None /\ dcache[m].slot = dcache[l].slot => l = m

\* The slots that a line in slot may yet be in when it is cleaned.
Beyond(t, slot) == t = slot \/ t.level > slot.level

\* While the boot code sweeps, every slot that a dirty line is in or may move to
\* is still to be cleaned, the levels in ascending order: so no line slips out of
\* a level that is to come into one that is done.
Sweeping ==
  /\ Ascending(pending)
  /\ \A x \in Elems(pending) : IsSw(x) => ~ booted
  /\ op # None /\ op.label = "boot" =>
       \A l \in Lns : Dirty(l) => \A t \in Slots : Beyond(t, dcache[l].slot) =>
         \E x \in Elems(pending) : IsSw(x) /\ Decode(x[2]) = t

\* The bytes that an invalidation was asked to drop.
Given(a) == op.label = "Invalidate_Data" /\ a \in op.range

\* A dirty line with a byte that nobody gave up is cleaned before it is
\* invalidated.
Neighbours ==
  op # None => \A l \in Lns : \A a \in Owned(l) : Dirty(l) /\ ~ Given(a) =>
    Precedes(pending, Ins("dc cvac", l), Ins("dc ivac", l))

\* A dirty line of a range under a cleaning operation is still to be cleaned.
Cleaning ==
  op # None /\ op.label \in {"Clean_Data", "CleanInvalidate_Data", "Unify_Instruction"} =>
    \A a \in op.range : Dirty(LINE_INDEX(a)) =>
      \E x \in Elems(pending) : Cleans(x, LINE_INDEX(a))

\* What a device had written before the operation is in memory, and is read by
\* the CPU unless the line is still to be dropped.
Delivered ==
  op # None => \A a \in op.delivered :
    /\ memory[a] = 1 /\ ~ Dirty(LINE_INDEX(a))
    /\ op.label \in {"Invalidate_Data", "CleanInvalidate_Data"} =>
         View(a) = 1 \/ \E x \in Elems(pending) : Drops(x, LINE_INDEX(a))

\* What the instruction cache has of a line is what memory has.
Fetched(l) == icache[l] # None => \A a \in Owned(l) : icache[l][a] = memory[a]

\* A line of a range under Unify_Instruction is clean and the instruction cache
\* agrees with memory, or it is still to leave the instruction cache, which is
\* never before the data cache is clean (Ordering).
Fetching ==
  op # None /\ op.label \in {"Unify_Instruction", "boot"} => \A a \in op.range :
    \/ ~ Dirty(LINE_INDEX(a)) /\ Fetched(LINE_INDEX(a))
    \/ Ins("ic ivau", LINE_INDEX(a)) \in Elems(pending)
    \/ Ins("ic iallu", None) \in Elems(pending)

\* The inductive invariant.
IInv ==
  /\ Typed /\ Ordering /\ Copies /\ Places
  /\ Sweeping /\ Neighbours /\ Cleaning /\ Delivered /\ Fetching

------------------------------------------------------------------------------
(* Induction over numbers; the powers of two.                              *)

\* The order that induction goes by.
Less == {ss \in Nat \X Nat : ss[1] < ss[2]}

\* Induction over the naturals, as a fact about sets.
LEMMA SetInduction ==
  ASSUME NEW S \in SUBSET Nat, 0 \in S, \A n \in S : n + 1 \in S
  PROVE  S = Nat
<1> DEFINE T == Nat \ S
<1>1. SUFFICES ASSUME T # {} PROVE FALSE
  BY Zenon
<1>2. IsWellFoundedOn(Less, Nat)
  BY NatLessThanWellFounded DEF OpToRel, Less
<1>3. \E x \in T : \A y \in T : ~ (<<y, x>> \in Less)
  <2>1. T \subseteq Nat OBVIOUS
  <2> HIDE DEF T
  <2> QED BY <1>1, <1>2, <2>1, WFMin
<1>4. PICK x \in T : \A y \in T : ~ (<<y, x>> \in Less)
  BY <1>3
<1>5. \A y \in T : ~ (y < x)
  BY <1>4 DEF Less
<1>6. x # 0 /\ x - 1 \in Nat /\ x - 1 \in S
  BY <1>5
<1> QED BY <1>6

\* Induction up to a bound.
LEMMA IntervalInduction ==
  ASSUME NEW m \in Nat, NEW S, 0 \in S, \A n \in 0 .. m - 1 : n \in S => n + 1 \in S
  PROVE  0 .. m \subseteq S
<1> DEFINE T == {n \in Nat : n <= m => n \in S}
<1>1. 0 \in T /\ \A n \in T : n + 1 \in T
  OBVIOUS
<1>2. T = Nat
  <2>1. T \subseteq Nat OBVIOUS
  <2> HIDE DEF T
  <2> QED BY <1>1, <2>1, SetInduction
<1> QED BY <1>2

\* The function that defines bit, up to n.
BitsTo(n, f) == f = [i \in 0 .. n |-> IF i = 0 THEN 1 ELSE 2 * f[i - 1]]

\* There is one up to every n.
LEMMA BitUpTo ==
  ASSUME NEW n \in Nat
  PROVE  \E f : BitsTo(n, f)
<1> DEFINE S == {k \in Nat : \E f : BitsTo(k, f)}
<1>1. 0 \in S
  <2>1. BitsTo(0, [i \in 0 .. 0 |-> 1])
    BY DEF BitsTo
  <2> QED BY <2>1
<1>2. ASSUME NEW k \in S PROVE k + 1 \in S
  <2>1. PICK f : BitsTo(k, f) OBVIOUS
  <2> DEFINE g == [i \in 0 .. k + 1 |-> IF i = k + 1 THEN 2 * f[k] ELSE f[i]]
  <2>2. ASSUME NEW i \in 0 .. k + 1 PROVE g[i] = IF i = 0 THEN 1 ELSE 2 * g[i - 1]
    BY <2>1 DEF BitsTo
  <2>3. BitsTo(k + 1, g)
    BY <2>2, Zenon DEF BitsTo
  <2> QED BY <2>3
<1>3. S = Nat
  <2> HIDE DEF S
  <2>1. S \subseteq Nat BY DEF S
  <2> QED BY <1>1, <1>2, <2>1, SetInduction
<1> QED BY <1>3

\* Two of them agree as far as both go.
LEMMA BitUpToUnique ==
  ASSUME NEW m \in Nat, NEW n \in Nat, NEW f, NEW g, BitsTo(m, f), BitsTo(n, g),
         NEW i \in Nat, i <= m, i <= n
  PROVE  f[i] = g[i]
<1> DEFINE S == {k \in Nat : (k <= m /\ k <= n) => f[k] = g[k]}
<1>1. 0 \in S
  BY DEF BitsTo
<1>2. ASSUME NEW k \in S PROVE k + 1 \in S
  BY DEF BitsTo
<1>3. S = Nat
  <2> HIDE DEF S
  <2>1. S \subseteq Nat BY DEF S
  <2> QED BY <1>1, <1>2, <2>1, SetInduction
<1> QED BY <1>3

\* bit satisfies its own definition.
LEMMA BitUnfold == bit = [n \in Nat |-> IF n = 0 THEN 1 ELSE 2 * bit[n - 1]]
<1> DEFINE F(n) == CHOOSE f : BitsTo(n, f)
           g == [n \in Nat |-> F(n)[n]]
<1>1. \A n \in Nat : BitsTo(n, F(n))
  BY BitUpTo, Zenon
<1> HIDE DEF F
<1>2. ASSUME NEW n \in Nat PROVE g[n] = IF n = 0 THEN 1 ELSE 2 * g[n - 1]
  <2>1. F(n)[n] = IF n = 0 THEN 1 ELSE 2 * F(n)[n - 1]
    BY <1>1 DEF BitsTo
  <2>2. n # 0 => F(n)[n - 1] = F(n - 1)[n - 1]
    BY <1>1, BitUpToUnique
  <2> QED BY <2>1, <2>2
<1>3. g = [n \in Nat |-> IF n = 0 THEN 1 ELSE 2 * g[n - 1]]
  BY <1>2, Zenon
<1>4. \E f : f = [n \in Nat |-> IF n = 0 THEN 1 ELSE 2 * f[n - 1]]
  <2> HIDE DEF g
  <2> QED BY <1>3, Zenon
<1> QED BY <1>4, Zenon DEF bit

\* A shift by nothing multiplies by 1.
LEMMA BitZero == bit[0] = 1
BY BitUnfold

\* A shift by one more doubles.
LEMMA BitNext ==
  ASSUME NEW n \in Nat
  PROVE  bit[n + 1] = 2 * bit[n]
<1>1. n + 1 \in Nat /\ n + 1 # 0 /\ (n + 1) - 1 = n OBVIOUS
<1>2. bit[n + 1] = IF n + 1 = 0 THEN 1 ELSE 2 * bit[(n + 1) - 1]
  BY <1>1, BitUnfold, Zenon
<1> QED BY <1>1, <1>2

\* No power of two is 0.
LEMMA BitType == \A n \in Nat : bit[n] \in Nat \ {0}
<1> DEFINE S == {n \in Nat : bit[n] \in Nat \ {0}}
<1>1. 0 \in S BY BitZero
<1>2. ASSUME NEW n \in S PROVE n + 1 \in S
  BY BitNext
<1>3. S = Nat
  <2> HIDE DEF S
  <2>1. S \subseteq Nat BY DEF S
  <2> QED BY <1>1, <1>2, <2>1, SetInduction
<1> QED BY <1>3

\* A shift by a sum is a shift after a shift.
LEMMA BitPlus ==
  ASSUME NEW m \in Nat, NEW n \in Nat
  PROVE  bit[m + n] = bit[m] * bit[n]
<1> DEFINE S == {k \in Nat : bit[m + k] = bit[m] * bit[k]}
<1>1. 0 \in S BY BitZero, BitType
<1>2. ASSUME NEW k \in S PROVE k + 1 \in S
  <2>1. bit[m + (k + 1)] = 2 * bit[m + k]
    <3>1. m + k \in Nat /\ (m + k) + 1 = m + (k + 1) OBVIOUS
    <3>2. bit[(m + k) + 1] = 2 * bit[m + k] BY <3>1, BitNext
    <3> QED BY <3>1, <3>2
  <2>2. bit[k + 1] = 2 * bit[k] BY BitNext
  <2>3. bit[m] \in Nat /\ bit[k] \in Nat BY BitType
  <2>4. 2 * (bit[m] * bit[k]) = bit[m] * (2 * bit[k]) BY <2>3
  <2> QED BY <2>1, <2>2, <2>4
<1>3. S = Nat
  <2> HIDE DEF S
  <2>1. S \subseteq Nat BY DEF S
  <2> QED BY <1>1, <1>2, <2>1, SetInduction
<1> QED BY <1>3

\* A shift by more is no less.
LEMMA BitMonotone ==
  ASSUME NEW m \in Nat, NEW n \in Nat, m <= n
  PROVE  bit[m] <= bit[n]
<1>1. bit[m + (n - m)] = bit[m] * bit[n - m] BY BitPlus
<1>2. m + (n - m) = n OBVIOUS
<1>3. bit[m] \in Nat /\ bit[n - m] \in Nat \ {0} BY BitType
<1>4. bit[m] <= bit[m] * bit[n - m] BY <1>3
<1> QED BY <1>1, <1>2, <1>4

\* A number that fits a word is written in the bits that BitsOf counts.
LEMMA BitsOfWidth ==
  ASSUME NEW n \in Nat, n < bit[WordBits]
  PROVE  BitsOf(n) \in 0 .. WordBits /\ n < bit[BitsOf(n)]
<1> USE ArmCacheAssumption
<1> DEFINE Good(b) == n < bit[b] /\ (b = 0 \/ bit[b - 1] <= n)
<1>1. \E b \in 0 .. WordBits : Good(b)
  <2>1. SUFFICES ASSUME \A b \in 0 .. WordBits : ~ Good(b) PROVE FALSE
    OBVIOUS
  <2> DEFINE S == {b \in Nat : ~ (n < bit[b])}
  <2>2. 0 \in S BY <2>1, BitType
  <2>3. ASSUME NEW b \in 0 .. WordBits - 1, b \in S PROVE b + 1 \in S
    <3>1. ~ Good(b + 1) BY <2>1
    <3>2. bit[b] \in Nat /\ bit[b + 1] \in Nat BY BitType
    <3> QED BY <2>3, <3>1, <3>2
  <2>4. 0 .. WordBits \subseteq S
    <3> HIDE DEF S
    <3> QED BY <2>2, <2>3, IntervalInduction
  <2> QED BY <2>4
<1>2. BitsOf(n) = CHOOSE b \in 0 .. WordBits : Good(b)
  BY Zenon DEF BitsOf
<1> HIDE DEF Good
<1>3. BitsOf(n) \in 0 .. WordBits /\ Good(BitsOf(n))
  BY <1>1, <1>2, Zenon
<1> QED BY <1>3 DEF Good

------------------------------------------------------------------------------
(* FlattenSeq: the concatenation of any number of sequences.               *)

\* The function that the library's FlattenSeq is read off: the concatenation of
\* the first i sequences, for every i up to n.
FlatTo(ss, n, f) == f = [i \in 1 .. n |-> IF i = 1 THEN ss[i] ELSE f[i - 1] \o ss[i]]

\* at tells for every element of s which of the first n sequences of ss it comes
\* from: in their order, and none of their elements is lost.
Locates(at, s, ss, n) ==
  /\ at \in [1 .. Len(s) -> 1 .. n]
  /\ \A j, k \in 1 .. Len(s) : j <= k => at[j] <= at[k]
  /\ \A k \in 1 .. Len(s) : \E p \in 1 .. Len(ss[at[k]]) : s[k] = ss[at[k]][p]
  /\ \A i \in 1 .. n : \A p \in 1 .. Len(ss[i]) :
       \E k \in 1 .. Len(s) : at[k] = i /\ s[k] = ss[i][p]

\* There is such a function, for as many sequences as there are.
LEMMA FlatUpTo ==
  ASSUME NEW ss, NEW n \in Nat
  PROVE  \E f : FlatTo(ss, n + 1, f)
<1> DEFINE S == {k \in Nat : \E f : FlatTo(ss, k + 1, f)}
<1>1. 0 \in S
  <2> DEFINE f == [i \in 1 .. 1 |-> ss[i]]
  <2>1. \A i \in 1 .. 1 : f[i] = IF i = 1 THEN ss[i] ELSE f[i - 1] \o ss[i]
    OBVIOUS
  <2>2. FlatTo(ss, 1, f)
    BY <2>1, Zenon DEF FlatTo
  <2> QED BY <2>2
<1>2. ASSUME NEW k \in S PROVE k + 1 \in S
  <2>1. PICK f : FlatTo(ss, k + 1, f) OBVIOUS
  <2> DEFINE g == [i \in 1 .. k + 2 |-> IF i = k + 2 THEN f[k + 1] \o ss[k + 2] ELSE f[i]]
  <2>2. ASSUME NEW i \in 1 .. k + 2
        PROVE  g[i] = IF i = 1 THEN ss[i] ELSE g[i - 1] \o ss[i]
    <3>1. CASE i = k + 2
      <4>1. i # 1 /\ i - 1 \in 1 .. k + 2 /\ i - 1 # k + 2 /\ i - 1 = k + 1 BY <3>1
      <4> QED BY <3>1, <4>1
    <3>2. CASE i # k + 2
      <4>1. i \in 1 .. k + 1 /\ (i # 1 => i - 1 \in 1 .. k + 1) BY <3>2
      <4>2. f[i] = IF i = 1 THEN ss[i] ELSE f[i - 1] \o ss[i]
        BY <2>1, <4>1, Zenon DEF FlatTo
      <4>3. g[i] = f[i] /\ (i # 1 => g[i - 1] = f[i - 1]) BY <3>2, <4>1
      <4> QED BY <4>2, <4>3, Zenon
    <3> QED BY <3>1, <3>2
  <2>3. FlatTo(ss, k + 2, g)
    BY <2>2, Zenon DEF FlatTo
  <2>4. k + 2 = (k + 1) + 1 /\ k + 1 \in Nat OBVIOUS
  <2> HIDE DEF g
  <2> QED BY <2>3, <2>4
<1>3. S = Nat
  <2> HIDE DEF S
  <2>1. S \subseteq Nat BY DEF S
  <2> QED BY <1>1, <1>2, <2>1, SetInduction
<1> QED BY <1>3

\* FlattenSeq is its last value.
LEMMA FlattenUnfold ==
  ASSUME NEW ss, Len(ss) \in Nat, Len(ss) # 0
  PROVE  \E f : FlatTo(ss, Len(ss), f) /\ FlattenSeq(ss) = f[Len(ss)]
<1>1. Len(ss) - 1 \in Nat /\ (Len(ss) - 1) + 1 = Len(ss) OBVIOUS
<1>2. \E f : FlatTo(ss, Len(ss), f) BY <1>1, FlatUpTo
<1> DEFINE F == CHOOSE f : FlatTo(ss, Len(ss), f)
<1>3. FlatTo(ss, Len(ss), F) BY <1>2, Zenon
<1>4. FlattenSeq(ss) = F[Len(ss)] BY Zenon DEF FlattenSeq, FlatTo
<1> QED BY <1>3, <1>4, Zenon

\* One more sequence at the end.
LEMMA LocatesNext ==
  ASSUME NEW S, NEW ss \in Seq(Seq(S)), NEW n \in 1 .. Len(ss) - 1,
         NEW s \in Seq(S), NEW at, Locates(at, s, ss, n)
  PROVE  s \o ss[n + 1] \in Seq(S) /\ \E to : Locates(to, s \o ss[n + 1], ss, n + 1)
<1> DEFINE t == ss[n + 1]
           r == s \o t
           to == [k \in 1 .. Len(r) |-> IF k <= Len(s) THEN at[k] ELSE n + 1]
<1>1. n + 1 \in 1 .. Len(ss) /\ t \in Seq(S) OBVIOUS
<1>2. /\ r \in Seq(S) /\ Len(r) = Len(s) + Len(t) /\ Len(s) \in Nat /\ Len(t) \in Nat
      /\ \A k \in 1 .. Len(s) : k \in 1 .. Len(r) /\ r[k] = s[k]
      /\ \A p \in 1 .. Len(t) : Len(s) + p \in 1 .. Len(r) /\ r[Len(s) + p] = t[p]
      /\ \A k \in 1 .. Len(r) : k > Len(s) => k - Len(s) \in 1 .. Len(t) /\ r[k] = t[k - Len(s)]
  BY <1>1
<1> HIDE DEF r, t
<1>3. /\ at \in [1 .. Len(s) -> 1 .. n]
      /\ \A j, k \in 1 .. Len(s) : j <= k => at[j] <= at[k]
      /\ \A k \in 1 .. Len(s) : \E p \in 1 .. Len(ss[at[k]]) : s[k] = ss[at[k]][p]
      /\ \A i \in 1 .. n : \A p \in 1 .. Len(ss[i]) :
           \E k \in 1 .. Len(s) : at[k] = i /\ s[k] = ss[i][p]
  BY DEF Locates
<1>4. to \in [1 .. Len(r) -> 1 .. n + 1]
  BY <1>2, <1>3
<1>5. ASSUME NEW j \in 1 .. Len(r), NEW k \in 1 .. Len(r), j <= k PROVE to[j] <= to[k]
  <2>1. CASE k <= Len(s)
    <3>1. j \in 1 .. Len(s) /\ k \in 1 .. Len(s) BY <1>2, <1>5, <2>1
    <3>2. at[j] <= at[k] BY <1>3, <1>5, <3>1
    <3>3. to[j] = at[j] /\ to[k] = at[k] BY <1>5, <3>1
    <3> QED BY <3>2, <3>3
  <2>2. CASE k > Len(s)
    <3>1. to[k] = n + 1 BY <1>2, <2>2
    <3>2. to[j] \in 1 .. n + 1 BY <1>4
    <3> QED BY <3>1, <3>2
  <2> QED BY <1>2, <2>1, <2>2
<1>6. ASSUME NEW k \in 1 .. Len(r)
      PROVE  \E p \in 1 .. Len(ss[to[k]]) : r[k] = ss[to[k]][p]
  <2>1. CASE k <= Len(s)
    <3>1. k \in 1 .. Len(s) /\ to[k] = at[k] /\ r[k] = s[k] BY <1>2, <2>1
    <3>2. PICK p \in 1 .. Len(ss[at[k]]) : s[k] = ss[at[k]][p] BY <1>3, <3>1
    <3> HIDE DEF to
    <3> QED BY <3>1, <3>2, Zenon
  <2>2. CASE k > Len(s)
    <3>1. to[k] = n + 1 /\ k - Len(s) \in 1 .. Len(t) /\ r[k] = t[k - Len(s)]
      BY <1>2, <2>2
    <3> HIDE DEF to
    <3> QED BY <3>1 DEF t
  <2> QED BY <1>2, <2>1, <2>2
<1>7. ASSUME NEW i \in 1 .. n + 1, NEW p \in 1 .. Len(ss[i])
      PROVE  \E k \in 1 .. Len(r) : to[k] = i /\ r[k] = ss[i][p]
  <2>1. CASE i = n + 1
    <3>1. p \in 1 .. Len(t) /\ ss[i][p] = t[p] BY <2>1 DEF t
    <3>2. Len(s) + p \in 1 .. Len(r) /\ r[Len(s) + p] = t[p] /\ to[Len(s) + p] = n + 1
      BY <1>2, <3>1
    <3> QED BY <2>1, <3>1, <3>2
  <2>2. CASE i # n + 1
    <3>1. i \in 1 .. n BY <2>2
    <3>2. PICK k \in 1 .. Len(s) : at[k] = i /\ s[k] = ss[i][p] BY <1>3, <3>1
    <3>3. k \in 1 .. Len(r) /\ to[k] = at[k] /\ r[k] = s[k] BY <1>2
    <3> QED BY <3>2, <3>3
  <2> QED BY <2>1, <2>2
<1>8. Locates(to, r, ss, n + 1)
  <2> HIDE DEF to
  <2> QED BY <1>4, <1>5, <1>6, <1>7 DEF Locates
<1> QED BY <1>2, <1>8 DEF r, t

\* A concatenation has the elements of its parts, in the order of the parts.
LEMMA Flattened ==
  ASSUME NEW S, NEW ss \in Seq(Seq(S))
  PROVE  FlattenSeq(ss) \in Seq(S) /\ \E at : Locates(at, FlattenSeq(ss), ss, Len(ss))
<1>1. CASE Len(ss) = 0
  <2>1. FlattenSeq(ss) = ss BY <1>1, Zenon DEF FlattenSeq
  <2>2. ss = <<>> BY <1>1
  <2>3. Locates(<<>>, <<>>, <<>>, 0) BY DEF Locates
  <2> QED BY <2>1, <2>2, <2>3
<1>2. CASE Len(ss) # 0
  <2>1. Len(ss) \in Nat OBVIOUS
  <2>2. PICK f : FlatTo(ss, Len(ss), f) /\ FlattenSeq(ss) = f[Len(ss)]
    BY <1>2, <2>1, FlattenUnfold, Zenon
  <2>3. \A i \in 1 .. Len(ss) : f[i] = IF i = 1 THEN ss[i] ELSE f[i - 1] \o ss[i]
    BY <2>2, Zenon DEF FlatTo
  <2> DEFINE T == {n \in Nat : n + 1 <= Len(ss) =>
                      f[n + 1] \in Seq(S) /\ \E at : Locates(at, f[n + 1], ss, n + 1)}
  <2>4. 0 \in T
    <3>1. 1 \in 1 .. Len(ss) /\ f[1] = ss[1] BY <1>2, <2>1, <2>3
    <3>2. ss[1] \in Seq(S) BY <3>1
    <3>3. Locates([k \in 1 .. Len(ss[1]) |-> 1], ss[1], ss, 1) BY <3>2, SMTT(20) DEF Locates
    <3> QED BY <3>1, <3>2, <3>3
  <2>5. ASSUME NEW n \in T PROVE n + 1 \in T
    <3>1. SUFFICES ASSUME (n + 1) + 1 <= Len(ss)
                   PROVE  f[(n + 1) + 1] \in Seq(S) /\ \E at : Locates(at, f[(n + 1) + 1], ss, (n + 1) + 1)
      OBVIOUS
    <3> DEFINE m == n + 1
    <3>2. m \in 1 .. Len(ss) - 1 /\ m + 1 \in 1 .. Len(ss) /\ m + 1 # 1 /\ (m + 1) - 1 = m
      BY <2>1, <3>1
    <3>3. f[m] \in Seq(S) /\ \E at : Locates(at, f[m], ss, m) BY <3>2
    <3>4. f[m + 1] = f[m] \o ss[m + 1] BY <2>3, <3>2
    <3> HIDE DEF m, T
    <3>5. PICK at : Locates(at, f[m], ss, m) BY <3>3
    <3>6. f[m] \o ss[m + 1] \in Seq(S) /\ \E to : Locates(to, f[m] \o ss[m + 1], ss, m + 1)
      BY <3>2, <3>3, <3>5, LocatesNext
    <3> QED BY <3>4, <3>6 DEF m
  <2>6. T = Nat
    <3> HIDE DEF T
    <3>1. T \subseteq Nat BY DEF T
    <3> QED BY <2>4, <2>5, <3>1, SetInduction
  <2>7. Len(ss) - 1 \in Nat /\ (Len(ss) - 1) + 1 = Len(ss) BY <1>2, <2>1
  <2>8. Len(ss) - 1 \in T BY <2>6, <2>7, Zenon
  <2>9. f[Len(ss)] \in Seq(S) /\ \E at : Locates(at, f[Len(ss)], ss, Len(ss))
    BY <2>1, <2>7, <2>8
  <2> QED BY <2>2, <2>9
<1> QED BY <1>1, <1>2

------------------------------------------------------------------------------
(* Bytes and lines.                                                        *)

\* A number is read back from a multiple and a rest.
LEMMA DivMul ==
  ASSUME NEW d \in Nat \ {0}, NEW k \in Nat, NEW x \in 0 .. d - 1
  PROVE  (k * d + x) \div d = k /\ (k * d + x) % d = x
<1>1. k * d \in Nat /\ k * d + x \in Nat OBVIOUS
<1> QED BY <1>1, Z3

\* Every number is one.
LEMMA Split ==
  ASSUME NEW n \in Nat, NEW d \in Nat \ {0}
  PROVE  /\ n \div d \in Nat
         /\ n % d \in 0 .. d - 1
         /\ n = (n \div d) * d + (n % d)
OBVIOUS

\* The line of a byte contains it.
LEMMA LineOfByte ==
  ASSUME NEW a \in Bytes
  PROVE  /\ LINE_INDEX(a) \in Lns
         /\ a \in BytesOf(LINE_INDEX(a))
<1> USE ArmCacheAssumption
<1> DEFINE l == a \div LineSize
<1>1. a \in Nat /\ a < Lines * LineSize BY DEF Bytes
<1>2. l \in Nat /\ a % LineSize \in 0 .. LineSize - 1 /\ a = l * LineSize + (a % LineSize)
  BY <1>1, Split
<1> HIDE DEF l
<1>3. l < Lines
  <2>1. SUFFICES ASSUME Lines <= l PROVE FALSE BY <1>2
  <2>2. Lines * LineSize <= l * LineSize BY <1>2, <2>1
  <2> QED BY <1>1, <1>2, <2>2
<1>4. (l + 1) * LineSize = l * LineSize + LineSize BY <1>2
<1> QED BY <1>1, <1>2, <1>3, <1>4 DEF l, LINE_INDEX, BytesOf, Lns

\* A byte of a line has that line.
LEMMA ByteOfLine ==
  ASSUME NEW l \in Lns, NEW a \in BytesOf(l)
  PROVE  a \in Bytes /\ LINE_INDEX(a) = l
<1> USE ArmCacheAssumption
<1>1. l \in Nat /\ l * LineSize \in Nat /\ (l + 1) * LineSize = l * LineSize + LineSize
  BY DEF Lns
<1>2. a - l * LineSize \in 0 .. LineSize - 1 /\ a \in Nat
  BY <1>1 DEF BytesOf
<1>3. (l * LineSize + (a - l * LineSize)) \div LineSize = l
  BY <1>1, <1>2, DivMul
<1>4. l * LineSize + (a - l * LineSize) = a BY <1>1, <1>2
<1>5. a < Lines * LineSize
  <2>1. l + 1 <= Lines BY DEF Lns
  <2>2. (l + 1) * LineSize <= Lines * LineSize BY <1>1, <2>1
  <2> QED BY <1>1, <1>2, <2>2
<1> QED BY <1>2, <1>3, <1>4, <1>5 DEF LINE_INDEX, Bytes

\* A later byte is in no earlier line.
LEMMA LinesInOrder ==
  ASSUME NEW a \in Bytes, NEW b \in Bytes, a <= b
  PROVE  LINE_INDEX(a) <= LINE_INDEX(b)
<1> USE ArmCacheAssumption
<1> DEFINE l == LINE_INDEX(a)
           m == LINE_INDEX(b)
<1>1. l \in Lns /\ m \in Lns /\ a \in BytesOf(l) /\ b \in BytesOf(m)
  BY LineOfByte
<1> HIDE DEF l, m
<1>2. SUFFICES ASSUME m + 1 <= l PROVE FALSE BY <1>1 DEF l, m, Lns
<1>3. l \in Nat /\ m \in Nat BY <1>1 DEF Lns
<1>4. (m + 1) * LineSize <= l * LineSize BY <1>2, <1>3
<1>5. a >= l * LineSize /\ b < (m + 1) * LineSize BY <1>1, <1>3 DEF BytesOf
<1> QED BY <1>3, <1>4, <1>5 DEF Bytes

------------------------------------------------------------------------------
(* What a program promises, when it is put together of two.                *)

\* A dsb is neither an operation on a cache nor waits for one.
LEMMA BarrierKind == ~ IsIc(dsb) /\ ~ IsDc(dsb)
BY DEF IsIc, IsDc, dsb

\* An index of a concatenation is one of its first or of its second part.
LEMMA ConcatIndex ==
  ASSUME NEW S, NEW s \in Seq(S), NEW t \in Seq(S)
  PROVE  /\ s \o t \in Seq(S) /\ Len(s \o t) = Len(s) + Len(t)
         /\ Len(s) \in Nat /\ Len(t) \in Nat
         /\ \A k \in 1 .. Len(s) : k \in 1 .. Len(s \o t) /\ (s \o t)[k] = s[k]
         /\ \A k \in 1 .. Len(t) : Len(s) + k \in 1 .. Len(s \o t)
                                   /\ (s \o t)[Len(s) + k] = t[k]
         /\ \A k \in 1 .. Len(s \o t) : k <= Len(s) => k \in 1 .. Len(s)
         /\ \A k \in 1 .. Len(s \o t) : k > Len(s) =>
              k - Len(s) \in 1 .. Len(t) /\ (s \o t)[k] = t[k - Len(s)]
OBVIOUS

\* A concatenation has the elements of both.
LEMMA ConcatElems ==
  ASSUME NEW S, NEW s \in Seq(S), NEW t \in Seq(S)
  PROVE  Elems(s \o t) = Elems(s) \cup Elems(t)
<1> DEFINE r == s \o t
<1>0. /\ Len(r) = Len(s) + Len(t)
      /\ Len(s) \in Nat /\ Len(t) \in Nat
      /\ \A k \in 1 .. Len(s) : k \in 1 .. Len(r) /\ r[k] = s[k]
      /\ \A k \in 1 .. Len(t) : Len(s) + k \in 1 .. Len(r) /\ r[Len(s) + k] = t[k]
      /\ \A k \in 1 .. Len(r) : k > Len(s) => k - Len(s) \in 1 .. Len(t) /\ r[k] = t[k - Len(s)]
  BY ConcatIndex
<1> HIDE DEF r
<1>1. ASSUME NEW x \in Elems(r) PROVE x \in Elems(s) \cup Elems(t)
  <2>1. PICK k \in 1 .. Len(r) : x = r[k] BY DEF Elems
  <2>2. CASE k <= Len(s)
    <3>1. k \in 1 .. Len(s) /\ x = s[k] BY <1>0, <2>1, <2>2
    <3> QED BY <3>1 DEF Elems
  <2>3. CASE k > Len(s)
    <3>1. k - Len(s) \in 1 .. Len(t) /\ x = t[k - Len(s)] BY <1>0, <2>1, <2>3
    <3> QED BY <3>1 DEF Elems
  <2> QED BY <1>0, <2>1, <2>2, <2>3
<1>2. ASSUME NEW k \in 1 .. Len(s) PROVE s[k] \in Elems(r)
  BY <1>0 DEF Elems
<1>3. ASSUME NEW k \in 1 .. Len(t) PROVE t[k] \in Elems(r)
  BY <1>0 DEF Elems
<1>4. Elems(s) \subseteq Elems(r) BY <1>2 DEF Elems
<1>5. Elems(t) \subseteq Elems(r) BY <1>3 DEF Elems
<1> QED BY <1>1, <1>4, <1>5 DEF r

\* What comes first is awaited if what comes next awaits or has a dsb.
LEMMA AwaitedThen ==
  ASSUME NEW S, NEW s \in Seq(S), NEW t \in Seq(S),
         Awaited(t), Awaited(s) \/ dsb \in Elems(t)
  PROVE  Awaited(s \o t)
<1> DEFINE r == s \o t
<1>0. /\ Len(r) = Len(s) + Len(t)
      /\ Len(s) \in Nat /\ Len(t) \in Nat
      /\ \A k \in 1 .. Len(s) : k \in 1 .. Len(r) /\ r[k] = s[k]
      /\ \A k \in 1 .. Len(t) : Len(s) + k \in 1 .. Len(r) /\ r[Len(s) + k] = t[k]
      /\ \A k \in 1 .. Len(r) : k > Len(s) => k - Len(s) \in 1 .. Len(t) /\ r[k] = t[k - Len(s)]
  BY ConcatIndex
<1> HIDE DEF r
<1>1. ASSUME NEW i \in 1 .. Len(r), IsDc(r[i])
      PROVE  \E j \in i + 1 .. Len(r) : r[j] = dsb
  <2>1. CASE i > Len(s)
    <3>1. i - Len(s) \in 1 .. Len(t) /\ r[i] = t[i - Len(s)] BY <1>0, <2>1
    <3>2. PICK j \in (i - Len(s)) + 1 .. Len(t) : t[j] = dsb BY <1>1, <3>1 DEF Awaited
    <3>3. j \in 1 .. Len(t) /\ Len(s) + j \in i + 1 .. Len(r) BY <1>0, <2>1, <3>1
    <3>4. r[Len(s) + j] = dsb BY <1>0, <3>2, <3>3
    <3> QED BY <3>3, <3>4
  <2>2. CASE i <= Len(s) /\ dsb \in Elems(t)
    <3>1. PICK j \in 1 .. Len(t) : t[j] = dsb BY <2>2 DEF Elems
    <3>2. Len(s) + j \in i + 1 .. Len(r) /\ r[Len(s) + j] = dsb BY <1>0, <2>2, <3>1
    <3> QED BY <3>2
  <2>3. CASE i <= Len(s) /\ Awaited(s)
    <3>1. i \in 1 .. Len(s) /\ r[i] = s[i] BY <1>0, <2>3
    <3>2. PICK j \in i + 1 .. Len(s) : s[j] = dsb BY <1>1, <2>3, <3>1 DEF Awaited
    <3>3. j \in 1 .. Len(s) /\ j \in i + 1 .. Len(r) BY <1>0, <3>1
    <3>4. r[j] = dsb BY <1>0, <3>2, <3>3
    <3> QED BY <3>3, <3>4
  <2> QED BY <1>0, <2>1, <2>2, <2>3
<1> QED BY <1>1 DEF Awaited, r

\* Operations on the data cache, a dsb, operations on the instruction cache.
LEMMA FencedThen ==
  ASSUME NEW S, NEW s \in Seq(S), NEW t \in Seq(S),
         \A x \in Elems(s) : ~ IsIc(x), \A x \in Elems(t) : ~ IsDc(x)
  PROVE  Fenced(s \o <<dsb>> \o t)
<1> DEFINE r == s \o <<dsb>> \o t
<1>1. /\ Len(r) = Len(s) + 1 + Len(t) /\ Len(s) \in Nat /\ Len(t) \in Nat
      /\ r[Len(s) + 1] = dsb
      /\ \A k \in 1 .. Len(s) : r[k] = s[k]
      /\ \A k \in 1 .. Len(r) : k > Len(s) + 1 =>
           k - (Len(s) + 1) \in 1 .. Len(t) /\ r[k] = t[k - (Len(s) + 1)]
  OBVIOUS
<1> HIDE DEF r
<1>2. \A k \in 1 .. Len(r) : k <= Len(s) => ~ IsIc(r[k])
  BY <1>1 DEF Elems
<1>3. \A k \in 1 .. Len(r) : k > Len(s) + 1 => ~ IsDc(r[k])
  BY <1>1 DEF Elems
<1>4. ~ IsIc(r[Len(s) + 1]) /\ ~ IsDc(r[Len(s) + 1])
  BY <1>1, BarrierKind, Zenon
<1>5. ASSUME NEW i \in 1 .. Len(r), NEW j \in 1 .. Len(r), IsIc(r[i]), IsDc(r[j])
      PROVE  \E d \in j + 1 .. i - 1 : r[d] = dsb
  <2>1. i # Len(s) + 1 /\ j # Len(s) + 1 BY <1>4, <1>5
  <2>2. ~ (i <= Len(s)) /\ ~ (j > Len(s) + 1) BY <1>2, <1>3, <1>5
  <2>3. Len(s) + 1 \in j + 1 .. i - 1 BY <1>1, <2>1, <2>2
  <2> QED BY <1>1, <2>3
<1> QED BY <1>5 DEF Fenced, r

\* Without operations on the instruction cache there is nothing to fence.
LEMMA NoIcFenced ==
  ASSUME NEW s, \A x \in Elems(s) : ~ IsIc(x)
  PROVE  Fenced(s)
BY DEF Fenced, Elems

\* If all of the y are in the second part, an x in the first precedes them.
LEMMA PrecedesThen ==
  ASSUME NEW S, NEW s \in Seq(S), NEW t \in Seq(S), NEW x, NEW y,
         x \in Elems(s), y \notin Elems(s)
  PROVE  Precedes(s \o t, x, y)
<1> DEFINE r == s \o t
<1>0. /\ Len(r) = Len(s) + Len(t)
      /\ Len(s) \in Nat /\ Len(t) \in Nat
      /\ \A k \in 1 .. Len(s) : k \in 1 .. Len(r) /\ r[k] = s[k]
  BY ConcatIndex
<1> HIDE DEF r
<1>1. PICK j \in 1 .. Len(s) : s[j] = x BY DEF Elems
<1>2. ASSUME NEW i \in 1 .. Len(r), r[i] = y
      PROVE  \E k \in 1 .. i - 1 : r[k] = x
  <2>1. CASE i <= Len(s)
    <3>1. i \in 1 .. Len(s) BY <1>0, <2>1
    <3>2. s[i] = y BY <1>0, <1>2, <3>1
    <3> QED BY <3>1, <3>2 DEF Elems
  <2>2. CASE i > Len(s)
    <3>1. j \in 1 .. i - 1 BY <1>0, <2>2
    <3>2. r[j] = x BY <1>0, <1>1
    <3> QED BY <3>1, <3>2
  <2> QED BY <1>0, <2>1, <2>2
<1> QED BY <1>2 DEF Precedes, r

\* The sweep, and something after it.
LEMMA AscendingThen ==
  ASSUME NEW S, NEW s \in Seq(S), NEW t \in Seq(S),
         Ascending(s), \A x \in Elems(t) : ~ IsSw(x)
  PROVE  Ascending(s \o t)
<1> DEFINE r == s \o t
<1>0. /\ Len(r) = Len(s) + Len(t)
      /\ Len(s) \in Nat /\ Len(t) \in Nat
      /\ \A k \in 1 .. Len(s) : k \in 1 .. Len(r) /\ r[k] = s[k]
      /\ \A k \in 1 .. Len(t) : Len(s) + k \in 1 .. Len(r) /\ r[Len(s) + k] = t[k]
      /\ \A k \in 1 .. Len(r) : k > Len(s) => k - Len(s) \in 1 .. Len(t) /\ r[k] = t[k - Len(s)]
  BY ConcatIndex
<1> HIDE DEF r
<1>1. ASSUME NEW k \in 1 .. Len(r), IsSw(r[k])
      PROVE  k \in 1 .. Len(s) /\ r[k] = s[k]
  <2>1. CASE k > Len(s)
    <3>1. r[k] \in Elems(t) BY <1>0, <2>1 DEF Elems
    <3> QED BY <1>1, <3>1
  <2>2. CASE k <= Len(s)
    <3>1. k \in 1 .. Len(s) BY <1>0, <2>2
    <3> QED BY <1>0, <3>1
  <2> QED BY <1>0, <2>1, <2>2
<1>2. ASSUME NEW i \in 1 .. Len(r), NEW j \in 1 .. Len(r), i <= j,
             IsSw(r[i]), IsSw(r[j])
      PROVE  LevelOf(r[i]) <= LevelOf(r[j])
  <2>1. i \in 1 .. Len(s) /\ r[i] = s[i] BY <1>1, <1>2
  <2>2. j \in 1 .. Len(s) /\ r[j] = s[j] BY <1>1, <1>2
  <2> QED BY <1>2, <2>1, <2>2 DEF Ascending
<1> QED BY <1>2 DEF Ascending, r

\* The sweep, and something before it.
LEMMA AscendingAfter ==
  ASSUME NEW S, NEW s \in Seq(S), NEW t \in Seq(S),
         Ascending(t), \A x \in Elems(s) : ~ IsSw(x)
  PROVE  Ascending(s \o t)
<1> DEFINE r == s \o t
<1>0. /\ Len(r) = Len(s) + Len(t)
      /\ Len(s) \in Nat /\ Len(t) \in Nat
      /\ \A k \in 1 .. Len(s) : k \in 1 .. Len(r) /\ r[k] = s[k]
      /\ \A k \in 1 .. Len(t) : Len(s) + k \in 1 .. Len(r) /\ r[Len(s) + k] = t[k]
      /\ \A k \in 1 .. Len(r) : k > Len(s) => k - Len(s) \in 1 .. Len(t) /\ r[k] = t[k - Len(s)]
  BY ConcatIndex
<1> HIDE DEF r
<1>1. ASSUME NEW k \in 1 .. Len(r), IsSw(r[k])
      PROVE  k - Len(s) \in 1 .. Len(t) /\ r[k] = t[k - Len(s)]
  <2>1. CASE k > Len(s)
    BY <1>0, <2>1
  <2>2. CASE k <= Len(s)
    <3>1. k \in 1 .. Len(s) BY <1>0, <2>2
    <3>2. r[k] \in Elems(s) BY <1>0, <3>1 DEF Elems
    <3> QED BY <1>1, <3>2
  <2> QED BY <1>0, <2>1, <2>2
<1>2. ASSUME NEW i \in 1 .. Len(r), NEW j \in 1 .. Len(r), i <= j,
             IsSw(r[i]), IsSw(r[j])
      PROVE  LevelOf(r[i]) <= LevelOf(r[j])
  <2>1. i - Len(s) \in 1 .. Len(t) /\ r[i] = t[i - Len(s)] BY <1>1, <1>2
  <2>2. j - Len(s) \in 1 .. Len(t) /\ r[j] = t[j - Len(s)] BY <1>1, <1>2
  <2>3. i - Len(s) <= j - Len(s) BY <1>0, <1>2
  <2> QED BY <1>2, <2>1, <2>2, <2>3 DEF Ascending
<1> QED BY <1>2 DEF Ascending, r

------------------------------------------------------------------------------
(* The loops over the lines of a range.                                    *)

\* What a loop over the lines of a range issues: the named instruction for every
\* line, and else only the rest.
Loop(s, name, rest, start, end) ==
  /\ s \in Seq(Instruction)
  /\ \A x \in Elems(s) : x \in rest \/ \E l \in Over(start, end) : x = Ins(name, l)
  /\ \A l \in Over(start, end) : Ins(name, l) \in Elems(s)

\* The lines of a range are lines of memory, and there is at least one.
LEMMA OverLines ==
  ASSUME NEW start \in Bytes, NEW end \in Bytes, start <= end
  PROVE  /\ Over(start, end) \subseteq Lns
         /\ LINE_INDEX(start) \in Nat /\ LINE_INDEX(end) \in Nat
         /\ LINE_INDEX(start) <= LINE_INDEX(end)
<1>1. LINE_INDEX(start) \in Lns /\ LINE_INDEX(end) \in Lns BY LineOfByte
<1>2. LINE_INDEX(start) <= LINE_INDEX(end) BY LinesInOrder
<1> QED BY <1>1, <1>2, ArmCacheAssumption DEF Over, Lns

\* A loop whose body is one instruction on the line and the rest is a Loop.
LEMMA LoopOf ==
  ASSUME NEW start \in Bytes, NEW end \in Bytes, start <= end, NEW name, NEW rest,
         NEW B \in [Lns -> Seq(Instruction)], NEW s,
         s = FlattenSeq([i \in DOMAIN LinesOf(start, end) |-> B[LinesOf(start, end)[i]]]),
         \A l \in Lns : /\ Ins(name, l) \in Elems(B[l])
                        /\ \A x \in Elems(B[l]) : x \in rest \/ x = Ins(name, l)
  PROVE  Loop(s, name, rest, start, end)
<1> DEFINE lo == LINE_INDEX(start)
           hi == LINE_INDEX(end)
           ss == [i \in DOMAIN LinesOf(start, end) |-> B[LinesOf(start, end)[i]]]
           r  == FlattenSeq(ss)
<1>1. /\ Over(start, end) \subseteq Lns /\ Over(start, end) = lo .. hi
      /\ lo \in Nat /\ hi \in Nat /\ lo <= hi
  BY OverLines DEF Over
<1>2. DOMAIN LinesOf(start, end) = 1 .. hi + 1 - lo
      /\ \A i \in 1 .. hi + 1 - lo : LinesOf(start, end)[i] = lo + i - 1
  BY DEF LinesOf
<1>3. DOMAIN ss = 1 .. hi + 1 - lo
      /\ \A i \in 1 .. hi + 1 - lo : ss[i] = B[lo + i - 1] /\ lo + i - 1 \in Over(start, end)
  BY <1>1, <1>2
<1>4. ss \in Seq(Seq(Instruction)) /\ Len(ss) = hi + 1 - lo
  <2>1. ss = [i \in 1 .. hi + 1 - lo |-> ss[i]] BY <1>2
  <2>2. \A i \in 1 .. hi + 1 - lo : ss[i] \in Seq(Instruction) BY <1>1, <1>3
  <2>3. hi + 1 - lo \in Nat BY <1>1
  <2> HIDE DEF ss, lo, hi
  <2> QED BY <2>1, <2>2, <2>3
<1> HIDE DEF ss, r, lo, hi
<1>5. r \in Seq(Instruction) /\ \E at : Locates(at, r, ss, Len(ss))
  BY <1>4, Flattened DEF r
<1>6. PICK at : Locates(at, r, ss, Len(ss)) BY <1>5
<1>7. ASSUME NEW x \in Elems(r)
      PROVE  x \in rest \/ \E l \in Over(start, end) : x = Ins(name, l)
  <2>1. PICK k \in 1 .. Len(r) : x = r[k] BY DEF Elems
  <2>2. at[k] \in 1 .. Len(ss) /\ \E p \in 1 .. Len(ss[at[k]]) : r[k] = ss[at[k]][p]
    BY <1>6 DEF Locates
  <2>3. x \in Elems(ss[at[k]]) BY <2>1, <2>2 DEF Elems
  <2>4. ss[at[k]] = B[lo + at[k] - 1] /\ lo + at[k] - 1 \in Over(start, end)
    BY <1>3, <1>4, <2>2
  <2> QED BY <1>1, <2>3, <2>4
<1>8. ASSUME NEW l \in Over(start, end) PROVE Ins(name, l) \in Elems(r)
  <2> DEFINE i == l - lo + 1
  <2>1. i \in 1 .. Len(ss) /\ lo + i - 1 = l BY <1>1, <1>4
  <2>2. ss[i] = B[l] BY <1>3, <1>4, <2>1
  <2> HIDE DEF i
  <2>3. Ins(name, l) \in Elems(ss[i]) BY <1>1, <2>2
  <2>4. PICK p \in 1 .. Len(ss[i]) : Ins(name, l) = ss[i][p] BY <2>3 DEF Elems
  <2>5. \E k \in 1 .. Len(r) : at[k] = i /\ r[k] = ss[i][p]
    BY <1>6, <2>1, <2>4 DEF Locates
  <2> QED BY <2>4, <2>5 DEF Elems
<1> QED BY <1>5, <1>7, <1>8 DEF Loop, r, ss

\* A body of two instructions, as a sequence over any set.
LEMMA Body ==
  ASSUME NEW S, NEW x \in S, NEW y \in S
  PROVE  <<x, y>> \in Seq(S) /\ Elems(<<x, y>>) = {x, y}
<1>1. ASSUME NEW k \in 1 .. 2 PROVE k = 1 \/ k = 2 OBVIOUS
<1>2. Len(<<x, y>>) = 2 /\ <<x, y>>[1] = x /\ <<x, y>>[2] = y OBVIOUS
<1>3. <<x, y>> \in Seq(S) OBVIOUS
<1> QED BY <1>1, <1>2, <1>3 DEF Elems

\* A body of three.
LEMMA Body3 ==
  ASSUME NEW S, NEW x \in S, NEW y \in S, NEW z \in S
  PROVE  <<x, y, z>> \in Seq(S) /\ Elems(<<x, y, z>>) = {x, y, z}
<1>1. ASSUME NEW k \in 1 .. 3 PROVE k = 1 \/ k = 2 \/ k = 3 OBVIOUS
<1>2. /\ Len(<<x, y, z>>) = 3 /\ <<x, y, z>>[1] = x
      /\ <<x, y, z>>[2] = y /\ <<x, y, z>>[3] = z
  OBVIOUS
<1>3. <<x, y, z>> \in Seq(S) OBVIOUS
<1> QED BY <1>1, <1>2, <1>3 DEF Elems

\* A single instruction.
LEMMA Single ==
  ASSUME NEW S, NEW x \in S
  PROVE  <<x>> \in Seq(S) /\ Elems(<<x>>) = {x}
<1>1. ASSUME NEW k \in 1 .. 1 PROVE k = 1 OBVIOUS
<1>2. Len(<<x>>) = 1 /\ <<x>>[1] = x OBVIOUS
<1>3. <<x>> \in Seq(S) OBVIOUS
<1> QED BY <1>1, <1>2, <1>3 DEF Elems

\* The instructions that the functions issue are instructions.
LEMMA Instructions ==
  /\ dmb \in Instruction /\ dsb \in Instruction /\ isb \in Instruction
  /\ Ins("ic iallu", None) \in Instruction
  /\ \A l \in Lns : \A name \in {"dc cvac", "dc cvau", "dc ivac", "dc civac", "ic ivau"} :
       Ins(name, l) \in Instruction
BY DEF dmb, dsb, isb, Ins, Instruction, Lns

\* A body of two instructions.
LEMMA Body2 ==
  ASSUME NEW s, NEW x \in Instruction, NEW y \in Instruction, s = <<x, y>>
  PROVE  s \in Seq(Instruction) /\ Elems(s) = {x, y}
<1>1. <<x, y>> \in Seq(Instruction) /\ Elems(<<x, y>>) = {x, y}
  BY Body
<1> QED BY <1>1, Zenon

\* Clean to the point of coherency, then dmb.
LEMMA clean_by_va_body ==
  ASSUME NEW l \in Lns
  PROVE  clean_by_va(l) \in Seq(Instruction) /\ Elems(clean_by_va(l)) = {Ins("dc cvac", l), dmb}
<1>1. clean_by_va(l) = <<Ins("dc cvac", l), dmb>> BY Zenon DEF clean_by_va, Ins
<1>2. Ins("dc cvac", l) \in Instruction /\ dmb \in Instruction BY Instructions
<1> QED BY <1>1, <1>2, Body2, Zenon

\* Clean to the point of unification, then dmb.
LEMMA clean_by_va_pou_body ==
  ASSUME NEW l \in Lns
  PROVE  clean_by_va_pou(l) \in Seq(Instruction) /\ Elems(clean_by_va_pou(l)) = {Ins("dc cvau", l), dmb}
<1>1. clean_by_va_pou(l) = <<Ins("dc cvau", l), dmb>> BY Zenon DEF clean_by_va_pou, Ins
<1>2. Ins("dc cvau", l) \in Instruction /\ dmb \in Instruction BY Instructions
<1> QED BY <1>1, <1>2, Body2, Zenon

\* Invalidate, then dmb.
LEMMA invalidate_by_va_body ==
  ASSUME NEW l \in Lns
  PROVE  invalidate_by_va(l) \in Seq(Instruction) /\ Elems(invalidate_by_va(l)) = {Ins("dc ivac", l), dmb}
<1>1. invalidate_by_va(l) = <<Ins("dc ivac", l), dmb>> BY Zenon DEF invalidate_by_va, Ins
<1>2. Ins("dc ivac", l) \in Instruction /\ dmb \in Instruction BY Instructions
<1> QED BY <1>1, <1>2, Body2, Zenon

\* Clean and invalidate, then dsb.
LEMMA clean_inval_by_va_body ==
  ASSUME NEW l \in Lns
  PROVE  clean_inval_by_va(l) \in Seq(Instruction) /\ Elems(clean_inval_by_va(l)) = {Ins("dc civac", l), dsb}
<1>1. clean_inval_by_va(l) = <<Ins("dc civac", l), dsb>> BY Zenon DEF clean_inval_by_va, Ins
<1>2. Ins("dc civac", l) \in Instruction /\ dsb \in Instruction BY Instructions
<1> QED BY <1>1, <1>2, Body2, Zenon

\* Invalidate in the instruction cache, then dsb and isb.
LEMMA invalidate_by_va_i_body ==
  ASSUME NEW l \in Lns
  PROVE  invalidate_by_va_i(l) \in Seq(Instruction) /\ Elems(invalidate_by_va_i(l)) = {Ins("ic ivau", l), dsb, isb}
<1>1. invalidate_by_va_i(l) = <<Ins("ic ivau", l), dsb, isb>> BY Zenon DEF invalidate_by_va_i, Ins
<1>2. Ins("ic ivau", l) \in Instruction /\ dsb \in Instruction /\ isb \in Instruction BY Instructions
<1>3. ASSUME NEW x \in Instruction, NEW y \in Instruction, NEW z \in Instruction, NEW s, s = <<x, y, z>>
      PROVE  s \in Seq(Instruction) /\ Elems(s) = {x, y, z}
  <2>1. <<x, y, z>> \in Seq(Instruction) /\ Elems(<<x, y, z>>) = {x, y, z}
    BY Body3
  <2> QED BY <1>3, <2>1, Zenon
<1> QED BY <1>1, <1>2, <1>3, Zenon

\* The loops go over lines of memory.
LEMMA InRange ==
  ASSUME NEW start \in Bytes, NEW end \in Bytes, start <= end,
         NEW i \in DOMAIN LinesOf(start, end)
  PROVE  LinesOf(start, end)[i] \in Lns
BY OverLines DEF LinesOf, Over

\* clean_cache_range_poc issues dc cvac for every line of the range.
LEMMA CleanPoc ==
  ASSUME NEW start \in Bytes, NEW end \in Bytes, start <= end
  PROVE  Loop(clean_cache_range_poc(start, end), "dc cvac", {dmb}, start, end)
<1> DEFINE B == [l \in Lns |-> clean_by_va(l)]
<1>1. B \in [Lns -> Seq(Instruction)] BY clean_by_va_body, clean_by_va_pou_body, invalidate_by_va_body, clean_inval_by_va_body, invalidate_by_va_i_body
<1>2. \A l \in Lns : /\ Ins("dc cvac", l) \in Elems(B[l])
                     /\ \A x \in Elems(B[l]) : x \in {dmb} \/ x = Ins("dc cvac", l)
  BY clean_by_va_body, clean_by_va_pou_body, invalidate_by_va_body, clean_inval_by_va_body, invalidate_by_va_i_body
<1>3. [i \in DOMAIN LinesOf(start, end) |-> B[LinesOf(start, end)[i]]]
        = [i \in DOMAIN LinesOf(start, end) |-> clean_by_va(LinesOf(start, end)[i])]
  BY InRange
<1>4. clean_cache_range_poc(start, end)
        = FlattenSeq([i \in DOMAIN LinesOf(start, end) |-> B[LinesOf(start, end)[i]]])
  BY <1>3, Zenon DEF clean_cache_range_poc, EachLine
<1> HIDE DEF B
<1> QED BY <1>1, <1>2, <1>4, LoopOf, Zenon

\* clean_cache_range_pou issues dc cvau for every line of the range.
LEMMA CleanPou ==
  ASSUME NEW start \in Bytes, NEW end \in Bytes, start <= end
  PROVE  Loop(clean_cache_range_pou(start, end), "dc cvau", {dmb}, start, end)
<1> DEFINE B == [l \in Lns |-> clean_by_va_pou(l)]
<1>1. B \in [Lns -> Seq(Instruction)] BY clean_by_va_body, clean_by_va_pou_body, invalidate_by_va_body, clean_inval_by_va_body, invalidate_by_va_i_body
<1>2. \A l \in Lns : /\ Ins("dc cvau", l) \in Elems(B[l])
                     /\ \A x \in Elems(B[l]) : x \in {dmb} \/ x = Ins("dc cvau", l)
  BY clean_by_va_body, clean_by_va_pou_body, invalidate_by_va_body, clean_inval_by_va_body, invalidate_by_va_i_body
<1>3. [i \in DOMAIN LinesOf(start, end) |-> B[LinesOf(start, end)[i]]]
        = [i \in DOMAIN LinesOf(start, end) |-> clean_by_va_pou(LinesOf(start, end)[i])]
  BY InRange
<1>4. clean_cache_range_pou(start, end)
        = FlattenSeq([i \in DOMAIN LinesOf(start, end) |-> B[LinesOf(start, end)[i]]])
  BY <1>3, Zenon DEF clean_cache_range_pou, EachLine
<1> HIDE DEF B
<1> QED BY <1>1, <1>2, <1>4, LoopOf, Zenon

\* invalidate_cache_range_i issues ic ivau for every line of the range.
LEMMA InvalidateIcache ==
  ASSUME NEW start \in Bytes, NEW end \in Bytes, start <= end
  PROVE  Loop(invalidate_cache_range_i(start, end), "ic ivau", {dsb, isb}, start, end)
<1> DEFINE B == [l \in Lns |-> invalidate_by_va_i(l)]
<1>1. B \in [Lns -> Seq(Instruction)] BY clean_by_va_body, clean_by_va_pou_body, invalidate_by_va_body, clean_inval_by_va_body, invalidate_by_va_i_body
<1>2. \A l \in Lns : /\ Ins("ic ivau", l) \in Elems(B[l])
                     /\ \A x \in Elems(B[l]) : x \in {dsb, isb} \/ x = Ins("ic ivau", l)
  BY clean_by_va_body, clean_by_va_pou_body, invalidate_by_va_body, clean_inval_by_va_body, invalidate_by_va_i_body
<1>3. [i \in DOMAIN LinesOf(start, end) |-> B[LinesOf(start, end)[i]]]
        = [i \in DOMAIN LinesOf(start, end) |-> invalidate_by_va_i(LinesOf(start, end)[i])]
  BY InRange
<1>4. invalidate_cache_range_i(start, end)
        = FlattenSeq([i \in DOMAIN LinesOf(start, end) |-> B[LinesOf(start, end)[i]]])
  BY <1>3, Zenon DEF invalidate_cache_range_i, EachLine
<1> HIDE DEF B
<1> QED BY <1>1, <1>2, <1>4, LoopOf, Zenon

\* The last loop of invalidate_cache_range_ram issues dc ivac for every line.
LEMMA InvalidateLoop ==
  ASSUME NEW start \in Bytes, NEW end \in Bytes, start <= end
  PROVE  Loop(EachLine(invalidate_by_va, start, end), "dc ivac", {dmb}, start, end)
<1> DEFINE B == [l \in Lns |-> invalidate_by_va(l)]
<1>1. B \in [Lns -> Seq(Instruction)] BY clean_by_va_body, clean_by_va_pou_body, invalidate_by_va_body, clean_inval_by_va_body, invalidate_by_va_i_body
<1>2. \A l \in Lns : /\ Ins("dc ivac", l) \in Elems(B[l])
                     /\ \A x \in Elems(B[l]) : x \in {dmb} \/ x = Ins("dc ivac", l)
  BY clean_by_va_body, clean_by_va_pou_body, invalidate_by_va_body, clean_inval_by_va_body, invalidate_by_va_i_body
<1>3. [i \in DOMAIN LinesOf(start, end) |-> B[LinesOf(start, end)[i]]]
        = [i \in DOMAIN LinesOf(start, end) |-> invalidate_by_va(LinesOf(start, end)[i])]
  BY InRange
<1>4. EachLine(invalidate_by_va, start, end)
        = FlattenSeq([i \in DOMAIN LinesOf(start, end) |-> B[LinesOf(start, end)[i]]])
  BY <1>3, Zenon DEF EachLine
<1> HIDE DEF B
<1> QED BY <1>1, <1>2, <1>4, LoopOf, Zenon

\* The last loop of clean_invalidate_cache_range_ram issues dc civac for every
\* line.
LEMMA CleanInvalidateLoop ==
  ASSUME NEW start \in Bytes, NEW end \in Bytes, start <= end
  PROVE  Loop(EachLine(clean_inval_by_va, start, end), "dc civac", {dsb}, start, end)
<1> DEFINE B == [l \in Lns |-> clean_inval_by_va(l)]
<1>1. B \in [Lns -> Seq(Instruction)] BY clean_by_va_body, clean_by_va_pou_body, invalidate_by_va_body, clean_inval_by_va_body, invalidate_by_va_i_body
<1>2. \A l \in Lns : /\ Ins("dc civac", l) \in Elems(B[l])
                     /\ \A x \in Elems(B[l]) : x \in {dsb} \/ x = Ins("dc civac", l)
  BY clean_by_va_body, clean_by_va_pou_body, invalidate_by_va_body, clean_inval_by_va_body, invalidate_by_va_i_body
<1>3. [i \in DOMAIN LinesOf(start, end) |-> B[LinesOf(start, end)[i]]]
        = [i \in DOMAIN LinesOf(start, end) |-> clean_inval_by_va(LinesOf(start, end)[i])]
  BY InRange
<1>4. EachLine(clean_inval_by_va, start, end)
        = FlattenSeq([i \in DOMAIN LinesOf(start, end) |-> B[LinesOf(start, end)[i]]])
  BY <1>3, Zenon DEF EachLine
<1> HIDE DEF B
<1> QED BY <1>1, <1>2, <1>4, LoopOf, Zenon

------------------------------------------------------------------------------
(* The programs of do_flush.                                               *)

\* Concatenation is associative.
LEMMA Associate ==
  ASSUME NEW S, NEW s \in Seq(S), NEW t \in Seq(S), NEW u \in Seq(S)
  PROVE  s \o t \o u = s \o (t \o u)
OBVIOUS

\* Which instruction is of which kind.
LEMMA Kinds ==
  ASSUME NEW l
  PROVE  /\ ~ IsIc(Ins("dc cvac", l)) /\ ~ IsSw(Ins("dc cvac", l)) /\ ~ IsIvac(Ins("dc cvac", l))
         /\ ~ IsIc(Ins("dc cvau", l)) /\ ~ IsSw(Ins("dc cvau", l)) /\ ~ IsIvac(Ins("dc cvau", l))
         /\ ~ IsIc(Ins("dc civac", l)) /\ ~ IsSw(Ins("dc civac", l)) /\ ~ IsIvac(Ins("dc civac", l))
         /\ ~ IsIc(Ins("dc ivac", l)) /\ ~ IsSw(Ins("dc ivac", l)) /\ IsIvac(Ins("dc ivac", l))
         /\ ~ IsDc(Ins("ic ivau", l)) /\ ~ IsSw(Ins("ic ivau", l)) /\ ~ IsIvac(Ins("ic ivau", l))
         /\ ~ IsDc(Ins("ic iallu", l)) /\ ~ IsSw(Ins("ic iallu", l)) /\ ~ IsIvac(Ins("ic iallu", l))
BY DEF Ins, IsDc, IsIc, IsSw, IsIvac

\* The barriers are none.
LEMMA PlainKinds ==
  /\ Plain(dmb) /\ ~ IsSw(dmb) /\ ~ IsIvac(dmb)
  /\ Plain(dsb) /\ ~ IsSw(dsb) /\ ~ IsIvac(dsb)
  /\ Plain(isb) /\ ~ IsSw(isb) /\ ~ IsIvac(isb)
BY DEF Plain, IsDc, IsIc, IsSw, IsIvac, dmb, dsb, isb

\* Without operations on the data cache there is nothing to await.
LEMMA NoDcAwaited ==
  ASSUME NEW s, \A x \in Elems(s) : ~ IsDc(x)
  PROVE  Awaited(s)
BY DEF Awaited, Elems

\* What every program of do_flush is.
Good(s) ==
  /\ s \in Seq(Instruction) /\ Awaited(s) /\ Fenced(s)
  /\ \A x \in Elems(s) : ~ IsSw(x)

\* What clean_cache_range_ram is: operations on the data cache that end with a
\* dsb, one to the point of coherency for every line.
Ram(s, start, end) ==
  /\ s \in Seq(Instruction) /\ Awaited(s)
  /\ \A x \in Elems(s) : ~ IsIc(x) /\ ~ IsSw(x) /\ ~ IsIvac(x)
  /\ \A l \in Over(start, end) : Ins("dc cvac", l) \in Elems(s)

\* One program after another.
LEMMA Joined ==
  ASSUME NEW s \in Seq(Instruction), NEW t \in Seq(Instruction)
  PROVE  s \o t \in Seq(Instruction) /\ Elems(s \o t) = Elems(s) \cup Elems(t)
<1>1. s \o t \in Seq(Instruction) OBVIOUS
<1>2. Elems(s \o t) = Elems(s) \cup Elems(t) BY ConcatElems
<1> QED BY <1>1, <1>2

\* With a dsb at the end every operation is awaited.
LEMMA DsbAfter ==
  ASSUME NEW s \in Seq(Instruction)
  PROVE  /\ s \o <<dsb>> \in Seq(Instruction)
         /\ Awaited(s \o <<dsb>>)
         /\ Elems(s \o <<dsb>>) = Elems(s) \cup {dsb}
<1>1. <<dsb>> \in Seq(Instruction) /\ Elems(<<dsb>>) = {dsb} BY Single, Instructions
<1>2. Awaited(<<dsb>>) BY <1>1, NoDcAwaited, BarrierKind
<1> HIDE DEF dsb
<1>3. s \o <<dsb>> \in Seq(Instruction) BY <1>1
<1>4. Awaited(s \o <<dsb>>) BY <1>1, <1>2, AwaitedThen
<1>5. Elems(s \o <<dsb>>) = Elems(s) \cup {dsb}
  <2> DEFINE t == <<dsb>>
  <2>1. t \in Seq(Instruction) /\ Elems(t) = {dsb} BY <1>1
  <2> HIDE DEF t
  <2>2. Elems(s \o t) = Elems(s) \cup Elems(t) BY <2>1, ConcatElems
  <2> QED BY <2>1, <2>2, Zenon DEF t
<1> QED BY <1>3, <1>4, <1>5

\* clean_cache_range_ram is so, for every range.
LEMMA CleanRam ==
  ASSUME NEW start \in Bytes, NEW end \in Bytes, start <= end
  PROVE  Ram(clean_cache_range_ram(start, end), start, end)
<1> DEFINE s == clean_cache_range_poc(start, end)
<1>1. Loop(s, "dc cvac", {dmb}, start, end) BY CleanPoc
<1> HIDE DEF s
<1>2. s \in Seq(Instruction)
      /\ (\A x \in Elems(s) : x = dmb \/ \E l \in Over(start, end) : x = Ins("dc cvac", l))
      /\ \A l \in Over(start, end) : Ins("dc cvac", l) \in Elems(s)
  BY <1>1 DEF Loop
<1>3. clean_cache_range_ram(start, end) = s \o <<dsb>>
  BY Zenon DEF clean_cache_range_ram, s
<1> DEFINE r == s \o <<dsb>>
<1>4. r \in Seq(Instruction) /\ Awaited(r) /\ Elems(r) = Elems(s) \cup {dsb}
  BY <1>2, DsbAfter
<1> HIDE DEF r
<1>5. \A x \in Elems(r) : ~ IsIc(x) /\ ~ IsSw(x) /\ ~ IsIvac(x)
  BY <1>2, <1>4, Kinds, PlainKinds DEF Plain
<1> QED BY <1>2, <1>3, <1>4, <1>5 DEF Ram, r

\* Clean_Data cleans every line of its range.
LEMMA CleanDataProgram ==
  ASSUME NEW start \in Bytes, NEW end \in Bytes, start <= end
  PROVE  LET P == do_flush("Clean_Data", start, end)
         IN  /\ Good(P) /\ \A x \in Elems(P) : ~ IsIvac(x)
             /\ \A l \in Over(start, end) : \E x \in Elems(P) : Cleans(x, l)
<1> DEFINE s == clean_cache_range_ram(start, end)
<1>1. Ram(s, start, end) BY CleanRam
<1>2. do_flush("Clean_Data", start, end) = s BY DEF do_flush
<1> HIDE DEF s
<1>3. Good(s) BY <1>1, NoIcFenced DEF Ram, Good
<1>4. \A l \in Over(start, end) : \E x \in Elems(s) : Cleans(x, l)
  BY <1>1 DEF Ram, Cleans
<1> QED BY <1>1, <1>2, <1>3, <1>4 DEF Ram

\* CleanInvalidate_Data cleans and drops every line of its range.
LEMMA CleanInvalidateProgram ==
  ASSUME NEW start \in Bytes, NEW end \in Bytes, start <= end
  PROVE  LET P == do_flush("CleanInvalidate_Data", start, end)
         IN  /\ Good(P) /\ \A x \in Elems(P) : ~ IsIvac(x)
             /\ \A l \in Over(start, end) : \E x \in Elems(P) : Cleans(x, l)
             /\ \A l \in Over(start, end) : \E x \in Elems(P) : Drops(x, l)
<1> DEFINE s == clean_cache_range_ram(start, end)
           t == EachLine(clean_inval_by_va, start, end)
           r == s \o t
           P == r \o <<dsb>>
<1>1. Ram(s, start, end) BY CleanRam
<1>2. Loop(t, "dc civac", {dsb}, start, end) BY CleanInvalidateLoop
<1>3. do_flush("CleanInvalidate_Data", start, end) = P
  BY DEF do_flush, clean_invalidate_cache_range_ram, clean_cache_range_ram
<1> HIDE DEF s, t
<1>4. /\ s \in Seq(Instruction)
      /\ \A x \in Elems(s) : ~ IsIc(x) /\ ~ IsSw(x) /\ ~ IsIvac(x)
  BY <1>1 DEF Ram
<1>5. /\ t \in Seq(Instruction)
      /\ \A x \in Elems(t) : x = dsb \/ \E l \in Over(start, end) : x = Ins("dc civac", l)
      /\ \A l \in Over(start, end) : Ins("dc civac", l) \in Elems(t)
  BY <1>2 DEF Loop
<1>6. \A x \in Elems(t) : ~ IsIc(x) /\ ~ IsSw(x) /\ ~ IsIvac(x)
  BY <1>5, Kinds, PlainKinds DEF Plain
<1>7. r \in Seq(Instruction) /\ Elems(r) = Elems(s) \cup Elems(t)
  <2>1. s \in Seq(Instruction) /\ t \in Seq(Instruction) BY <1>4, <1>5
  <2> QED BY <2>1, Joined
<1> HIDE DEF r
<1>8. P \in Seq(Instruction) /\ Awaited(P) /\ Elems(P) = Elems(r) \cup {dsb}
  BY <1>7, DsbAfter
<1> HIDE DEF P
<1>9. \A x \in Elems(P) : ~ IsIc(x) /\ ~ IsSw(x) /\ ~ IsIvac(x)
  BY <1>4, <1>6, <1>7, <1>8, PlainKinds DEF Plain
<1>10. Good(P) BY <1>8, <1>9, NoIcFenced DEF Good
<1>11. \A l \in Over(start, end) : Ins("dc civac", l) \in Elems(P)
  BY <1>5, <1>7, <1>8
<1>12. \A l \in Over(start, end) :
         (\E x \in Elems(P) : Cleans(x, l)) /\ (\E x \in Elems(P) : Drops(x, l))
  BY <1>11 DEF Cleans, Drops
<1> QED BY <1>3, <1>9, <1>10, <1>12

\* Unify_Instruction cleans every line of its range, awaits that, and then drops
\* it from the instruction cache.
LEMMA UnifyProgram ==
  ASSUME NEW start \in Bytes, NEW end \in Bytes, start <= end
  PROVE  LET P == do_flush("Unify_Instruction", start, end)
         IN  /\ Good(P) /\ \A x \in Elems(P) : ~ IsIvac(x)
             /\ \A l \in Over(start, end) : \E x \in Elems(P) : Cleans(x, l)
             /\ \A l \in Over(start, end) : Ins("ic ivau", l) \in Elems(P)
<1> DEFINE s == clean_cache_range_pou(start, end)
           t == invalidate_cache_range_i(start, end)
           u == t \o <<isb>>
           P == s \o <<dsb>> \o u
<1>1. Loop(s, "dc cvau", {dmb}, start, end) BY CleanPou
<1>2. Loop(t, "ic ivau", {dsb, isb}, start, end) BY InvalidateIcache
<1>3. do_flush("Unify_Instruction", start, end) = s \o <<dsb>> \o t \o <<isb>>
  BY DEF do_flush
<1> HIDE DEF s, t
<1>4. /\ s \in Seq(Instruction)
      /\ \A x \in Elems(s) : x = dmb \/ \E l \in Over(start, end) : x = Ins("dc cvau", l)
      /\ \A l \in Over(start, end) : Ins("dc cvau", l) \in Elems(s)
  BY <1>1 DEF Loop
<1>5. /\ t \in Seq(Instruction)
      /\ \A x \in Elems(t) : x \in {dsb, isb} \/ \E l \in Over(start, end) : x = Ins("ic ivau", l)
      /\ \A l \in Over(start, end) : Ins("ic ivau", l) \in Elems(t)
  BY <1>2 DEF Loop
<1>6. <<isb>> \in Seq(Instruction) /\ Elems(<<isb>>) = {isb} BY Single, Instructions
<1>7. s \o <<dsb>> \in Seq(Instruction) /\ Awaited(s \o <<dsb>>)
      /\ Elems(s \o <<dsb>>) = Elems(s) \cup {dsb}
  BY <1>4, DsbAfter
<1> DEFINE v == s \o <<dsb>>
           w == <<isb>>
<1>8. do_flush("Unify_Instruction", start, end) = P
  <2>1. v \in Seq(Instruction) /\ w \in Seq(Instruction) BY <1>6, <1>7
  <2> HIDE DEF v, w
  <2>0. t \in Seq(Instruction) BY <1>5
  <2>2. v \o t \o w = v \o (t \o w) BY <2>0, <2>1, Associate
  <2> QED BY <1>3, <2>2 DEF v, w
<1>9. u \in Seq(Instruction) /\ Elems(u) = Elems(t) \cup {isb}
  <2>1. w \in Seq(Instruction) /\ Elems(w) = {isb} BY <1>6
  <2> HIDE DEF w
  <2>2. t \in Seq(Instruction) BY <1>5
  <2>3. t \o w \in Seq(Instruction) /\ Elems(t \o w) = Elems(t) \cup Elems(w)
    BY <2>1, <2>2, Joined
  <2> QED BY <2>1, <2>3 DEF w
<1> HIDE DEF u
<1>10. \A x \in Elems(s) : ~ IsIc(x) /\ ~ IsSw(x) /\ ~ IsIvac(x)
  BY <1>4, Kinds, PlainKinds DEF Plain
<1>11. \A x \in Elems(u) : ~ IsDc(x) /\ ~ IsSw(x) /\ ~ IsIvac(x)
  BY <1>5, <1>9, Kinds, PlainKinds DEF Plain
<1>12. Fenced(P) BY <1>4, <1>9, <1>10, <1>11, FencedThen
<1>13. P \in Seq(Instruction) /\ Awaited(P) /\ Elems(P) = Elems(s) \cup {dsb} \cup Elems(u)
  <2>1. v \in Seq(Instruction) /\ Awaited(v) /\ Elems(v) = Elems(s) \cup {dsb} BY <1>7
  <2> HIDE DEF v
  <2>2. Awaited(u) BY <1>11, NoDcAwaited
  <2>3. Awaited(v \o u) BY <1>9, <2>1, <2>2, AwaitedThen
  <2>4. Elems(v \o u) = Elems(v) \cup Elems(u) BY <1>9, <2>1, ConcatElems
  <2>5. v \o u \in Seq(Instruction) BY <1>9, <2>1
  <2> QED BY <2>1, <2>3, <2>4, <2>5 DEF v
<1> HIDE DEF P, v, w
<1>14. \A x \in Elems(P) : ~ IsSw(x) /\ ~ IsIvac(x)
  BY <1>10, <1>11, <1>13, PlainKinds
<1>15. Good(P) BY <1>12, <1>13, <1>14 DEF Good
<1>16. \A l \in Over(start, end) :
         (\E x \in Elems(P) : Cleans(x, l)) /\ Ins("ic ivau", l) \in Elems(P)
  BY <1>4, <1>5, <1>9, <1>13 DEF Cleans
<1> QED BY <1>8, <1>14, <1>15, <1>16

\* A part that an alignment makes unnecessary is empty.
LEMMA EmptyElems == <<>> \in Seq(Instruction) /\ Elems(<<>>) = {}
BY DEF Elems

\* A byte of a line that a range covers, but not this byte, comes before or after:
\* then the range begins, or ends, within the line.
LEMMA EdgeLine ==
  ASSUME NEW start \in Bytes, NEW end \in Bytes, start <= end,
         NEW l \in Over(start, end), NEW a \in BytesOf(l), a \notin start .. end
  PROVE  \/ l = LINE_INDEX(start) /\ start # LINE_START(start)
         \/ l = LINE_INDEX(end) /\ end + 1 # LINE_START(end + 1)
<1> USE ArmCacheAssumption
<1>1. l \in Lns /\ l \in Nat BY OverLines DEF Lns
<1>2. a \in Bytes /\ LINE_INDEX(a) = l BY <1>1, ByteOfLine
<1>3. LINE_INDEX(start) <= l /\ l <= LINE_INDEX(end) /\ LINE_INDEX(start) \in Nat
      /\ LINE_INDEX(end) \in Nat
  BY OverLines DEF Over
<1>4. CASE a < start
  <2>1. l <= LINE_INDEX(start) BY <1>2, <1>4, LinesInOrder DEF Bytes
  <2>2. l = LINE_INDEX(start) BY <1>1, <1>3, <2>1
  <2>3. l * LineSize <= a BY <1>1 DEF BytesOf
  <2>4. LINE_START(start) <= a BY <2>2, <2>3 DEF LINE_START
  <2> QED BY <1>2, <1>4, <2>2, <2>4 DEF Bytes
<1>5. CASE a > end
  <2>1. LINE_INDEX(end) <= l BY <1>2, <1>5, LinesInOrder DEF Bytes
  <2>2. l = LINE_INDEX(end) BY <1>1, <1>3, <2>1
  <2>3. end \in BytesOf(l) BY <2>2, LineOfByte
  <2>4. l * LineSize <= end /\ end + 1 <= a /\ a < (l + 1) * LineSize
    BY <1>1, <1>2, <1>5, <2>3 DEF BytesOf, Bytes
  <2>5. end + 1 \in BytesOf(l) BY <1>1, <2>4 DEF BytesOf, Bytes
  <2>6. LINE_INDEX(end + 1) = l BY <1>1, <2>5, ByteOfLine
  <2>7. LINE_START(end + 1) = l * LineSize BY <2>6 DEF LINE_START
  <2> QED BY <1>1, <2>2, <2>4, <2>7 DEF Bytes
<1>6. a < start \/ a > end BY <1>2 DEF Bytes
<1> QED BY <1>4, <1>5, <1>6

\* The second cleaning, from the start of the last line to that same byte, is of
\* that line.
LEMMA LineStart ==
  ASSUME NEW end \in Bytes
  PROVE  LINE_START(end) \in Bytes /\ LINE_INDEX(LINE_START(end)) = LINE_INDEX(end)
<1> USE ArmCacheAssumption
<1> DEFINE l == LINE_INDEX(end)
<1>1. l \in Lns BY LineOfByte
<1> HIDE DEF l
<1>2. l \in Nat /\ l * LineSize \in Nat /\ (l + 1) * LineSize = l * LineSize + LineSize
  BY <1>1 DEF Lns
<1>3. l * LineSize \in BytesOf(l) BY <1>2 DEF BytesOf
<1>4. l * LineSize \in Bytes /\ LINE_INDEX(l * LineSize) = l BY <1>1, <1>3, ByteOfLine
<1> QED BY <1>4 DEF LINE_START, l

\* Invalidate_Data drops every line of its range, and cleans first every line of
\* which the range covers a part only.
LEMMA InvalidateProgram ==
  ASSUME NEW start \in Bytes, NEW end \in Bytes, start <= end
  PROVE  LET P == do_flush("Invalidate_Data", start, end)
         IN  /\ Good(P)
             /\ \A l \in Over(start, end) : \E x \in Elems(P) : Drops(x, l)
             /\ \A l \in Lns : \A a \in BytesOf(l) : a \notin start .. end =>
                  Precedes(P, Ins("dc cvac", l), Ins("dc ivac", l))
<1> DEFINE A == IF start # LINE_START(start) THEN clean_cache_range_ram(start, end) ELSE <<>>
           B == IF end + 1 # LINE_START(end + 1)
                THEN clean_cache_range_ram(LINE_START(end), LINE_START(end))
                ELSE <<>>
           c == A \o B
           t == EachLine(invalidate_by_va, start, end)
           u == t \o <<dsb>>
           P == c \o u
<1>1. do_flush("Invalidate_Data", start, end) = A \o B \o t \o <<dsb>>
  BY Zenon DEF do_flush, invalidate_cache_range_ram
<1>2. Loop(t, "dc ivac", {dmb}, start, end) BY InvalidateLoop
<1> DEFINE Kind(s) == /\ s \in Seq(Instruction)
                      /\ \A x \in Elems(s) : ~ IsIc(x) /\ ~ IsSw(x) /\ ~ IsIvac(x)
<1>3. Kind(A) /\ (start # LINE_START(start) =>
                    \A l \in Over(start, end) : Ins("dc cvac", l) \in Elems(A))
  <2>1. CASE start # LINE_START(start)
    <3>1. Ram(clean_cache_range_ram(start, end), start, end) BY CleanRam
    <3> QED BY <2>1, <3>1 DEF Ram
  <2>2. CASE start = LINE_START(start)
    BY <2>2, EmptyElems
  <2> QED BY <2>1, <2>2
<1>4. Kind(B) /\ (end + 1 # LINE_START(end + 1) =>
                    Ins("dc cvac", LINE_INDEX(end)) \in Elems(B))
  <2>1. CASE end + 1 # LINE_START(end + 1)
    <3> DEFINE e == LINE_START(end)
    <3>1. e \in Bytes /\ LINE_INDEX(e) = LINE_INDEX(end) BY LineStart
    <3>2. e <= e /\ LINE_INDEX(end) \in Over(e, e)
      BY <3>1, LineOfByte DEF Bytes, Over, Lns
    <3> HIDE DEF e
    <3>3. Ram(clean_cache_range_ram(e, e), e, e) BY <3>1, <3>2, CleanRam
    <3> DEFINE s == clean_cache_range_ram(e, e)
    <3> HIDE DEF s
    <3>4. Kind(s) /\ Ins("dc cvac", LINE_INDEX(end)) \in Elems(s) BY <3>2, <3>3 DEF Ram, s
    <3> QED BY <2>1, <3>4 DEF s, e
  <2>2. CASE end + 1 = LINE_START(end + 1)
    BY <2>2, EmptyElems
  <2> QED BY <2>1, <2>2
<1> HIDE DEF A, B, t
<1>5. Kind(c) /\ Elems(c) = Elems(A) \cup Elems(B) BY <1>3, <1>4, Joined
<1>6. t \in Seq(Instruction) BY <1>2 DEF Loop
<1>7. /\ \A x \in Elems(t) : x = dmb \/ \E l \in Over(start, end) : x = Ins("dc ivac", l)
      /\ \A l \in Over(start, end) : Ins("dc ivac", l) \in Elems(t)
  BY <1>2 DEF Loop
<1>8. u \in Seq(Instruction) /\ Awaited(u) /\ Elems(u) = Elems(t) \cup {dsb}
  BY <1>6, DsbAfter
<1>9. c \in Seq(Instruction) BY <1>5
<1>10. do_flush("Invalidate_Data", start, end) = P
  <2> DEFINE w == <<dsb>>
  <2>1. w \in Seq(Instruction) BY Single, Instructions
  <2> HIDE DEF w, c
  <2>2. c \o t \o w = c \o (t \o w) BY <1>6, <1>9, <2>1, Associate
  <2> QED BY <1>1, <2>2, Zenon DEF w, c
<1> HIDE DEF c, u
<1>11. P \in Seq(Instruction) /\ Elems(P) = Elems(c) \cup Elems(u) BY <1>8, <1>9, Joined
<1>12. Awaited(P) BY <1>8, <1>9, AwaitedThen
<1>13. \A x \in Elems(P) : ~ IsIc(x) /\ ~ IsSw(x)
  <2>1. \A x \in Elems(t) : ~ IsIc(x) /\ ~ IsSw(x) BY <1>7, Kinds, PlainKinds DEF Plain
  <2>2. \A x \in Elems(c) : ~ IsIc(x) /\ ~ IsSw(x) BY <1>5
  <2>3. ~ IsIc(dsb) /\ ~ IsSw(dsb) BY PlainKinds DEF Plain
  <2> QED BY <2>1, <2>2, <2>3, <1>8, <1>11
<1>14. Good(P) BY <1>11, <1>12, <1>13, NoIcFenced DEF Good
<1>15. \A l \in Over(start, end) : \E x \in Elems(P) : Drops(x, l)
  BY <1>7, <1>8, <1>11 DEF Drops
<1>16. ASSUME NEW l \in Lns, NEW a \in BytesOf(l), a \notin start .. end
       PROVE  Precedes(P, Ins("dc cvac", l), Ins("dc ivac", l))
  <2> DEFINE x == Ins("dc cvac", l)
             y == Ins("dc ivac", l)
  <2>1. y \notin Elems(c) BY <1>5, Kinds
  <2>2. CASE l \in Over(start, end)
    <3>1. x \in Elems(c) BY <1>3, <1>4, <1>5, <1>16, <2>2, EdgeLine
    <3> HIDE DEF x, y
    <3>2. Precedes(c \o u, x, y) BY <1>8, <1>9, <2>1, <3>1, PrecedesThen
    <3> QED BY <3>2 DEF x, y
  <2>3. CASE l \notin Over(start, end)
    <3>1. ASSUME y \in Elems(t) PROVE FALSE
      <4>1. PICK m \in Over(start, end) : y = Ins("dc ivac", m)
        BY <1>7, <3>1, Kinds, PlainKinds
      <4>2. l = m BY <4>1 DEF Ins
      <4> QED BY <2>3, <4>2
    <3>2. y # dsb BY Kinds, PlainKinds
    <3>3. y \notin Elems(P) BY <1>8, <1>11, <2>1, <3>1, <3>2
    <3> HIDE DEF x, y, P
    <3>4. Precedes(P, x, y) BY <3>3 DEF Precedes, Elems
    <3> QED BY <3>4 DEF x, y
  <2> QED BY <2>2, <2>3
<1> HIDE DEF P
<1> QED BY <1>10, <1>14, <1>15, <1>16

------------------------------------------------------------------------------
(* The operands of dc cisw, and the sweep of the boot code.                *)

\* A product of naturals is one.
LEMMA Product ==
  ASSUME NEW a \in Nat, NEW b \in Nat
  PROVE  a * b \in Nat
OBVIOUS

\* What the assumption on the geometry says of a level.
LEMMA Widths ==
  ASSUME NEW l \in Levels
  PROVE  /\ l \in 0 .. 6 /\ line_bits(l) \in Nat /\ line_bits(l) >= 4
         /\ assoc(l) \in Nat \ {0} /\ nsets(l) \in Nat \ {0}
         /\ BitsOf(assoc(l) - 1) \in Nat /\ assoc(l) <= bit[BitsOf(assoc(l) - 1)]
         /\ BitsOf(nsets(l) - 1) \in Nat /\ nsets(l) <= bit[BitsOf(nsets(l) - 1)]
         /\ WordBits \in Nat
         /\ BitsOf(assoc(l) - 1) + BitsOf(nsets(l) - 1) + line_bits(l) <= WordBits
<1>1. WordBits \in Nat /\ LoC \in 0 .. 7 /\ OperandFits(l)
      /\ Ccsidr[l] \in [line : Nat, ways : Nat, sets : Nat]
  BY ArmCacheAssumption
<1>2. l \in 0 .. 6 BY <1>1 DEF Levels
<1>3. /\ line_bits(l) \in Nat /\ line_bits(l) >= 4
      /\ assoc(l) \in Nat \ {0} /\ nsets(l) \in Nat \ {0}
  BY <1>1 DEF line_bits, assoc, nsets, read_cache_size
<1>4. /\ assoc(l) <= bit[WordBits] /\ nsets(l) <= bit[WordBits]
      /\ BitsOf(assoc(l) - 1) + BitsOf(nsets(l) - 1) + line_bits(l) <= WordBits
  BY <1>1, Zenon DEF OperandFits
<1>5. bit[WordBits] \in Nat BY <1>1, BitType
<1>6. ASSUME NEW n \in Nat \ {0}, n <= bit[WordBits]
      PROVE  BitsOf(n - 1) \in Nat /\ n <= bit[BitsOf(n - 1)]
  <2>1. n - 1 \in Nat /\ n - 1 < bit[WordBits] BY <1>5, <1>6
  <2>2. BitsOf(n - 1) \in 0 .. WordBits /\ n - 1 < bit[BitsOf(n - 1)] BY <2>1, BitsOfWidth
  <2>3. bit[BitsOf(n - 1)] \in Nat BY <2>2, BitType
  <2> QED BY <2>2, <2>3
<1> QED BY <1>1, <1>2, <1>3, <1>4, <1>6

\* Three fields in a word: the level from bit 1, the set from the bits of a line,
\* the way in the highest bits.  g and G are their places, 16 * h the lowest a
\* place of a set can be.
Packed(K, b, h, w, s, l, g, G, x) ==
  /\ K \in Nat \ {0} /\ b \in Nat \ {0} /\ h \in Nat \ {0}
  /\ w \in Nat /\ s \in 0 .. b - 1 /\ l \in 0 .. 6
  /\ g = 16 * h /\ G = K * b * g /\ x = w * G + s * g + l * 2

\* The three fields as Decode reads them.
Unpacked(b, w, s, l, g, G, x) ==
  /\ x \in Nat /\ x < (w + 1) * G
  /\ x \div G = w /\ (x \div g) % b = s /\ (x \div 2) % 8 = l

\* The fields do not overlap.
LEMMA Unpack ==
  ASSUME NEW K, NEW b, NEW h, NEW w, NEW s, NEW l, NEW g, NEW G, NEW x,
         Packed(K, b, h, w, s, l, g, G, x)
  PROVE  Unpacked(b, w, s, l, g, G, x)
<1>0. /\ K \in Nat \ {0} /\ b \in Nat \ {0} /\ h \in Nat \ {0}
      /\ w \in Nat /\ s \in 0 .. b - 1 /\ l \in 0 .. 6
      /\ g = 16 * h /\ G = K * b * g /\ x = w * G + s * g + l * 2
  BY DEF Packed
<1>w. w \in Nat BY <1>0
<1>s. b \in Nat \ {0} /\ s \in 0 .. b - 1 BY <1>0
<1>h. K \in Nat \ {0} /\ h \in Nat \ {0} BY <1>0
<1>1. g \in Nat /\ g >= 16 /\ K * b \in Nat /\ K * b >= b /\ G \in Nat \ {0}
  BY <1>0
<1>2. s * g + l * 2 \in 0 .. b * g - 1
  <2>1. s * g \in Nat /\ s * g <= (b - 1) * g BY <1>1, <1>s
  <2>2. (b - 1) * g = b * g - g BY <1>1, <1>s
  <2> QED BY <1>0, <1>1, <2>1, <2>2
<1>3. b * g <= G
  <2>1. b * g <= (K * b) * g BY <1>1, <1>s
  <2> QED BY <1>0, <2>1
<1>4. w * G \in Nat /\ (w + 1) * G = w * G + G BY <1>1, <1>w
<1>5. b * g \in Nat BY <1>1, <1>s
<1>6. s * g + l * 2 \in 0 .. G - 1 BY <1>0, <1>1, <1>2, <1>3, <1>5
<1>7. s * g \in Nat BY <1>1, <1>s
<1>8. x = w * G + (s * g + l * 2) BY <1>0, <1>4, <1>7
<1>9. x \div G = w BY <1>1, <1>w, <1>6, <1>8, DivMul
<1>10. (x \div g) % b = s
  <2> DEFINE q == w * (K * b) + s
  <2>1. q \in Nat /\ q * g = w * G + s * g BY <1>0, <1>1
  <2>2. l * 2 \in 0 .. g - 1 BY <1>0, <1>1
  <2>3. x = q * g + l * 2 BY <1>0, <2>1, <1>8, <1>4, <1>7
  <2> HIDE DEF q
  <2>4. x \div g = q BY <1>1, <2>1, <2>2, <2>3, DivMul
  <2>5. w * K \in Nat /\ q = (w * K) * b + s BY <1>w, <1>s, <1>h DEF q
  <2>6. q % b = s BY <1>s, <2>5, DivMul
  <2> QED BY <2>4, <2>6
<1>11. (x \div 2) % 8 = l
  <2> DEFINE q == w * (K * b * h) + s * h
  <2>1. K * b * h \in Nat /\ s * h \in Nat /\ q \in Nat BY <1>0, <1>1
  <2>2. w * G = 16 * (w * (K * b * h)) BY <1>0, <1>1, <2>1
  <2>3. s * g = 16 * (s * h) BY <1>0, <1>1, <2>1
  <2>4. w * (K * b * h) \in Nat BY <1>w, <2>1
  <2>5. x = (q * 8 + l) * 2 + 0
    BY <1>0, <1>4, <1>7, <1>8, <2>1, <2>2, <2>3, <2>4
  <2> HIDE DEF q
  <2>0. l \in 0 .. 6 BY <1>0
  <2>6. q * 8 + l \in Nat BY <2>0, <2>1
  <2>7. x \div 2 = q * 8 + l BY <2>5, <2>6, DivMul
  <2>8. (q * 8 + l) % 8 = l BY <2>0, <2>1, DivMul
  <2> QED BY <2>7, <2>8
<1>12. x \in Nat /\ x < (w + 1) * G BY <1>1, <1>4, <1>6, <1>8
<1> QED BY <1>9, <1>10, <1>11, <1>12, Zenon DEF Unpacked

\* The operand of clean_invalidate_d_by_level fits its word and names the slot
\* that it was computed from, for every geometry.
LEMMA OperandDecodes ==
  ASSUME NEW l \in Levels, NEW w \in 0 .. assoc(l) - 1, NEW s \in 0 .. nsets(l) - 1
  PROVE  /\ Operand(l, w, s) \in 0 .. bit[WordBits] - 1
         /\ Decode(Operand(l, w, s)) = [level |-> l, way |-> w, set |-> s]
<1> DEFINE A == BitsOf(assoc(l) - 1)
           B == BitsOf(nsets(l) - 1)
           L == line_bits(l)
           R == WordBits - A - B - L
           K == bit[R]
           b == bit[B]
           h == bit[L - 4]
           g == bit[L]
           G == bit[WordBits - A]
           x == Operand(l, w, s)
<1>1. /\ l \in 0 .. 6 /\ L \in Nat /\ L >= 4 /\ assoc(l) \in Nat /\ nsets(l) \in Nat
      /\ A \in Nat /\ assoc(l) <= bit[A] /\ B \in Nat /\ nsets(l) <= b
      /\ WordBits \in Nat /\ A + B + L <= WordBits
  BY Widths
<1> HIDE DEF A, B, L
<1>2. /\ R \in Nat /\ L - 4 \in Nat /\ WordBits - A \in Nat
      /\ WordBits - A = (R + B) + L /\ R + B \in Nat /\ (L - 4) + 4 = L
      /\ WordBits = A + (WordBits - A)
  BY <1>1
<1>3. g = 16 * h
  <2>1. bit[4] = 16
    <3>1. bit[0 + 1] = 2 BY BitZero, BitNext
    <3>2. bit[1 + 1] = 4 BY <3>1, BitNext
    <3>3. bit[2 + 1] = 8 BY <3>2, BitNext
    <3>4. bit[3 + 1] = 16 BY <3>3, BitNext
    <3> QED BY <3>4
  <2>2. bit[(L - 4) + 4] = h * bit[4] BY <1>2, BitPlus
  <2>3. h \in Nat BY <1>2, BitType
  <2> QED BY <1>2, <2>1, <2>2, <2>3
<1>4. G = K * b * g
  <2>1. bit[(R + B) + L] = bit[R + B] * bit[L] BY <1>1, <1>2, BitPlus
  <2>2. bit[R + B] = bit[R] * bit[B] BY <1>1, <1>2, BitPlus
  <2> HIDE DEF R
  <2> QED BY <1>2, <2>1, <2>2
<1>5. K \in Nat \ {0} /\ b \in Nat \ {0} /\ h \in Nat \ {0} /\ G \in Nat \ {0}
      /\ bit[A] \in Nat /\ bit[WordBits] = bit[A] * G
  <2>1. bit[A + (WordBits - A)] = bit[A] * bit[WordBits - A] BY <1>1, <1>2, BitPlus
  <2> QED BY <1>1, <1>2, <2>1, BitType
<1>6. x = w * G + s * g + l * 2 BY DEF Operand, A, L
<1> HIDE DEF K, b, h, g, G, x, R
<1>7. w \in Nat /\ s \in 0 .. b - 1 /\ w + 1 <= bit[A] BY <1>1, <1>5
<1>8. /\ x \in Nat /\ x < (w + 1) * G
      /\ x \div G = w /\ (x \div g) % b = s /\ (x \div 2) % 8 = l
  <2>1. Packed(K, b, h, w, s, l, g, G, x)
    BY <1>1, <1>3, <1>4, <1>5, <1>6, <1>7, Zenon DEF Packed
  <2>2. Unpacked(b, w, s, l, g, G, x) BY <2>1, Unpack, Zenon
  <2> QED BY <2>2, Zenon DEF Unpacked
<1>9. (w + 1) * G <= bit[A] * G BY <1>5, <1>7
<1>10. x \in 0 .. bit[WordBits] - 1
  <2>1. (w + 1) * G \in Nat /\ bit[A] * G \in Nat BY <1>5, <1>7
  <2> QED BY <1>5, <1>8, <1>9, <2>1
<1>11. Decode(x) = [level |-> l, way |-> w, set |-> s]
  BY <1>8, Zenon DEF Decode, G, g, b, A, L, B
<1> QED BY <1>10, <1>11 DEF x

\* What an operation by set and way is.
LEMMA SwKind ==
  ASSUME NEW v
  PROVE  /\ IsSw(Ins("dc cisw", v)) /\ IsDc(Ins("dc cisw", v)) /\ ~ IsIc(Ins("dc cisw", v))
         /\ ~ IsIvac(Ins("dc cisw", v)) /\ Ins("dc cisw", v)[2] = v
         /\ v \in 0 .. bit[WordBits] - 1 => Ins("dc cisw", v) \in Instruction
BY DEF Ins, IsSw, IsDc, IsIc, IsIvac, Instruction

\* The operation on a slot.
At(l, w, s) == Ins("dc cisw", Operand(l, w, s))

\* It is an instruction and names the slot.
LEMMA AtSlot ==
  ASSUME NEW l \in Levels, NEW w \in 0 .. assoc(l) - 1, NEW s \in 0 .. nsets(l) - 1
  PROVE  /\ At(l, w, s) \in Instruction /\ IsSw(At(l, w, s))
         /\ ~ IsIc(At(l, w, s)) /\ ~ IsIvac(At(l, w, s)) /\ LevelOf(At(l, w, s)) = l
         /\ Decode(At(l, w, s)[2]) = [level |-> l, way |-> w, set |-> s]
<1> DEFINE v == Operand(l, w, s)
<1>1. v \in 0 .. bit[WordBits] - 1 /\ Decode(v) = [level |-> l, way |-> w, set |-> s]
  BY OperandDecodes
<1> HIDE DEF v
<1>2. At(l, w, s) = Ins("dc cisw", v) BY DEF At, v
<1>3. Decode(At(l, w, s)[2]) = [level |-> l, way |-> w, set |-> s]
  BY <1>1, <1>2, SwKind, Zenon
<1>4. LevelOf(At(l, w, s)) = l BY <1>3 DEF LevelOf
<1> QED BY <1>1, <1>2, <1>3, <1>4, SwKind, Zenon

\* Operations by set and way of one level, one for every slot of it.
BySlot(s, l) ==
  /\ s \in Seq(Instruction)
  /\ \A x \in Elems(s) : IsSw(x) /\ ~ IsIc(x) /\ ~ IsIvac(x) /\ LevelOf(x) = l
  /\ \A t \in [level : {l}, way : 0 .. assoc(l) - 1, set : 0 .. nsets(l) - 1] :
       \E x \in Elems(s) : IsSw(x) /\ Decode(x[2]) = t

\* clean_invalidate_d_by_level issues one for every way and set.
LEMMA ByLevel ==
  ASSUME NEW l \in Levels
  PROVE  BySlot(clean_invalidate_d_by_level(l), l)
<1> DEFINE W == assoc(l)
           N == nsets(l)
           row(w) == [s \in 1 .. N |-> At(l, w - 1, s - 1)]
           ss == [w \in 1 .. W |-> row(w)]
           r == FlattenSeq(ss)
<1>0. W \in Nat \ {0} /\ N \in Nat \ {0} BY Widths
<1>1. clean_invalidate_d_by_level(l) = r
  BY Zenon DEF clean_invalidate_d_by_level, At, Ins
<1> HIDE DEF W, N
<1>2. ASSUME NEW w \in 1 .. W, NEW s \in 1 .. N
      PROVE  /\ w - 1 \in 0 .. assoc(l) - 1 /\ s - 1 \in 0 .. nsets(l) - 1
             /\ At(l, w - 1, s - 1) \in Instruction
  <2>1. w - 1 \in 0 .. W - 1 /\ s - 1 \in 0 .. N - 1 BY <1>0
  <2>2. w - 1 \in 0 .. assoc(l) - 1 /\ s - 1 \in 0 .. nsets(l) - 1 BY <2>1 DEF W, N
  <2> QED BY <2>2, AtSlot
<1>3. ASSUME NEW w \in 1 .. W
      PROVE  row(w) \in Seq(Instruction) /\ Len(row(w)) = N
             /\ \A s \in 1 .. N : row(w)[s] = At(l, w - 1, s - 1)
  <2>1. \A s \in 1 .. N : At(l, w - 1, s - 1) \in Instruction BY <1>2
  <2> QED BY <1>0, <2>1
<1> HIDE DEF row
<1>4. ss \in Seq(Seq(Instruction)) /\ Len(ss) = W /\ \A w \in 1 .. W : ss[w] = row(w)
  BY <1>0, <1>3
<1> HIDE DEF ss
<1>5. r \in Seq(Instruction) /\ \E at : Locates(at, r, ss, Len(ss)) BY <1>4, Flattened
<1> HIDE DEF r
<1>6. PICK at : Locates(at, r, ss, Len(ss)) BY <1>5
<1>7. ASSUME NEW x \in Elems(r)
      PROVE  IsSw(x) /\ ~ IsIc(x) /\ ~ IsIvac(x) /\ LevelOf(x) = l
  <2>1. PICK k \in 1 .. Len(r) : x = r[k] BY DEF Elems
  <2>2. at[k] \in 1 .. W /\ \E p \in 1 .. Len(ss[at[k]]) : r[k] = ss[at[k]][p]
    BY <1>4, <1>6 DEF Locates
  <2>3. PICK p \in 1 .. N : r[k] = row(at[k])[p] BY <1>3, <1>4, <2>2
  <2>4. x = At(l, at[k] - 1, p - 1) BY <1>3, <2>1, <2>2, <2>3
  <2>5. at[k] - 1 \in 0 .. assoc(l) - 1 /\ p - 1 \in 0 .. nsets(l) - 1 BY <1>2, <2>2
  <2> QED BY <2>4, <2>5, AtSlot
<1>8. ASSUME NEW t \in [level : {l}, way : 0 .. assoc(l) - 1, set : 0 .. nsets(l) - 1]
      PROVE  \E x \in Elems(r) : IsSw(x) /\ Decode(x[2]) = t
  <2>1. t = [level |-> l, way |-> t.way, set |-> t.set]
        /\ t.way \in 0 .. assoc(l) - 1 /\ t.set \in 0 .. nsets(l) - 1
    OBVIOUS
  <2>2. t.way \in 0 .. W - 1 /\ t.set \in 0 .. N - 1 BY <2>1 DEF W, N
  <2>3. t.way + 1 \in 1 .. W /\ t.set + 1 \in 1 .. N
        /\ (t.way + 1) - 1 = t.way /\ (t.set + 1) - 1 = t.set
    BY <1>0, <2>2
  <2> DEFINE x == At(l, t.way, t.set)
  <2>4. row(t.way + 1)[t.set + 1] = x BY <1>3, <2>3
  <2>5. ss[t.way + 1] = row(t.way + 1) /\ Len(ss[t.way + 1]) = N BY <1>3, <1>4, <2>3
  <2> HIDE DEF x
  <2>6. \E k \in 1 .. Len(r) : r[k] = ss[t.way + 1][t.set + 1]
    BY <1>4, <1>6, <2>3, <2>5 DEF Locates
  <2>7. x \in Elems(r) BY <2>4, <2>5, <2>6 DEF Elems
  <2>8. IsSw(x) /\ Decode(x[2]) = [level |-> l, way |-> t.way, set |-> t.set]
    BY <2>1, AtSlot DEF x
  <2> QED BY <2>1, <2>7, <2>8
<1> QED BY <1>1, <1>5, <1>7, <1>8 DEF BySlot

\* clean_invalidate_d_poc issues one for every slot, in the order of the levels.
LEMMA AllLevels ==
  LET D == clean_invalidate_d_poc
  IN  /\ D \in Seq(Instruction) /\ Ascending(D)
      /\ \A x \in Elems(D) : IsSw(x) /\ ~ IsIc(x) /\ ~ IsIvac(x)
      /\ \A t \in Slots : \E x \in Elems(D) : IsSw(x) /\ Decode(x[2]) = t
<1> DEFINE part(l) == IF ctype(l) > ARMCacheI THEN clean_invalidate_d_by_level(l) ELSE <<>>
           ss == [i \in 1 .. LoC |-> part(i - 1)]
           r == FlattenSeq(ss)
<1>0. LoC \in Nat /\ \A i \in 1 .. LoC : i - 1 \in Levels BY ArmCacheAssumption DEF Levels
<1>1. clean_invalidate_d_poc = r BY Zenon DEF clean_invalidate_d_poc, loc
<1>2. ASSUME NEW l \in Levels
      PROVE  /\ part(l) \in Seq(Instruction)
             /\ \A x \in Elems(part(l)) : IsSw(x) /\ ~ IsIc(x) /\ ~ IsIvac(x) /\ LevelOf(x) = l
  <2>1. CASE ctype(l) > ARMCacheI
    <3>1. part(l) = clean_invalidate_d_by_level(l) BY <2>1
    <3>2. BySlot(part(l), l) BY <3>1, ByLevel
    <3> QED BY <3>2 DEF BySlot
  <2>2. CASE ~ (ctype(l) > ARMCacheI)
    BY <2>2, EmptyElems
  <2> QED BY <2>1, <2>2
<1>3. ASSUME NEW t \in Slots
      PROVE  t.level \in Levels /\ \E x \in Elems(part(t.level)) : IsSw(x) /\ Decode(x[2]) = t
  <2>1. PICK l \in Levels : /\ ctype(l) > ARMCacheI
                            /\ t \in [level : {l}, way : 0 .. assoc(l) - 1, set : 0 .. nsets(l) - 1]
    BY Zenon DEF Slots
  <2>2. t.level = l BY <2>1
  <2>3. part(l) = clean_invalidate_d_by_level(l) BY <2>1
  <2>4. BySlot(part(l), l) BY <2>3, ByLevel
  <2> HIDE DEF part
  <2> QED BY <2>1, <2>2, <2>4 DEF BySlot
<1> HIDE DEF part
<1>4. ss \in Seq(Seq(Instruction)) /\ Len(ss) = LoC /\ \A i \in 1 .. LoC : ss[i] = part(i - 1)
  BY <1>0, <1>2
<1> HIDE DEF ss
<1>5. r \in Seq(Instruction) /\ \E at : Locates(at, r, ss, Len(ss)) BY <1>4, Flattened
<1> HIDE DEF r
<1>6. PICK at : Locates(at, r, ss, Len(ss)) BY <1>5
<1>7. ASSUME NEW k \in 1 .. Len(r)
      PROVE  /\ at[k] \in 1 .. LoC /\ IsSw(r[k]) /\ ~ IsIc(r[k]) /\ ~ IsIvac(r[k])
             /\ LevelOf(r[k]) = at[k] - 1
  <2>1. at[k] \in 1 .. LoC /\ \E p \in 1 .. Len(ss[at[k]]) : r[k] = ss[at[k]][p]
    BY <1>4, <1>6 DEF Locates
  <2>2. ss[at[k]] = part(at[k] - 1) /\ at[k] - 1 \in Levels BY <1>0, <1>4, <2>1
  <2>3. r[k] \in Elems(part(at[k] - 1)) BY <2>1, <2>2 DEF Elems
  <2> QED BY <1>2, <2>1, <2>2, <2>3
<1>8. Ascending(r)
  <2>1. ASSUME NEW i \in 1 .. Len(r), NEW j \in 1 .. Len(r), i <= j
        PROVE  LevelOf(r[i]) <= LevelOf(r[j])
    <3>1. at[i] <= at[j] BY <1>6, <2>1 DEF Locates
    <3>2. at[i] \in 1 .. LoC /\ at[j] \in 1 .. LoC /\ LevelOf(r[i]) = at[i] - 1
          /\ LevelOf(r[j]) = at[j] - 1
      BY <1>7
    <3> QED BY <1>0, <3>1, <3>2
  <2> QED BY <2>1 DEF Ascending
<1>9. \A x \in Elems(r) : IsSw(x) /\ ~ IsIc(x) /\ ~ IsIvac(x) BY <1>7 DEF Elems
<1>10. ASSUME NEW t \in Slots PROVE \E x \in Elems(r) : IsSw(x) /\ Decode(x[2]) = t
  <2>1. t.level \in Levels BY <1>3
  <2>2. PICK x \in Elems(part(t.level)) : IsSw(x) /\ Decode(x[2]) = t BY <1>3
  <2> DEFINE i == t.level + 1
  <2>3. i \in 1 .. LoC /\ i - 1 = t.level BY <1>0, <2>1 DEF Levels
  <2> HIDE DEF i
  <2>4. ss[i] = part(t.level) BY <1>4, <2>3
  <2>5. PICK p \in 1 .. Len(ss[i]) : x = ss[i][p] BY <2>2, <2>4 DEF Elems
  <2>6. \E k \in 1 .. Len(r) : r[k] = ss[i][p] BY <1>4, <1>6, <2>3 DEF Locates
  <2>7. x \in Elems(r) BY <2>5, <2>6 DEF Elems
  <2> QED BY <2>2, <2>7
<1> QED BY <1>1, <1>5, <1>8, <1>9, <1>10

\* What activate_kernel_vspace issues sweeps every slot, awaits that, and then
\* empties the instruction cache.
LEMMA BootProgram ==
  LET P == clean_invalidate_l1_caches
  IN  /\ P \in Seq(Instruction) /\ Awaited(P) /\ Fenced(P) /\ Ascending(P)
      /\ \A x \in Elems(P) : ~ IsIvac(x)
      /\ \A t \in Slots : \E x \in Elems(P) : IsSw(x) /\ Decode(x[2]) = t
      /\ Ins("ic iallu", None) \in Elems(P)
<1> DEFINE D == clean_invalidate_d_poc
           d == <<dsb>>
           s == d \o D
           v == s \o d
           I == invalidate_i_pou
           u == I \o d
           P == v \o u
           ic == Ins("ic iallu", None)
<1>1. /\ D \in Seq(Instruction) /\ Ascending(D)
      /\ \A x \in Elems(D) : IsSw(x) /\ ~ IsIc(x) /\ ~ IsIvac(x)
      /\ \A t \in Slots : \E x \in Elems(D) : IsSw(x) /\ Decode(x[2]) = t
  BY AllLevels
<1>2. d \in Seq(Instruction) /\ Elems(d) = {dsb} BY Single, Instructions
<1>3. I \in Seq(Instruction) /\ Elems(I) = {ic, isb}
  <2>1. I = <<ic, isb>> BY Zenon DEF invalidate_i_pou, Ins
  <2>2. ic \in Instruction /\ isb \in Instruction BY Instructions
  <2> QED BY <2>1, <2>2, Body2, Zenon
<1>4. clean_invalidate_l1_caches = v \o I \o d BY Zenon DEF clean_invalidate_l1_caches
<1> HIDE DEF D, I, ic
<1>5. d \o D \in Seq(Instruction) /\ Elems(d \o D) = {dsb} \cup Elems(D)
  <2> HIDE DEF d
  <2> QED BY <1>1, <1>2, Joined
<1>6. Ascending(s)
  <2>1. \A x \in Elems(d) : ~ IsSw(x) BY <1>2, PlainKinds
  <2> HIDE DEF d
  <2> QED BY <1>1, <1>2, <2>1, AscendingAfter
<1> HIDE DEF s
<1>7. s \in Seq(Instruction) /\ Elems(s) = {dsb} \cup Elems(D) BY <1>5 DEF s
<1>8. v \in Seq(Instruction) /\ Awaited(v) /\ Elems(v) = Elems(s) \cup {dsb} BY <1>7, DsbAfter
<1>9. u \in Seq(Instruction) /\ Awaited(u) /\ Elems(u) = Elems(I) \cup {dsb} BY <1>3, DsbAfter
<1>10. clean_invalidate_l1_caches = P
  <2> HIDE DEF v, d
  <2>1. v \o I \o d = v \o (I \o d) BY <1>2, <1>3, <1>8, Associate
  <2> QED BY <1>4, <2>1
<1> HIDE DEF u
<1>11. \A x \in Elems(s) : ~ IsIc(x) /\ ~ IsIvac(x) BY <1>1, <1>7, PlainKinds DEF Plain
<1>12. \A x \in Elems(u) : ~ IsDc(x) /\ ~ IsSw(x) /\ ~ IsIvac(x)
  BY <1>3, <1>9, Kinds, PlainKinds DEF Plain, ic
<1>13. Fenced(P) BY <1>7, <1>9, <1>11, <1>12, FencedThen
<1> HIDE DEF v
<1>14. P \in Seq(Instruction) /\ Elems(P) = Elems(v) \cup Elems(u) BY <1>8, <1>9, Joined
<1>15. Awaited(P) BY <1>8, <1>9, AwaitedThen
<1>16. Ascending(v)
  <2>1. \A x \in Elems(d) : ~ IsSw(x) BY <1>2, PlainKinds
  <2> HIDE DEF d
  <2>2. Ascending(s \o d) BY <1>2, <1>6, <1>7, <2>1, AscendingThen
  <2> QED BY <2>2 DEF v
<1>17. Ascending(P) BY <1>8, <1>9, <1>12, <1>16, AscendingThen
<1>18. \A x \in Elems(P) : ~ IsIvac(x) BY <1>8, <1>11, <1>12, <1>14, PlainKinds
<1>19. \A t \in Slots : \E x \in Elems(P) : IsSw(x) /\ Decode(x[2]) = t
  BY <1>1, <1>7, <1>8, <1>14
<1>20. ic \in Elems(P) BY <1>3, <1>9, <1>14
<1> HIDE DEF P
<1> QED BY <1>10, <1>13, <1>14, <1>15, <1>17, <1>18, <1>19, <1>20 DEF ic

------------------------------------------------------------------------------
(* What a program promises, when it loses an element.                      *)

\* t is s without its k-th element.
Without(t, s, k) ==
  /\ Len(s) \in Nat /\ Len(t) \in Nat /\ k \in 1 .. Len(s) /\ Len(t) + 1 = Len(s)
  /\ \A i \in 1 .. Len(t) : t[i] = IF i < k THEN s[i] ELSE s[i + 1]

\* The indices of the one and of the other.
LEMMA WithoutIndex ==
  ASSUME NEW s, NEW t, NEW k, Without(t, s, k)
  PROVE  /\ k \in Nat
         /\ \A i \in 1 .. Len(t) : \E j \in 1 .. Len(s) :
              /\ j = (IF i < k THEN i ELSE i + 1) /\ j # k /\ t[i] = s[j]
         /\ \A j \in 1 .. Len(s) : j # k => \E i \in 1 .. Len(t) :
              /\ i = (IF j < k THEN j ELSE j - 1) /\ t[i] = s[j]
<1>0. /\ Len(s) \in Nat /\ Len(t) \in Nat /\ k \in 1 .. Len(s) /\ Len(t) + 1 = Len(s)
      /\ \A i \in 1 .. Len(t) : t[i] = IF i < k THEN s[i] ELSE s[i + 1]
  BY DEF Without
<1>1. ASSUME NEW i \in 1 .. Len(t)
      PROVE  \E j \in 1 .. Len(s) : j = (IF i < k THEN i ELSE i + 1) /\ j # k /\ t[i] = s[j]
  BY <1>0
<1>2. ASSUME NEW j \in 1 .. Len(s), j # k
      PROVE  \E i \in 1 .. Len(t) : i = (IF j < k THEN j ELSE j - 1) /\ t[i] = s[j]
  <2>1. CASE j < k
    <3>1. j \in 1 .. Len(t) BY <1>0, <2>1
    <3> QED BY <1>0, <2>1, <3>1
  <2>2. CASE j > k
    <3>1. j - 1 \in 1 .. Len(t) /\ ~ (j - 1 < k) /\ (j - 1) + 1 = j /\ ~ (j < k)
      BY <1>0, <2>2
    <3> QED BY <1>0, <3>1
  <2> QED BY <1>0, <1>2, <2>1, <2>2
<1>3. k \in Nat BY <1>0
<1>4. \A i \in 1 .. Len(t) : \E j \in 1 .. Len(s) :
        j = (IF i < k THEN i ELSE i + 1) /\ j # k /\ t[i] = s[j]
  BY <1>1, Zenon
<1>5. \A j \in 1 .. Len(s) : j # k => \E i \in 1 .. Len(t) :
        i = (IF j < k THEN j ELSE j - 1) /\ t[i] = s[j]
  BY <1>2, Zenon
<1> QED BY <1>3, <1>4, <1>5, Zenon

\* Only that element is gone.
LEMMA WithoutElems ==
  ASSUME NEW s, NEW t, NEW k, Without(t, s, k)
  PROVE  Elems(t) \subseteq Elems(s) /\ \A x \in Elems(s) : x # s[k] => x \in Elems(t)
<1>1. ASSUME NEW x \in Elems(t) PROVE x \in Elems(s)
  <2>1. PICK i \in 1 .. Len(t) : x = t[i] BY Zenon DEF Elems
  <2>2. PICK j \in 1 .. Len(s) : j = (IF i < k THEN i ELSE i + 1) /\ j # k /\ t[i] = s[j]
    BY WithoutIndex
  <2> QED BY <2>1, <2>2, Zenon DEF Elems
<1>2. ASSUME NEW x \in Elems(s), x # s[k] PROVE x \in Elems(t)
  <2>1. PICK j \in 1 .. Len(s) : x = s[j] BY Zenon DEF Elems
  <2>2. j # k BY <1>2, <2>1, Zenon
  <2>3. PICK i \in 1 .. Len(t) : i = (IF j < k THEN j ELSE j - 1) /\ t[i] = s[j]
    BY <2>2, WithoutIndex
  <2> QED BY <2>1, <2>3, Zenon DEF Elems
<1> QED BY <1>1, <1>2, Zenon

\* What was awaited still is, unless the element is a dsb with something before.
LEMMA WithoutAwaited ==
  ASSUME NEW s, NEW t, NEW k, Without(t, s, k), Awaited(s), s[k] = dsb => k = 1
  PROVE  Awaited(t)
<1>0. Len(s) \in Nat /\ Len(t) \in Nat BY DEF Without
<1>1. ASSUME NEW i \in 1 .. Len(t), IsDc(t[i]) PROVE \E j \in i + 1 .. Len(t) : t[j] = dsb
  <2>1. PICK m \in 1 .. Len(s) : m = (IF i < k THEN i ELSE i + 1) /\ m # k /\ t[i] = s[m]
    BY WithoutIndex
  <2>2. PICK d \in m + 1 .. Len(s) : s[d] = dsb BY <1>1, <2>1 DEF Awaited
  <2>3. d # k /\ d \in 1 .. Len(s) BY <1>0, <2>1, <2>2
  <2>4. PICK j \in 1 .. Len(t) : j = (IF d < k THEN d ELSE d - 1) /\ t[j] = s[d]
    BY <2>3, WithoutIndex
  <2>5. k \in Nat BY WithoutIndex
  <2>6. j \in i + 1 .. Len(t) BY <1>0, <2>1, <2>2, <2>3, <2>4, <2>5
  <2> QED BY <2>2, <2>4, <2>6
<1> QED BY <1>1 DEF Awaited

\* What was fenced still is, unless it is.
LEMMA WithoutFenced ==
  ASSUME NEW s, NEW t, NEW k, Without(t, s, k), Fenced(s), s[k] = dsb => k = 1
  PROVE  Fenced(t)
<1>0. Len(s) \in Nat /\ Len(t) \in Nat /\ k \in Nat BY WithoutIndex DEF Without
<1>1. ASSUME NEW i \in 1 .. Len(t), NEW j \in 1 .. Len(t), IsIc(t[i]), IsDc(t[j])
      PROVE  \E d \in j + 1 .. i - 1 : t[d] = dsb
  <2>1. PICK m \in 1 .. Len(s) : m = (IF i < k THEN i ELSE i + 1) /\ m # k /\ t[i] = s[m]
    BY WithoutIndex
  <2>2. PICK n \in 1 .. Len(s) : n = (IF j < k THEN j ELSE j + 1) /\ n # k /\ t[j] = s[n]
    BY WithoutIndex
  <2>3. PICK e \in n + 1 .. m - 1 : s[e] = dsb BY <1>1, <2>1, <2>2 DEF Fenced
  <2>4. e # k /\ e \in 1 .. Len(s) BY <1>0, <2>1, <2>2, <2>3
  <2>5. PICK d \in 1 .. Len(t) : d = (IF e < k THEN e ELSE e - 1) /\ t[d] = s[e]
    BY <2>4, WithoutIndex
  <2>6. d \in j + 1 .. i - 1 BY <1>0, <2>1, <2>2, <2>3, <2>4, <2>5
  <2> QED BY <2>3, <2>5, <2>6
<1> QED BY <1>1 DEF Fenced

\* What was preceded still is, unless the element is what precedes.
LEMMA WithoutPrecedes ==
  ASSUME NEW s, NEW t, NEW k, Without(t, s, k), NEW x, NEW y
  PROVE  Precedes(s, x, y) /\ s[k] # x => Precedes(t, x, y)
<1>0. Len(s) \in Nat /\ Len(t) \in Nat /\ k \in Nat BY WithoutIndex DEF Without
<1>1. ASSUME NEW i \in 1 .. Len(t), s[k] # x,
             \A m \in 1 .. Len(s) : s[m] = y => \E n \in 1 .. m - 1 : s[n] = x
      PROVE  t[i] = y => \E j \in 1 .. i - 1 : t[j] = x
  <2>1. PICK m \in 1 .. Len(s) : m = (IF i < k THEN i ELSE i + 1) /\ m # k /\ t[i] = s[m]
    BY WithoutIndex
  <2> SUFFICES ASSUME s[m] = y PROVE \E j \in 1 .. i - 1 : t[j] = x BY <2>1
  <2>2. PICK n \in 1 .. m - 1 : s[n] = x BY <1>1
  <2>3. n # k /\ n \in 1 .. Len(s) BY <1>0, <1>1, <2>1, <2>2
  <2>4. PICK j \in 1 .. Len(t) : j = (IF n < k THEN n ELSE n - 1) /\ t[j] = s[n]
    BY <2>3, WithoutIndex
  <2>5. j \in 1 .. i - 1 BY <1>0, <2>1, <2>2, <2>3, <2>4
  <2> QED BY <2>2, <2>4, <2>5
<1> QED BY <1>1 DEF Precedes

\* What ascended still does.
LEMMA WithoutAscending ==
  ASSUME NEW s, NEW t, NEW k, Without(t, s, k), Ascending(s)
  PROVE  Ascending(t)
<1>0. Len(s) \in Nat /\ Len(t) \in Nat /\ k \in Nat BY WithoutIndex DEF Without
<1>a. \A i \in 1 .. Len(t) : \E m \in 1 .. Len(s) :
        m = (IF i < k THEN i ELSE i + 1) /\ m # k /\ t[i] = s[m]
  BY WithoutIndex
<1>1. ASSUME NEW i \in 1 .. Len(t), NEW j \in 1 .. Len(t)
      PROVE  i <= j /\ IsSw(t[i]) /\ IsSw(t[j]) => LevelOf(t[i]) <= LevelOf(t[j])
  <2>1. PICK m \in 1 .. Len(s) : m = (IF i < k THEN i ELSE i + 1) /\ m # k /\ t[i] = s[m]
    BY <1>a
  <2>2. PICK n \in 1 .. Len(s) : n = (IF j < k THEN j ELSE j + 1) /\ n # k /\ t[j] = s[n]
    BY <1>a
  <2>3. i <= j => m <= n BY <1>0, <2>1, <2>2
  <2>4. m <= n /\ IsSw(s[m]) /\ IsSw(s[n]) => LevelOf(s[m]) <= LevelOf(s[n])
    BY <2>1, <2>2 DEF Ascending
  <2> QED BY <2>1, <2>2, <2>3, <2>4
<1> QED BY <1>1 DEF Ascending

\* An operation that takes effect leaves the head of what is pending.
LEMMA FirstQueued ==
  ASSUME NEW S, NEW q \in Seq(S), NEW p \in Seq(S), q # <<>>
  PROVE  /\ Without(Tail(q) \o p, q \o p, 1) /\ (q \o p)[1] = Head(q)
         /\ Head(q) \in S /\ Tail(q) \in Seq(S) /\ Head(q) = q[1] /\ Len(q) >= 1
         /\ Len(Tail(q)) = Len(q) - 1
         /\ \A i \in 1 .. Len(Tail(q)) : Tail(q)[i] = q[i + 1] /\ i + 1 \in 1 .. Len(q)
<1>1. /\ Tail(q) \in Seq(S) /\ Head(q) \in S /\ Head(q) = q[1]
      /\ Len(q) \in Nat /\ Len(q) >= 1 /\ Len(Tail(q)) = Len(q) - 1
      /\ \A i \in 1 .. Len(q) - 1 : Tail(q)[i] = q[i + 1]
  OBVIOUS
<1>2. Len(p) \in Nat OBVIOUS
<1>3. /\ Len(q \o p) = Len(q) + Len(p)
      /\ \A i \in 1 .. Len(q) + Len(p) : (q \o p)[i] = IF i <= Len(q) THEN q[i] ELSE p[i - Len(q)]
  OBVIOUS
<1> DEFINE r == Tail(q)
<1>4. r \in Seq(S) BY <1>1
<1>5. Len(r) = Len(q) - 1 /\ \A i \in 1 .. Len(q) - 1 : r[i] = q[i + 1] BY <1>1
<1> HIDE DEF r
<1>6. /\ Len(r \o p) = Len(r) + Len(p)
      /\ \A i \in 1 .. Len(r) + Len(p) : (r \o p)[i] = IF i <= Len(r) THEN r[i] ELSE p[i - Len(r)]
  BY <1>4
<1> DEFINE t == r \o p
           s == q \o p
<1>8. ASSUME NEW i \in 1 .. Len(t) PROVE t[i] = s[i + 1]
  <2> HIDE DEF t, s
  <2>1. /\ Len(t) = Len(r) + Len(p) /\ i \in 1 .. Len(r) + Len(p)
        /\ i + 1 \in 1 .. Len(q) + Len(p)
    BY <1>1, <1>2, <1>5, <1>6 DEF t
  <2>2. CASE i <= Len(r)
    <3>1. i \in 1 .. Len(q) - 1 /\ i + 1 <= Len(q) BY <1>1, <1>5, <2>2
    <3>2. t[i] = r[i] /\ s[i + 1] = q[i + 1] BY <1>3, <1>6, <2>1, <2>2, <3>1 DEF t, s
    <3> QED BY <1>5, <3>1, <3>2
  <2>3. CASE ~ (i <= Len(r))
    <3>1. ~ (i + 1 <= Len(q)) /\ (i + 1) - Len(q) = i - Len(r) BY <1>1, <1>5, <2>3
    <3>2. t[i] = p[i - Len(r)] BY <1>6, <2>1, <2>3 DEF t
    <3>3. s[i + 1] = p[(i + 1) - Len(q)] BY <1>3, <2>1, <3>1 DEF s
    <3> QED BY <3>1, <3>2, <3>3
  <2> QED BY <2>2, <2>3
<1>9. Len(s) \in Nat /\ Len(t) \in Nat /\ 1 \in 1 .. Len(s) /\ Len(t) + 1 = Len(s)
  BY <1>1, <1>2, <1>3, <1>5, <1>6
<1>10. s[1] = Head(q) BY <1>1, <1>2, <1>3
<1> HIDE DEF t, s
<1>11. \A i \in 1 .. Len(t) : ~ (i < 1) OBVIOUS
<1>12. Without(t, s, 1) BY <1>8, <1>9, <1>11 DEF Without
<1> QED BY <1>1, <1>10, <1>12 DEF t, s, r

\* An instruction that is not queued leaves from behind the queue.
LEMMA FirstIssued ==
  ASSUME NEW S, NEW q \in Seq(S), NEW p \in Seq(S), p # <<>>
  PROVE  /\ Without(q \o Tail(p), q \o p, Len(q) + 1) /\ (q \o p)[Len(q) + 1] = Head(p)
         /\ Head(p) \in S /\ Tail(p) \in Seq(S) /\ Len(q) \in Nat
         /\ \A k \in 1 .. Len(q) : (q \o p)[k] = q[k]
<1>1. /\ Tail(p) \in Seq(S) /\ Head(p) \in S /\ Head(p) = p[1]
      /\ Len(p) \in Nat /\ Len(p) >= 1 /\ Len(Tail(p)) = Len(p) - 1
      /\ \A i \in 1 .. Len(p) - 1 : Tail(p)[i] = p[i + 1]
  OBVIOUS
<1>2. Len(q) \in Nat OBVIOUS
<1>3. /\ Len(q \o p) = Len(q) + Len(p)
      /\ \A i \in 1 .. Len(q) + Len(p) : (q \o p)[i] = IF i <= Len(q) THEN q[i] ELSE p[i - Len(q)]
  OBVIOUS
<1> DEFINE r == Tail(p)
<1>4. r \in Seq(S) BY <1>1
<1>5. Len(r) = Len(p) - 1 /\ \A i \in 1 .. Len(p) - 1 : r[i] = p[i + 1] BY <1>1
<1> HIDE DEF r
<1>6. /\ Len(q \o r) = Len(q) + Len(r)
      /\ \A i \in 1 .. Len(q) + Len(r) : (q \o r)[i] = IF i <= Len(q) THEN q[i] ELSE r[i - Len(q)]
  BY <1>4
<1> DEFINE t == q \o r
           s == q \o p
           k == Len(q) + 1
<1>8. ASSUME NEW i \in 1 .. Len(t) PROVE t[i] = IF i < k THEN s[i] ELSE s[i + 1]
  <2> HIDE DEF t, s
  <2>1. /\ i \in 1 .. Len(q) + Len(r) /\ i \in 1 .. Len(q) + Len(p)
        /\ i + 1 \in 1 .. Len(q) + Len(p)
    BY <1>1, <1>2, <1>5, <1>6 DEF t
  <2>2. CASE i <= Len(q)
    <3>1. i < k BY <1>2, <2>2
    <3>2. t[i] = q[i] /\ s[i] = q[i] BY <1>3, <1>6, <2>1, <2>2 DEF t, s
    <3> QED BY <3>1, <3>2
  <2>3. CASE ~ (i <= Len(q))
    <3>1. ~ (i < k) /\ ~ (i + 1 <= Len(q)) /\ (i + 1) - Len(q) = (i - Len(q)) + 1
          /\ i - Len(q) \in 1 .. Len(p) - 1
      BY <1>1, <1>2, <1>5, <2>1, <2>3
    <3>2. t[i] = r[i - Len(q)] BY <1>6, <2>1, <2>3 DEF t
    <3>3. s[i + 1] = p[(i + 1) - Len(q)] BY <1>3, <2>1, <3>1 DEF s
    <3> QED BY <1>5, <3>1, <3>2, <3>3
  <2> QED BY <2>2, <2>3
<1>9. Len(s) \in Nat /\ Len(t) \in Nat /\ k \in 1 .. Len(s) /\ Len(t) + 1 = Len(s)
  BY <1>1, <1>2, <1>3, <1>5, <1>6
<1>10. s[k] = Head(p) BY <1>1, <1>2, <1>3
<1>11. \A i \in 1 .. Len(q) : s[i] = q[i] BY <1>1, <1>2, <1>3
<1> HIDE DEF t, s, k
<1>12. Without(t, s, k) BY <1>8, <1>9 DEF Without
<1> QED BY <1>1, <1>2, <1>10, <1>11, <1>12 DEF t, s, r, k

\* An operation that is queued stays in its place.
LEMMA Issued ==
  ASSUME NEW S, NEW q \in Seq(S), NEW p \in Seq(S), p # <<>>
  PROVE  /\ Append(q, Head(p)) \o Tail(p) = q \o p
         /\ Append(q, Head(p)) \in Seq(S) /\ Tail(p) \in Seq(S)
         /\ Len(Append(q, Head(p))) = Len(q) + 1
         /\ \A i \in 1 .. Len(q) : Append(q, Head(p))[i] = q[i]
         /\ Append(q, Head(p))[Len(q) + 1] = Head(p)
<1>1. p = <<Head(p)>> \o Tail(p) /\ Head(p) \in S /\ Tail(p) \in Seq(S) OBVIOUS
<1>2. /\ Append(q, Head(p)) \in Seq(S) /\ Len(Append(q, Head(p))) = Len(q) + 1
      /\ \A i \in 1 .. Len(q) : Append(q, Head(p))[i] = q[i]
      /\ Append(q, Head(p))[Len(q) + 1] = Head(p)
  BY <1>1
<1> DEFINE h == Head(p)
           r == Tail(p)
<1> HIDE DEF h, r
<1>3. Append(q, h) \o r = q \o (<<h>> \o r) BY <1>1 DEF h, r
<1> QED BY <1>1, <1>2, <1>3 DEF h, r

------------------------------------------------------------------------------
(* A cache line.                                                           *)

\* A cached line is a record of the three fields.
LEMMA CachedLine ==
  ASSUME Typed, NEW l \in Lns, dcache[l] # None
  PROVE  /\ dcache[l] = [data |-> dcache[l].data, dirty |-> dcache[l].dirty, slot |-> dcache[l].slot]
         /\ dcache[l].data \in [BytesOf(l) -> {0, 1}] /\ dcache[l].dirty \in BOOLEAN
         /\ dcache[l].slot \in Slots \cup {None}
<1>1. dcache[l] \in Cached(l) BY DEF Typed, TypeOK, Lns
<1>2. dcache[l] \in [data : [BytesOf(l) -> {0, 1}], dirty : BOOLEAN, slot : Slots \cup {None}]
  BY <1>1 DEF Cached, Data
<1> QED BY <1>2

\* Such a record is a cached line.
LEMMA CachedIntro ==
  ASSUME NEW l \in Lns, NEW d \in [BytesOf(l) -> {0, 1}], NEW e \in BOOLEAN, NEW s \in Slots \cup {None}
  PROVE  /\ [data |-> d, dirty |-> e, slot |-> s] \in Cached(l)
         /\ [data |-> d, dirty |-> e, slot |-> s] # None
<1>1. [data |-> d, dirty |-> e, slot |-> s] \in Cached(l) BY DEF Cached, Data
<1> QED BY <1>1, ArmCacheAssumption DEF Lns

\* The bytes of a line are those that have it.
LEMMA LineBytes ==
  ASSUME NEW l \in Lns
  PROVE  /\ BytesOf(l) \subseteq Bytes
         /\ \A a \in Bytes : a \in BytesOf(l) <=> LINE_INDEX(a) = l
BY LineOfByte, ByteOfLine

\* What an operation on line c, or its eviction, does.
Touched(c) ==
  /\ memory' \in [Bytes -> {0, 1}] /\ DOMAIN dcache' = Lns
  /\ \A l \in Lns : dcache'[l] \in Cached(l) \cup {None}
  /\ \A l \in Lns : l # c => dcache'[l] = dcache[l]
  /\ \A a \in Bytes : LINE_INDEX(a) # c => memory'[a] = memory[a]
  /\ dcache'[c] # None =>
       /\ dcache[c] # None /\ ~ dcache'[c].dirty
       /\ dcache'[c].data = dcache[c].data /\ dcache'[c].slot = dcache[c].slot

\* A dirty line c has gone to memory.
Written(c) ==
  \A a \in Bytes : LINE_INDEX(a) = c =>
    memory'[a] = IF Dirty(c) THEN dcache[c].data[a] ELSE memory[a]

\* Memory after a write-back.
LEMMA WriteBackType ==
  ASSUME Typed, NEW c \in Lns
  PROVE  /\ WriteBack(c) \in [Bytes -> {0, 1}]
         /\ \A a \in Bytes : WriteBack(c)[a] =
              IF Dirty(c) /\ LINE_INDEX(a) = c THEN dcache[c].data[a] ELSE memory[a]
<1>1. memory \in [Bytes -> {0, 1}] BY DEF Typed, TypeOK
<1>2. \A a \in Bytes : a \in BytesOf(c) <=> LINE_INDEX(a) = c BY LineBytes
<1>3. CASE Dirty(c)
  <2>1. dcache[c].data \in [BytesOf(c) -> {0, 1}] BY <1>3, CachedLine DEF Dirty
  <2>2. WriteBack(c) = [a \in Bytes |-> IF a \in BytesOf(c) THEN dcache[c].data[a] ELSE memory[a]]
    BY <1>3 DEF WriteBack
  <2> QED BY <1>1, <1>2, <1>3, <2>1, <2>2
<1>4. CASE ~ Dirty(c)
  <2>1. WriteBack(c) = memory BY <1>4 DEF WriteBack
  <2> QED BY <1>1, <1>4, <2>1
<1> QED BY <1>3, <1>4

\* The line is written back and stays.
LEMMA CleanStep ==
  ASSUME Typed, NEW c \in Lns, Clean(c)
  PROVE  Touched(c) /\ Written(c)
<1>1. memory' = WriteBack(c) BY DEF Clean
<1>2. /\ memory' \in [Bytes -> {0, 1}]
      /\ \A a \in Bytes : memory'[a] =
           IF Dirty(c) /\ LINE_INDEX(a) = c THEN dcache[c].data[a] ELSE memory[a]
  BY <1>1, WriteBackType
<1>3. Written(c) BY <1>2 DEF Written
<1>4. DOMAIN dcache = Lns /\ \A l \in Lns : dcache[l] \in Cached(l) \cup {None}
  BY DEF Typed, TypeOK, Lns
<1>5. CASE Dirty(c)
  <2>1. dcache' = [dcache EXCEPT ![c].dirty = FALSE] BY <1>5 DEF Clean
  <2>2. DOMAIN dcache' = Lns /\ (\A l \in Lns : l # c => dcache'[l] = dcache[l])
        /\ dcache'[c] = [dcache[c] EXCEPT !.dirty = FALSE]
    BY <1>4, <2>1
  <2>3. dcache[c] # None BY <1>5 DEF Dirty
  <2>4. dcache'[c] = [data |-> dcache[c].data, dirty |-> FALSE, slot |-> dcache[c].slot]
    BY <2>2, <2>3, CachedLine
  <2>5. dcache'[c] \in Cached(c) BY <2>3, <2>4, CachedLine, CachedIntro
  <2> QED BY <1>2, <1>3, <1>4, <2>2, <2>3, <2>4, <2>5 DEF Touched
<1>6. CASE ~ Dirty(c)
  <2>1. dcache' = dcache BY <1>6 DEF Clean
  <2> QED BY <1>2, <1>3, <1>4, <1>6, <2>1 DEF Touched, Dirty
<1> QED BY <1>5, <1>6

\* One line is gone, the others are what they were.
LEMMA DropLine ==
  ASSUME Typed, NEW c \in Lns, dcache' = [dcache EXCEPT ![c] = None]
  PROVE  /\ DOMAIN dcache' = Lns /\ dcache'[c] = None
         /\ \A l \in Lns : dcache'[l] \in Cached(l) \cup {None}
         /\ \A l \in Lns : l # c => dcache'[l] = dcache[l]
<1>1. DOMAIN dcache = Lns /\ \A l \in Lns : dcache[l] \in Cached(l) \cup {None}
  BY DEF Typed, TypeOK, Lns
<1> QED BY <1>1

\* The line is written back and is gone.
LEMMA CleanInvalidateStep ==
  ASSUME Typed, NEW c \in Lns, CleanInvalidate(c)
  PROVE  Touched(c) /\ Written(c) /\ dcache'[c] = None
<1>1. memory' = WriteBack(c) /\ dcache' = [dcache EXCEPT ![c] = None] BY DEF CleanInvalidate
<1>2. /\ memory' \in [Bytes -> {0, 1}]
      /\ \A a \in Bytes : memory'[a] =
           IF Dirty(c) /\ LINE_INDEX(a) = c THEN dcache[c].data[a] ELSE memory[a]
  BY <1>1, WriteBackType
<1>3. Written(c) BY <1>2 DEF Written
<1> QED BY <1>1, <1>2, <1>3, DropLine DEF Touched

\* The line is gone, and nothing is written back.
LEMMA InvalidateStep ==
  ASSUME Typed, NEW c \in Lns, Invalidate(c)
  PROVE  Touched(c) /\ memory' = memory /\ dcache'[c] = None
<1>1. memory' = memory /\ dcache' = [dcache EXCEPT ![c] = None] BY DEF Invalidate
<1>2. memory \in [Bytes -> {0, 1}] BY DEF Typed, TypeOK
<1> QED BY <1>1, <1>2, DropLine DEF Touched

------------------------------------------------------------------------------
(* Steps of everybody else.                                                *)

\* What every step of an operation, and of anybody meanwhile, leaves alone: a
\* clean line stays clean and memory under it as it is, a dirty line only moves
\* outwards, what a device has written stays and is still read where it was, and
\* the instruction cache still agrees with memory.
Calm ==
  /\ \A l \in Lns : ~ Dirty(l) =>
       ~ Dirty(l)' /\ \A a \in Owned(l) : memory'[a] = memory[a]
  /\ \A l \in Lns : Dirty(l)' =>
       \/ dcache'[l].slot = dcache[l].slot
       \/ dcache'[l].slot.level > dcache[l].slot.level
  /\ \A a \in Dma : memory[a] = 1 /\ ~ Dirty(LINE_INDEX(a)) =>
       memory'[a] = 1 /\ (View(a) = 1 => View(a)' = 1)
  /\ \A l \in Lns : ~ Dirty(l) /\ Fetched(l) => Fetched(l)'

\* A byte that the CPU writes, of a line.
LEMMA OwnedByte ==
  ASSUME NEW l \in Lns, NEW a \in Owned(l)
  PROVE  a \in Bytes /\ a \notin Dma /\ LINE_INDEX(a) = l
BY ByteOfLine DEF Owned

\* A byte that a device writes.
LEMMA DmaByte ==
  ASSUME NEW a \in Dma
  PROVE  a \in Bytes /\ LINE_INDEX(a) \in Lns
BY LineOfByte, ArmCacheAssumption

\* An operation on a line is calm, and so is its eviction.
LEMMA TouchedStep ==
  ASSUME Typed, Copies, Places, NEW c \in Lns, Touched(c),
         Written(c) \/ (memory' = memory /\ dcache'[c] = None),
         UNCHANGED <<icache, booted, op>>
  PROVE  Copies' /\ Places' /\ Calm
<1>1. /\ \A l \in Lns : l # c => dcache'[l] = dcache[l]
      /\ \A a \in Bytes : LINE_INDEX(a) # c => memory'[a] = memory[a]
      /\ dcache'[c] # None =>
           /\ dcache[c] # None /\ ~ dcache'[c].dirty
           /\ dcache'[c].data = dcache[c].data /\ dcache'[c].slot = dcache[c].slot
  BY DEF Touched
<1>2. Dirty(c)' = FALSE BY <1>1 DEF Dirty
<1>3. \A l \in Lns : l # c => Dirty(l)' = Dirty(l) BY <1>1 DEF Dirty
<1>4. ~ Dirty(c) => \A a \in Bytes : LINE_INDEX(a) = c => memory'[a] = memory[a]
  BY DEF Written
<1>5. Copies'
  <2>1. ASSUME NEW l \in Lns, dcache'[l] # None, ~ dcache'[l].dirty, NEW a \in Owned(l)
        PROVE  dcache'[l].data[a] = memory'[a]
    <3>1. a \in Bytes /\ LINE_INDEX(a) = l BY OwnedByte
    <3>2. CASE l # c BY <1>1, <2>1, <3>1, <3>2 DEF Copies
    <3>3. CASE l = c
      <4>1. dcache[c] # None /\ dcache'[c].data = dcache[c].data /\ Written(c)
        BY <1>1, <2>1, <3>3
      <4>2. CASE Dirty(c) BY <3>1, <3>3, <4>1, <4>2 DEF Written
      <4>3. CASE ~ Dirty(c)
        <5>1. dcache[c].data[a] = memory[a] BY <2>1, <3>3, <4>1, <4>3 DEF Copies, Dirty
        <5> QED BY <1>4, <3>1, <3>3, <4>1, <4>3, <5>1
      <4> QED BY <4>2, <4>3
    <3> QED BY <3>2, <3>3
  <2> QED BY <2>1 DEF Copies, Owned
<1>6. Places'
  <2>1. \A l \in Lns : dcache'[l] # None => dcache[l] # None /\ dcache'[l].slot = dcache[l].slot
    BY <1>1
  <2> QED BY <2>1 DEF Places
<1>7. Calm
  <2>1. ASSUME NEW l \in Lns, ~ Dirty(l)
        PROVE  ~ Dirty(l)' /\ \A a \in Owned(l) : memory'[a] = memory[a]
    BY <1>1, <1>2, <1>3, <1>4, <2>1, OwnedByte
  <2>2. ASSUME NEW l \in Lns, Dirty(l)' PROVE dcache'[l].slot = dcache[l].slot
    BY <1>1, <1>2, <2>2
  <2>3. ASSUME NEW a \in Dma, memory[a] = 1, ~ Dirty(LINE_INDEX(a))
        PROVE  memory'[a] = 1 /\ (View(a) = 1 => View(a)' = 1)
    <3>1. a \in Bytes /\ LINE_INDEX(a) \in Lns BY DmaByte
    <3>2. memory'[a] = 1 BY <1>1, <1>4, <2>3, <3>1
    <3>3. CASE LINE_INDEX(a) # c BY <1>1, <3>1, <3>2, <3>3, <2>3 DEF View
    <3>4. CASE LINE_INDEX(a) = c
      <4>1. CASE dcache'[c] = None BY <3>2, <3>4, <4>1 DEF View
      <4>2. CASE dcache'[c] # None BY <1>1, <3>2, <3>4, <4>2 DEF View
      <4> QED BY <4>1, <4>2
    <3> QED BY <3>2, <3>3, <3>4
  <2>4. ASSUME NEW l \in Lns, ~ Dirty(l), Fetched(l) PROVE Fetched(l)'
    BY <2>1, <2>4 DEF Fetched
  <2> QED BY <2>1, <2>2, <2>3, <2>4 DEF Calm
<1> QED BY <1>5, <1>6, <1>7

\* A fill is calm and hidden from the CPU.
LEMMA FillStep ==
  ASSUME Typed, Copies, Places, NEW c \in Lns, Fill(c)
  PROVE  Typed' /\ Copies' /\ Places' /\ Calm /\ \A a \in Bytes : View(a)' = View(a)
<1>1. PICK s \in IF booted THEN {None} ELSE Free(c) :
        dcache' = [dcache EXCEPT ![c] = [data |-> InMemory(c), dirty |-> FALSE, slot |-> s]]
  BY DEF Fill
<1>2. dcache[c] = None /\ UNCHANGED <<memory, icache, booted, op, program, queue>> BY DEF Fill
<1>3. DOMAIN dcache = Lns /\ (\A l \in Lns : dcache[l] \in Cached(l) \cup {None})
      /\ memory \in [Bytes -> {0, 1}]
  BY DEF Typed, TypeOK, Lns
<1> DEFINE r == [data |-> InMemory(c), dirty |-> FALSE, slot |-> s]
<1>4. DOMAIN dcache' = Lns /\ dcache'[c] = r /\ \A l \in Lns : l # c => dcache'[l] = dcache[l]
  BY <1>1, <1>3
<1>5. InMemory(c) \in [BytesOf(c) -> {0, 1}] /\ \A a \in BytesOf(c) : InMemory(c)[a] = memory[a]
  BY <1>3, LineBytes DEF InMemory
<1>6. s \in Slots \cup {None} BY DEF Free
<1>7. r \in Cached(c) /\ r # None BY <1>5, <1>6, CachedIntro
<1>8. r.data = InMemory(c) /\ r.dirty = FALSE /\ r.slot = s OBVIOUS
<1> HIDE DEF r
<1>9. Typed' BY <1>2, <1>3, <1>4, <1>7 DEF Typed, TypeOK, Lns
<1>10. \A l \in Lns : Dirty(l)' = Dirty(l) BY <1>2, <1>4, <1>8 DEF Dirty
<1>11. Copies'
  <2>1. ASSUME NEW l \in Lns, dcache'[l] # None, ~ dcache'[l].dirty, NEW a \in Owned(l)
        PROVE  dcache'[l].data[a] = memory'[a]
    <3>1. CASE l # c BY <1>2, <1>4, <2>1, <3>1 DEF Copies
    <3>2. CASE l = c BY <1>2, <1>4, <1>5, <1>8, <3>2 DEF Owned
    <3> QED BY <3>1, <3>2
  <2> QED BY <2>1 DEF Copies, Owned
<1>12. Places'
  <2>1. SUFFICES ASSUME ~ booted
                 PROVE  \A l \in Lns : dcache'[l] # None =>
                          /\ dcache'[l].slot \in Slots
                          /\ \A m \in Lns : dcache'[m] # None /\ dcache'[m].slot = dcache'[l].slot => l = m
    BY <1>2 DEF Places
  <2>2. s \in Slots /\ \A l \in Lns : dcache[l] # None => dcache[l].slot # s
    BY <2>1 DEF Free, Lns
  <2>3. \A l \in Lns : l # c /\ dcache'[l] # None => dcache'[l].slot \in Slots /\ dcache'[l].slot # s
    BY <1>4, <2>1, <2>2 DEF Places
  <2>4. dcache'[c].slot = s BY <1>4, <1>8
  <2>5. ASSUME NEW l \in Lns, dcache'[l] # None, NEW m \in Lns, dcache'[m] # None,
               dcache'[m].slot = dcache'[l].slot
        PROVE  l = m
    <3>1. CASE l = c \/ m = c BY <2>3, <2>4, <2>5, <3>1
    <3>2. CASE l # c /\ m # c BY <1>4, <2>1, <2>5, <3>2 DEF Places
    <3> QED BY <3>1, <3>2
  <2> QED BY <2>2, <2>3, <2>4, <2>5
<1>13. \A a \in Bytes : View(a)' = View(a)
  <2>1. ASSUME NEW a \in Bytes PROVE View(a)' = View(a)
    <3>1. LINE_INDEX(a) \in Lns /\ a \in BytesOf(LINE_INDEX(a)) BY LineOfByte
    <3>2. CASE LINE_INDEX(a) # c BY <1>2, <1>4, <3>1, <3>2 DEF View
    <3>3. CASE LINE_INDEX(a) = c BY <1>2, <1>4, <1>5, <1>7, <1>8, <3>1, <3>3 DEF View
    <3> QED BY <3>2, <3>3
  <2> QED BY <2>1
<1>14. Calm
  <2>1. \A l \in Lns : Dirty(l)' => dcache'[l].slot = dcache[l].slot
    BY <1>2, <1>4, <1>10 DEF Dirty
  <2>2. \A a \in Dma : View(a)' = View(a) BY <1>13, DmaByte
  <2>3. \A l \in Lns : Fetched(l) => Fetched(l)' BY <1>2 DEF Fetched
  <2> QED BY <1>2, <1>10, <2>1, <2>2, <2>3 DEF Calm
<1> QED BY <1>9, <1>11, <1>12, <1>13, <1>14

\* So is a line that goes to another level.
LEMMA DemoteStep ==
  ASSUME Typed, Copies, Places, NEW c \in Lns, Demote(c)
  PROVE  Typed' /\ Copies' /\ Places' /\ Calm /\ \A a \in Bytes : View(a)' = View(a)
<1>1. PICK s \in Free(c) : s.level > dcache[c].slot.level
                           /\ dcache' = [dcache EXCEPT ![c].slot = s]
  BY DEF Demote
<1>2. ~ booted /\ dcache[c] # None /\ UNCHANGED <<memory, icache, booted, op, program, queue>>
  BY DEF Demote
<1>3. DOMAIN dcache = Lns /\ \A l \in Lns : dcache[l] \in Cached(l) \cup {None}
  BY DEF Typed, TypeOK, Lns
<1>4. DOMAIN dcache' = Lns /\ (\A l \in Lns : l # c => dcache'[l] = dcache[l])
      /\ dcache'[c] = [dcache[c] EXCEPT !.slot = s]
  BY <1>1, <1>3
<1>5. s \in Slots /\ \A l \in Lns : dcache[l] # None => dcache[l].slot # s BY DEF Free, Lns
<1>6. dcache'[c] = [data |-> dcache[c].data, dirty |-> dcache[c].dirty, slot |-> s]
  BY <1>2, <1>4, CachedLine
<1>7. dcache'[c] \in Cached(c) /\ dcache'[c] # None
  <2>1. dcache[c].data \in [BytesOf(c) -> {0, 1}] /\ dcache[c].dirty \in BOOLEAN
    BY <1>2, CachedLine
  <2>2. s \in Slots \cup {None} BY <1>5
  <2> DEFINE r == [data |-> dcache[c].data, dirty |-> dcache[c].dirty, slot |-> s]
  <2>3. r \in Cached(c) /\ r # None BY <2>1, <2>2, CachedIntro
  <2> HIDE DEF r
  <2>4. dcache'[c] = r BY <1>6 DEF r
  <2> QED BY <2>3, <2>4
<1>8. dcache'[c].data = dcache[c].data /\ dcache'[c].dirty = dcache[c].dirty /\ dcache'[c].slot = s
  BY <1>6
<1>9. Typed' BY <1>2, <1>3, <1>4, <1>7 DEF Typed, TypeOK, Lns
<1>10. \A l \in Lns : Dirty(l)' = Dirty(l) BY <1>2, <1>4, <1>7, <1>8 DEF Dirty
<1>11. Copies'
  <2>1. \A l \in Lns : dcache'[l] # None =>
          dcache[l] # None /\ dcache'[l].data = dcache[l].data /\ dcache'[l].dirty = dcache[l].dirty
    BY <1>2, <1>4, <1>8
  <2> QED BY <1>2, <2>1 DEF Copies, Owned
<1>12. Places'
  <2>3. \A l \in Lns : l # c /\ dcache'[l] # None => dcache'[l].slot \in Slots /\ dcache'[l].slot # s
    BY <1>2, <1>4, <1>5 DEF Places
  <2>5. ASSUME NEW l \in Lns, dcache'[l] # None, NEW m \in Lns, dcache'[m] # None,
               dcache'[m].slot = dcache'[l].slot
        PROVE  l = m
    <3>1. CASE l = c \/ m = c BY <1>8, <2>3, <2>5, <3>1
    <3>2. CASE l # c /\ m # c BY <1>2, <1>4, <2>5, <3>2 DEF Places
    <3> QED BY <3>1, <3>2
  <2> QED BY <1>2, <1>5, <1>8, <2>3, <2>5 DEF Places
<1>13. \A a \in Bytes : View(a)' = View(a)
  <2>1. ASSUME NEW a \in Bytes PROVE View(a)' = View(a)
    <3>1. LINE_INDEX(a) \in Lns BY LineOfByte
    <3>2. CASE LINE_INDEX(a) # c BY <1>2, <1>4, <3>1, <3>2 DEF View
    <3>3. CASE LINE_INDEX(a) = c BY <1>2, <1>7, <1>8, <3>1, <3>3 DEF View
    <3> QED BY <3>2, <3>3
  <2> QED BY <2>1
<1>14. Calm
  <2>1. \A l \in Lns : Dirty(l)' => \/ dcache'[l].slot = dcache[l].slot
                                    \/ dcache'[l].slot.level > dcache[l].slot.level
    BY <1>1, <1>4, <1>8
  <2>2. \A a \in Dma : View(a)' = View(a) BY <1>13, DmaByte
  <2>3. \A l \in Lns : Fetched(l) => Fetched(l)' BY <1>2 DEF Fetched
  <2> QED BY <1>2, <1>10, <2>1, <2>2, <2>3 DEF Calm
<1> QED BY <1>9, <1>11, <1>12, <1>13, <1>14

\* So is a write of a device, but for its own bytes.
LEMMA DeviceStep ==
  ASSUME Typed, Copies, Places, NEW b \in Dma, DeviceWrite(b)
  PROVE  /\ Typed' /\ Copies' /\ Places' /\ Calm
         /\ \A a \in Bytes \ Dma : View(a)' = View(a)
<1>1. memory' = [memory EXCEPT ![b] = 1] /\ UNCHANGED <<dcache, icache, booted, op, program, queue>>
  BY DEF DeviceWrite
<1>2. memory \in [Bytes -> {0, 1}] /\ b \in Bytes BY DmaByte DEF Typed, TypeOK
<1>3. /\ memory' \in [Bytes -> {0, 1}] /\ memory'[b] = 1
      /\ \A a \in Bytes : a # b => memory'[a] = memory[a]
  BY <1>1, <1>2
<1>4. Typed' BY <1>1, <1>3 DEF Typed, TypeOK
<1>5. \A l \in Lns : \A a \in Owned(l) : memory'[a] = memory[a] BY <1>3, OwnedByte
<1>6. Copies' BY <1>1, <1>5 DEF Copies, Owned
<1>7. Places' BY <1>1 DEF Places
<1>8. ASSUME NEW a \in Dma, memory[a] = 1 PROVE memory'[a] = 1 /\ (View(a) = 1 => View(a)' = 1)
  BY <1>1, <1>3, <1>8, DmaByte DEF View
<1>9. Calm BY <1>1, <1>5, <1>8 DEF Calm, Dirty, Fetched, Owned
<1>10. ASSUME NEW a \in Bytes \ Dma PROVE View(a)' = View(a) BY <1>1, <1>3 DEF View
<1> QED BY <1>4, <1>6, <1>7, <1>9, <1>10

\* So is a fill of the instruction cache.
LEMMA FillIStep ==
  ASSUME Typed, Copies, Places, NEW c \in Lns, FillI(c)
  PROVE  Typed' /\ Copies' /\ Places' /\ Calm /\ \A a \in Bytes : View(a)' = View(a)
<1> DEFINE r == [a \in BytesOf(c) \ Dma |-> memory[a]]
<1>1. icache' = [icache EXCEPT ![c] = r] /\ UNCHANGED <<memory, dcache, booted, op, program, queue>>
  BY DEF FillI
<1>2. /\ memory \in [Bytes -> {0, 1}] /\ DOMAIN icache = Lns
      /\ \A l \in Lns : icache[l] \in Code(l) \cup {None}
  BY DEF Typed, TypeOK, Lns
<1>3. r \in Code(c) /\ \A a \in Owned(c) : r[a] = memory[a]
  BY <1>2, LineBytes DEF Code, Owned
<1> HIDE DEF r
<1>4. DOMAIN icache' = Lns /\ icache'[c] = r /\ \A l \in Lns : l # c => icache'[l] = icache[l]
  BY <1>1, <1>2
<1>5. Typed' BY <1>1, <1>2, <1>3, <1>4 DEF Typed, TypeOK, Lns
<1>6. Copies' BY <1>1 DEF Copies, Owned
<1>7. Places' BY <1>1 DEF Places
<1>8. ASSUME NEW l \in Lns, Fetched(l) PROVE Fetched(l)'
  <2>1. CASE l # c BY <1>1, <1>4, <1>8, <2>1 DEF Fetched, Owned
  <2>2. CASE l = c BY <1>1, <1>3, <1>4, <2>2 DEF Fetched, Owned
  <2> QED BY <2>1, <2>2
<1>9. \A a \in Bytes : View(a)' = View(a) BY <1>1 DEF View
<1>10. \A a \in Dma : View(a)' = View(a) BY <1>9, DmaByte
<1>11. \A l \in Lns : Dirty(l)' = Dirty(l) BY <1>1 DEF Dirty
<1>12. Calm BY <1>1, <1>8, <1>10, <1>11 DEF Calm
<1> QED BY <1>5, <1>6, <1>7, <1>9, <1>12

\* A store of the CPU keeps the copies; it is not calm, and no operation is under
\* way.
LEMMA CpuStep ==
  ASSUME Typed, Copies, Places, NEW b \in Bytes \ Dma, CpuWrite(b)
  PROVE  Typed' /\ Copies' /\ Places'
<1> DEFINE c == LINE_INDEX(b)
<1>1. /\ booted /\ dcache[c] # None /\ UNCHANGED <<memory, icache, booted, op, program, queue>>
      /\ dcache' = [dcache EXCEPT ![c].data[b] = 1 - @, ![c].dirty = TRUE]
  BY DEF CpuWrite
<1>2. c \in Lns /\ b \in BytesOf(c) BY LineOfByte
<1> HIDE DEF c
<1>3. DOMAIN dcache = Lns /\ \A l \in Lns : dcache[l] \in Cached(l) \cup {None}
  BY DEF Typed, TypeOK, Lns
<1> DEFINE old == dcache[c]
           data == [old.data EXCEPT ![b] = 1 - old.data[b]]
           new == [data |-> data, dirty |-> TRUE, slot |-> old.slot]
<1>4. /\ old = [data |-> old.data, dirty |-> old.dirty, slot |-> old.slot]
      /\ old.data \in [BytesOf(c) -> {0, 1}] /\ old.slot \in Slots \cup {None}
  BY <1>1, <1>2, CachedLine
<1>5. DOMAIN dcache' = Lns /\ (\A l \in Lns : l # c => dcache'[l] = dcache[l])
      /\ dcache'[c] = new
  BY <1>1, <1>2, <1>3, <1>4
<1>6. data \in [BytesOf(c) -> {0, 1}]
  <2>1. 1 - old.data[b] \in {0, 1} BY <1>2, <1>4
  <2> QED BY <1>4, <2>1
<1>7. new \in Cached(c) /\ new # None /\ new.dirty = TRUE
  <2> HIDE DEF data, old
  <2>1. new \in Cached(c) /\ new # None BY <1>2, <1>4, <1>6, CachedIntro
  <2> QED BY <2>1
<1> HIDE DEF new
<1>8. Typed' BY <1>1, <1>3, <1>5, <1>7 DEF Typed, TypeOK, Lns
<1>9. Copies'
  <2>1. \A l \in Lns : dcache'[l] # None /\ ~ dcache'[l].dirty => dcache'[l] = dcache[l]
    BY <1>5, <1>7
  <2> QED BY <1>1, <2>1 DEF Copies, Owned
<1>10. Places' BY <1>1 DEF Places
<1> QED BY <1>8, <1>9, <1>10

------------------------------------------------------------------------------
(* From a step that leaves and its effect to the parts of the invariant.   *)

\* A step after which x, and nothing else, is no longer pending.
Leaves(x) ==
  /\ Elems(pending') \subseteq Elems(pending)
  /\ \A y \in Elems(pending) : y # x => y \in Elems(pending')
  /\ Awaited(pending') /\ Fenced(pending') /\ Ascending(pending')
  /\ \A l \in Lns : x # Ins("dc cvac", l) /\ Precedes(pending, Ins("dc cvac", l), Ins("dc ivac", l))
       => Precedes(pending', Ins("dc cvac", l), Ins("dc ivac", l))
  /\ IsSw(x) => \A y \in Elems(pending) : IsSw(y) => LevelOf(x) <= LevelOf(y)

\* What that step has done if it executed x.
Effect(x) ==
  /\ \A l \in Lns : Cleans(x, l) => ~ Dirty(l)'
  /\ IsSw(x) => \A l \in Lns : Dirty(l)' => dcache'[l].slot # Decode(x[2])
  /\ \A l \in Lns : Drops(x, l) => \A a \in Dma : LINE_INDEX(a) = l =>
       (memory[a] = 1 /\ ~ Dirty(l) => View(a)' = 1)
  /\ \A l \in Lns : x \in {Ins("ic ivau", l), Ins("ic iallu", None)} =>
       Fetched(l)' /\ \A y \in Elems(pending) : ~ IsDc(y)

\* An operation's range and what was delivered are bytes.
LEMMA OperationFields ==
  ASSUME Typed, op # None
  PROVE  /\ op.label \in Labels \cup {"boot"}
         /\ op.range \subseteq Bytes /\ op.delivered \subseteq Dma
         /\ \A a \in op.range : LINE_INDEX(a) \in Lns
         /\ \A a \in op.delivered : LINE_INDEX(a) \in Lns
<1>1. op \in Operation BY DEF Typed, TypeOK
<1>2. op.label \in Labels \cup {"boot"} /\ op.range \subseteq Bytes /\ op.delivered \subseteq Dma
  BY <1>1 DEF Operation
<1> QED BY <1>2, LineOfByte, DmaByte

\* What cleans is an operation on the data cache.
LEMMA CleansIsDc ==
  ASSUME NEW x, NEW l, Cleans(x, l)
  PROVE  IsDc(x)
<1>1. IsDc(Ins("dc cvac", l)) /\ IsDc(Ins("dc cvau", l)) /\ IsDc(Ins("dc civac", l))
  BY DEF Ins, IsDc
<1> QED BY <1>1 DEF Cleans

\* What sweeps is an operation on the data cache.
LEMMA SwIsDc ==
  ASSUME NEW x, IsSw(x)
  PROVE  IsDc(x)
BY DEF IsSw, IsDc

\* When no operation on the data cache is left, what was to be cleaned is clean.
LEMMA NothingDirty ==
  ASSUME Typed, Places, Sweeping, Cleaning, op # None,
         op.label \in {"Clean_Data", "CleanInvalidate_Data", "Unify_Instruction", "boot"},
         \A y \in Elems(pending) : ~ IsDc(y), NEW a \in op.range
  PROVE  ~ Dirty(LINE_INDEX(a))
<1> DEFINE l == LINE_INDEX(a)
<1>1. l \in Lns BY OperationFields
<1>2. CASE op.label = "boot"
  <2>1. SUFFICES ASSUME Dirty(l) PROVE FALSE OBVIOUS
  <2>2. ~ booted /\ dcache[l].slot \in Slots BY <1>1, <1>2, <2>1 DEF Places, Dirty
  <2>3. \E y \in Elems(pending) : IsSw(y)
    BY <1>1, <1>2, <2>1, <2>2 DEF Sweeping, Beyond
  <2> QED BY <2>3, SwIsDc
<1>3. CASE op.label # "boot"
  <2>1. Dirty(l) => \E y \in Elems(pending) : Cleans(y, l) BY <1>3 DEF Cleaning
  <2> QED BY <2>1, CleansIsDc
<1> QED BY <1>2, <1>3

\* The sweep: a slot that leaves has been cleaned, and no dirty line can come into
\* it, as it would have to come from a level that was done before.
LEMMA SweepingStep ==
  ASSUME NEW x, Typed, Places, Sweeping, Places', Calm, UNCHANGED <<op, booted>>,
         Leaves(x), Effect(x)
  PROVE  Sweeping'
<1>1. Ascending(pending') BY DEF Leaves
<1>2. \A y \in Elems(pending') : IsSw(y) => ~ booted' BY DEF Leaves, Sweeping
<1>3. ASSUME op # None, op.label = "boot", NEW l \in Lns, Dirty(l)', NEW t \in Slots,
             Beyond(t, dcache'[l].slot)
      PROVE  \E y \in Elems(pending') : IsSw(y) /\ Decode(y[2]) = t
  <2> DEFINE s == dcache[l].slot
             u == dcache'[l].slot
  <2>1. Dirty(l) BY <1>3 DEF Calm
  <2>2. s \in Slots /\ u \in Slots
    <3>1. ~ booted /\ ~ booted' BY <1>3 DEF Places
    <3>2. dcache[l] # None /\ dcache'[l] # None BY <1>3, <2>1 DEF Dirty
    <3> QED BY <3>1, <3>2 DEF Places
  <2>3. u = s \/ u.level > s.level BY <1>3 DEF Calm
  <2> HIDE DEF s, u
  <2>4. ASSUME NEW r \in Slots PROVE r.level \in Int
    BY ArmCacheAssumption DEF Slots, Levels
  <2>5. t = u \/ t.level > u.level BY <1>3 DEF Beyond, u
  <2>6. Beyond(t, s) /\ Beyond(u, s) BY <2>2, <2>3, <2>4, <2>5 DEF Beyond
  <2>7. \A r \in Slots : Beyond(r, s) => \E y \in Elems(pending) : IsSw(y) /\ Decode(y[2]) = r
    BY <1>3, <2>1 DEF Sweeping, s
  <2>8. PICK y \in Elems(pending) : IsSw(y) /\ Decode(y[2]) = t BY <2>6, <2>7
  <2>9. CASE y # x BY <2>8, <2>9 DEF Leaves
  <2>10. CASE y = x
    <3>1. IsSw(x) /\ Decode(x[2]) = t BY <2>8, <2>10
    <3>2. u # t BY <1>3, <3>1 DEF Effect, u
    <3>3. PICK z \in Elems(pending) : IsSw(z) /\ Decode(z[2]) = u BY <2>2, <2>6, <2>7
    <3>4. LevelOf(x) <= LevelOf(z) BY <3>1, <3>3 DEF Leaves
    <3>5. t.level <= u.level BY <3>1, <3>3, <3>4 DEF LevelOf
    <3>6. t.level > u.level BY <2>5, <3>2
    <3> QED BY <2>2, <2>4, <3>5, <3>6
  <2> QED BY <2>9, <2>10
<1>4. op' = op OBVIOUS
<1> QED BY <1>1, <1>2, <1>3, <1>4 DEF Sweeping

\* The neighbours: a line whose dc cvac leaves is clean.
LEMMA NeighboursStep ==
  ASSUME NEW x, Typed, Neighbours, Calm, UNCHANGED <<op, booted>>, Leaves(x), Effect(x)
  PROVE  Neighbours'
<1>1. ASSUME op # None, NEW l \in Lns, NEW a \in Owned(l), Dirty(l)', ~ Given(a)
      PROVE  Precedes(pending', Ins("dc cvac", l), Ins("dc ivac", l))
  <2>1. Dirty(l) BY <1>1 DEF Calm
  <2>2. Precedes(pending, Ins("dc cvac", l), Ins("dc ivac", l)) BY <1>1, <2>1 DEF Neighbours
  <2>3. x # Ins("dc cvac", l) BY <1>1 DEF Effect, Cleans
  <2> QED BY <2>2, <2>3 DEF Leaves
<1>2. op' = op /\ \A a : Given(a)' = Given(a) BY DEF Given
<1> QED BY <1>1, <1>2 DEF Neighbours, Owned

\* The cleaning: a line whose operation leaves is clean.
LEMMA CleaningStep ==
  ASSUME NEW x, Typed, Cleaning, Calm, UNCHANGED <<op, booted>>, Leaves(x), Effect(x)
  PROVE  Cleaning'
<1>1. ASSUME op # None, op.label \in {"Clean_Data", "CleanInvalidate_Data", "Unify_Instruction"},
             NEW a \in op.range, Dirty(LINE_INDEX(a))'
      PROVE  \E y \in Elems(pending') : Cleans(y, LINE_INDEX(a))
  <2> DEFINE l == LINE_INDEX(a)
  <2>1. l \in Lns BY <1>1, OperationFields
  <2>2. Dirty(l)' BY <1>1
  <2>3. Dirty(l) BY <2>1, <2>2 DEF Calm
  <2>4. PICK y \in Elems(pending) : Cleans(y, l) BY <1>1, <2>3 DEF Cleaning
  <2>5. y # x BY <2>1, <2>2, <2>4 DEF Effect
  <2> QED BY <2>4, <2>5 DEF Leaves
<1>2. op' = op OBVIOUS
<1> QED BY <1>1, <1>2 DEF Cleaning

\* The delivered bytes: a line whose operation leaves is read from memory.
LEMMA DeliveredStep ==
  ASSUME NEW x, Typed, Delivered, Calm, UNCHANGED <<op, booted>>, Leaves(x), Effect(x)
  PROVE  Delivered'
<1>1. ASSUME op # None, NEW a \in op.delivered
      PROVE  /\ memory'[a] = 1 /\ ~ Dirty(LINE_INDEX(a))'
             /\ op.label \in {"Invalidate_Data", "CleanInvalidate_Data"} =>
                  View(a)' = 1 \/ \E y \in Elems(pending') : Drops(y, LINE_INDEX(a))
  <2> DEFINE l == LINE_INDEX(a)
  <2>1. l \in Lns /\ a \in Dma BY <1>1, OperationFields
  <2>2. memory[a] = 1 /\ ~ Dirty(l) BY <1>1 DEF Delivered
  <2>3. memory'[a] = 1 /\ ~ Dirty(l)' BY <2>1, <2>2 DEF Calm
  <2>4. View(a) = 1 => View(a)' = 1 BY <2>1, <2>2 DEF Calm
  <2>5. ASSUME op.label \in {"Invalidate_Data", "CleanInvalidate_Data"}
        PROVE  View(a)' = 1 \/ \E y \in Elems(pending') : Drops(y, l)
    <3>1. CASE View(a) = 1 BY <2>4, <3>1
    <3>2. CASE View(a) # 1
      <4>1. PICK y \in Elems(pending) : Drops(y, l) BY <1>1, <2>5, <3>2 DEF Delivered
      <4>2. CASE y = x BY <2>1, <2>2, <4>1, <4>2 DEF Effect
      <4>3. CASE y # x BY <4>1, <4>3 DEF Leaves
      <4> QED BY <4>2, <4>3
    <3> QED BY <3>1, <3>2
  <2> QED BY <2>3, <2>5
<1>2. op' = op OBVIOUS
<1> QED BY <1>1, <1>2 DEF Delivered

\* The fetches: an operation on the instruction cache leaves after all of those on
\* the data cache, so that no stale line can be filled again.
LEMMA FetchingStep ==
  ASSUME NEW x, Typed, Places, Sweeping, Cleaning, Fetching, Calm, UNCHANGED <<op, booted>>,
         Leaves(x), Effect(x)
  PROVE  Fetching'
<1>1. ASSUME op # None, op.label \in {"Unify_Instruction", "boot"}, NEW a \in op.range
      PROVE  \/ ~ Dirty(LINE_INDEX(a))' /\ Fetched(LINE_INDEX(a))'
             \/ Ins("ic ivau", LINE_INDEX(a)) \in Elems(pending')
             \/ Ins("ic iallu", None) \in Elems(pending')
  <2> DEFINE l == LINE_INDEX(a)
  <2>1. l \in Lns BY <1>1, OperationFields
  <2>2. \/ ~ Dirty(l) /\ Fetched(l)
        \/ Ins("ic ivau", l) \in Elems(pending) \/ Ins("ic iallu", None) \in Elems(pending)
    BY <1>1 DEF Fetching
  <2>3. CASE ~ Dirty(l) /\ Fetched(l) BY <2>1, <2>3 DEF Calm
  <2>4. ASSUME NEW y \in {Ins("ic ivau", l), Ins("ic iallu", None)}, y \in Elems(pending)
        PROVE  y \in Elems(pending') \/ (~ Dirty(l)' /\ Fetched(l)')
    <3>1. CASE y # x BY <2>4, <3>1 DEF Leaves
    <3>2. CASE y = x
      <4>1. Fetched(l)' /\ \A z \in Elems(pending) : ~ IsDc(z) BY <2>1, <2>4, <3>2 DEF Effect
      <4>2. ~ Dirty(l) BY <1>1, <4>1, NothingDirty
      <4> QED BY <2>1, <4>1, <4>2 DEF Calm
    <3> QED BY <3>1, <3>2
  <2> QED BY <2>2, <2>3, <2>4
<1>2. op' = op OBVIOUS
<1> QED BY <1>1, <1>2 DEF Fetching

\* All of them.
LEMMA Progress ==
  ASSUME NEW x, IInv, Places', Calm, UNCHANGED <<op, booted>>, Leaves(x), Effect(x)
  PROVE  Sweeping' /\ Neighbours' /\ Cleaning' /\ Delivered' /\ Fetching'
<1>1. Typed /\ Places /\ Sweeping /\ Neighbours /\ Cleaning /\ Delivered /\ Fetching BY DEF IInv
<1> QED BY <1>1, SweepingStep, NeighboursStep, CleaningStep, DeliveredStep, FetchingStep

\* The fields of an instruction.
LEMMA InsFields ==
  ASSUME NEW n, NEW v
  PROVE  Ins(n, v)[1] = n /\ Ins(n, v)[2] = v
BY DEF Ins

\* Every instruction is its name and its argument.
LEMMA InstructionForm ==
  ASSUME NEW x \in Instruction
  PROVE  /\ x = Ins(x[1], x[2])
         /\ x[1] \in {"dc cvac", "dc cvau", "dc ivac", "dc civac", "ic ivau"} => x[2] \in Lns
         /\ x[1] \in {"dmb", "dsb", "isb", "ic iallu"} => x[2] = None
<1>1. ASSUME NEW A, NEW B, x \in A \X B
      PROVE  x = Ins(x[1], x[2]) /\ x[1] \in A /\ x[2] \in B
  BY <1>1 DEF Ins
<1>2. CASE x \in {"dc cvac", "dc cvau", "dc ivac", "dc civac", "ic ivau"} \X Lns
  <2>1. /\ x = Ins(x[1], x[2]) /\ x[2] \in Lns
        /\ x[1] \in {"dc cvac", "dc cvau", "dc ivac", "dc civac", "ic ivau"}
    BY <1>1, <1>2
  <2> QED BY <2>1
<1>3. CASE x \in {"dc cisw"} \X (0 .. bit[WordBits] - 1)
  <2>1. x = Ins(x[1], x[2]) /\ x[1] \in {"dc cisw"} BY <1>1, <1>3
  <2> QED BY <2>1
<1>4. CASE x \in {"dmb", "dsb", "isb", "ic iallu"} \X {None}
  <2>1. x = Ins(x[1], x[2]) /\ x[1] \in {"dmb", "dsb", "isb", "ic iallu"} /\ x[2] \in {None}
    BY <1>1, <1>4
  <2> QED BY <2>1
<1> QED BY <1>2, <1>3, <1>4 DEF Instruction, Lns

\* The name and the argument tell instructions apart.
LEMMA InsSame ==
  ASSUME NEW n, NEW v, NEW m, NEW w, Ins(n, v) = Ins(m, w)
  PROVE  n = m /\ v = w
BY DEF Ins

\* An element leaves by either end of what is queued.
LEMMA LeavesWithout ==
  ASSUME NEW k, NEW x, Without(pending', pending, k), pending[k] = x,
         Ordering, Ascending(pending), x = dsb => k = 1, IsSw(x) => k = 1
  PROVE  Leaves(x)
<1>1. Elems(pending') \subseteq Elems(pending) /\ \A y \in Elems(pending) : y # x => y \in Elems(pending')
  BY WithoutElems
<1>2. Awaited(pending') BY WithoutAwaited DEF Ordering
<1>3. Fenced(pending') BY WithoutFenced DEF Ordering
<1>4. Ascending(pending') BY WithoutAscending
<1>5. \A l \in Lns : x # Ins("dc cvac", l) /\ Precedes(pending, Ins("dc cvac", l), Ins("dc ivac", l))
        => Precedes(pending', Ins("dc cvac", l), Ins("dc ivac", l))
  BY WithoutPrecedes
<1>6. ASSUME IsSw(x), NEW y \in Elems(pending), IsSw(y) PROVE LevelOf(x) <= LevelOf(y)
  <2>1. k = 1 /\ 1 \in 1 .. Len(pending) BY <1>6 DEF Without
  <2>2. PICK j \in 1 .. Len(pending) : y = pending[j] BY DEF Elems
  <2>3. 1 <= j OBVIOUS
  <2>4. pending[1] = x BY <2>1
  <2> QED BY <1>6, <2>1, <2>2, <2>3, <2>4 DEF Ascending
<1> QED BY <1>1, <1>2, <1>3, <1>4, <1>5, <1>6 DEF Leaves

\* A barrier has no effect of its own.
LEMMA PlainEffect ==
  ASSUME NEW x, Plain(x)
  PROVE  Effect(x)
<1>1. ~ IsSw(x) BY SwIsDc DEF Plain
<1>2. \A l : ~ Cleans(x, l) BY CleansIsDc DEF Plain
<1>3. \A l : ~ Drops(x, l)
  <2>1. \A l : IsDc(Ins("dc ivac", l)) /\ IsDc(Ins("dc civac", l)) BY DEF Ins, IsDc
  <2> QED BY <2>1 DEF Drops, Plain
<1>4. \A l : x # Ins("ic ivau", l) /\ x # Ins("ic iallu", None)
  <2>1. \A l : IsIc(Ins("ic ivau", l)) /\ IsIc(Ins("ic iallu", None)) BY DEF Ins, IsIc
  <2> QED BY <2>1 DEF Plain
<1> QED BY <1>1, <1>2, <1>3, <1>4 DEF Effect

\* A step that keeps what is pending may be taken for one of a dmb.
LEMMA NothingLeaves ==
  ASSUME IInv, pending' = pending
  PROVE  Leaves(dmb) /\ Effect(dmb)
<1>1. Awaited(pending) /\ Fenced(pending) /\ Ascending(pending) BY DEF IInv, Ordering, Sweeping
<1>2. Leaves(dmb) BY <1>1, PlainKinds DEF Leaves
<1> QED BY <1>2, PlainKinds, PlainEffect

\* What everybody else does while the processor executes nothing.
LEMMA Meanwhile ==
  ASSUME IInv, Typed', Copies', Places', Calm, UNCHANGED <<booted, op, program, queue>>
  PROVE  IInv'
<1>1. pending' = pending BY DEF pending
<1>2. Leaves(dmb) /\ Effect(dmb) BY <1>1, NothingLeaves
<1>3. Sweeping' /\ Neighbours' /\ Cleaning' /\ Delivered' /\ Fetching' BY <1>2, Progress
<1>4. Ordering'
  <2>1. Awaited(pending') /\ Fenced(pending') BY <1>2 DEF Leaves
  <2>2. \A k \in 1 .. Len(queue') : IsDc(queue'[k]) BY DEF IInv, Ordering
  <2> QED BY <2>1, <2>2 DEF Ordering
<1> QED BY <1>3, <1>4 DEF IInv

\* A store of the CPU, between operations.
LEMMA CpuKeeps ==
  ASSUME IInv, NEW b \in Bytes \ Dma, CpuWrite(b)
  PROVE  IInv'
<1>1. Typed /\ Copies /\ Places BY DEF IInv
<1>2. Typed' /\ Copies' /\ Places' BY <1>1, CpuStep
<1>3. op = None /\ op' = None /\ booted' = booted /\ program' = program /\ queue' = queue
  BY DEF CpuWrite
<1>4. pending' = pending BY <1>3 DEF pending
<1>5. Ordering' BY <1>3, <1>4 DEF IInv, Ordering
<1>6. Sweeping' BY <1>3, <1>4 DEF IInv, Sweeping
<1>7. Neighbours' /\ Cleaning' /\ Delivered' /\ Fetching'
  BY <1>3 DEF Neighbours, Cleaning, Delivered, Fetching
<1> QED BY <1>2, <1>5, <1>6, <1>7 DEF IInv

\* An eviction is calm.
LEMMA EvictStep ==
  ASSUME Typed, Copies, Places, NEW c \in Lns, Evict(c)
  PROVE  Typed' /\ Copies' /\ Places' /\ Calm
<1>1. CleanInvalidate(c) /\ UNCHANGED <<icache, booted, op, program, queue>> BY DEF Evict
<1>2. Touched(c) /\ Written(c) BY <1>1, CleanInvalidateStep
<1>3. Copies' /\ Places' /\ Calm BY <1>1, <1>2, TouchedStep
<1>4. Typed' BY <1>1, <1>2 DEF Typed, TypeOK, Touched, Lns
<1> QED BY <1>3, <1>4

------------------------------------------------------------------------------
(* Steps of the processor.                                                 *)

\* An operation on the data cache is queued.
LEMMA IssueDcKeeps ==
  ASSUME IInv, IssueDc
  PROVE  IInv'
<1>1. /\ program # <<>> /\ IsDc(Head(program))
      /\ queue' = Append(queue, Head(program)) /\ program' = Tail(program)
      /\ UNCHANGED <<memory, dcache, icache, booted, op>>
  BY DEF IssueDc, Next1, IsDc
<1>2. program \in Seq(Instruction) /\ queue \in Seq(Instruction)
      /\ (op = None => program = <<>> /\ queue = <<>>)
  BY DEF IInv, Typed, TypeOK
<1>3. /\ Append(queue, Head(program)) \o Tail(program) = queue \o program
      /\ Append(queue, Head(program)) \in Seq(Instruction) /\ Tail(program) \in Seq(Instruction)
      /\ Len(Append(queue, Head(program))) = Len(queue) + 1
      /\ \A i \in 1 .. Len(queue) : Append(queue, Head(program))[i] = queue[i]
      /\ Append(queue, Head(program))[Len(queue) + 1] = Head(program)
  BY <1>1, <1>2, Issued
<1>4. pending' = pending BY <1>1, <1>3 DEF pending
<1>5. Leaves(dmb) /\ Effect(dmb) BY <1>4, NothingLeaves
<1>6. Typed' BY <1>1, <1>2, <1>3 DEF IInv, Typed, TypeOK
<1>7. Copies' /\ Places' BY <1>1 DEF IInv, Copies, Places, Owned
<1>8. Calm BY <1>1 DEF Calm, Dirty, Fetched, View, Owned
<1>9. Sweeping' /\ Neighbours' /\ Cleaning' /\ Delivered' /\ Fetching'
  BY <1>1, <1>5, <1>7, <1>8, Progress
<1>10. Ordering'
  <2>1. Awaited(pending') /\ Fenced(pending') BY <1>5 DEF Leaves
  <2>2. ASSUME NEW k \in 1 .. Len(queue') PROVE IsDc(queue'[k])
    <3>1. Len(queue) \in Nat /\ k \in 1 .. Len(queue) + 1 BY <1>1, <1>2, <1>3
    <3>2. CASE k = Len(queue) + 1 BY <1>1, <1>3, <3>2
    <3>3. CASE k # Len(queue) + 1
      <4>1. k \in 1 .. Len(queue) BY <3>1, <3>3
      <4>2. queue'[k] = queue[k] BY <1>1, <1>3, <4>1
      <4> QED BY <4>1, <4>2 DEF IInv, Ordering
    <3> QED BY <3>2, <3>3
  <2> QED BY <2>1, <2>2 DEF Ordering
<1> QED BY <1>6, <1>7, <1>9, <1>10 DEF IInv

\* An operation on one line has its effect.
LEMMA LineEffect ==
  ASSUME NEW c \in Lns, NEW n \in {"dc cvac", "dc cvau", "dc ivac", "dc civac"}, NEW x, x = Ins(n, c),
         n # "dc ivac" => ~ Dirty(c)',
         n \in {"dc ivac", "dc civac"} =>
           \A a \in Dma : LINE_INDEX(a) = c => (memory[a] = 1 /\ ~ Dirty(c) => View(a)' = 1)
  PROVE  Effect(x)
<1>1. x[1] = n /\ x[2] = c BY InsFields
<1>2. ~ IsSw(x) BY <1>1 DEF IsSw
<1>3. \A l : Cleans(x, l) => l = c /\ n # "dc ivac" BY InsSame DEF Cleans
<1>4. \A l : Drops(x, l) => l = c /\ n \in {"dc ivac", "dc civac"} BY InsSame DEF Drops
<1>5. \A l : x # Ins("ic ivau", l) /\ x # Ins("ic iallu", None) BY InsSame
<1> QED BY <1>2, <1>3, <1>4, <1>5 DEF Effect

\* The effect of the operation at the head of the queue, whichever it is.
LEMMA CompleteEffect ==
  ASSUME Typed, Copies, Places, CompleteDc, NEW x \in Instruction, x = Head(queue),
         IsSw(x) => ~ booted
  PROVE  /\ Copies' /\ Places' /\ Calm /\ Effect(x)
         /\ memory' \in [Bytes -> {0, 1}] /\ DOMAIN dcache' = Lns
         /\ \A l \in Lns : dcache'[l] \in Cached(l) \cup {None}
<1> DEFINE name == x[1]
           arg == x[2]
           Hit == {l \in Lns : dcache[l] # None /\ dcache[l].slot = Decode(arg)}
           Types == /\ memory' \in [Bytes -> {0, 1}] /\ DOMAIN dcache' = Lns
                    /\ \A l \in Lns : dcache'[l] \in Cached(l) \cup {None}
<1>1. UNCHANGED <<icache, booted, op>> BY DEF CompleteDc
<1>2. /\ x = Ins(name, arg)
      /\ name \in {"dc cvac", "dc cvau", "dc ivac", "dc civac", "ic ivau"} => arg \in Lns
  BY InstructionForm
<1>3. \/ name \in {"dc cvac", "dc cvau"} /\ Clean(arg)
      \/ name = "dc ivac" /\ Invalidate(arg)
      \/ name = "dc civac" /\ CleanInvalidate(arg)
      \/ name = "dc cisw" /\ Hit = {} /\ UNCHANGED <<memory, dcache>>
      \/ name = "dc cisw" /\ \E l \in Hit : CleanInvalidate(l)
  BY DEF CompleteDc, Lns
<1> HIDE DEF name, arg
<1>4. \A c \in Lns : Touched(c) => Types /\ ~ Dirty(c)' BY DEF Touched, Dirty
<1>5. CASE name \in {"dc cvac", "dc cvau"} /\ Clean(arg)
  <2>1. arg \in Lns /\ Touched(arg) /\ Written(arg) BY <1>2, <1>5, CleanStep
  <2>2. Copies' /\ Places' /\ Calm BY <1>1, <2>1, TouchedStep
  <2>3. Types /\ ~ Dirty(arg)' BY <1>4, <2>1
  <2>4. Effect(x) BY <1>2, <1>5, <2>1, <2>3, LineEffect
  <2> QED BY <2>2, <2>3, <2>4
<1>6. CASE name = "dc ivac" /\ Invalidate(arg)
  <2>1. arg \in Lns /\ Touched(arg) /\ memory' = memory /\ dcache'[arg] = None
    BY <1>2, <1>6, InvalidateStep
  <2>2. Copies' /\ Places' /\ Calm BY <1>1, <2>1, TouchedStep
  <2>3. Types BY <1>4, <2>1
  <2>4. \A a \in Dma : LINE_INDEX(a) = arg => (memory[a] = 1 /\ ~ Dirty(arg) => View(a)' = 1)
    BY <2>1 DEF View
  <2>5. Effect(x) BY <1>2, <1>6, <2>1, <2>4, LineEffect
  <2> QED BY <2>2, <2>3, <2>5
<1>7. CASE name = "dc civac" /\ CleanInvalidate(arg)
  <2>1. arg \in Lns /\ Touched(arg) /\ Written(arg) /\ dcache'[arg] = None
    BY <1>2, <1>7, CleanInvalidateStep
  <2>2. Copies' /\ Places' /\ Calm BY <1>1, <2>1, TouchedStep
  <2>3. Types /\ ~ Dirty(arg)' BY <1>4, <2>1
  <2>4. \A a \in Dma : LINE_INDEX(a) = arg => (memory[a] = 1 /\ ~ Dirty(arg) => View(a)' = 1)
    BY <2>1, DmaByte DEF View, Written
  <2>5. Effect(x) BY <1>2, <1>7, <2>1, <2>3, <2>4, LineEffect
  <2> QED BY <2>2, <2>3, <2>5
<1>8. ASSUME name = "dc cisw", \A l \in Lns : Dirty(l)' => dcache'[l].slot # Decode(arg)
      PROVE  Effect(x)
  <2>1. \A l : ~ Cleans(x, l) /\ ~ Drops(x, l) /\ x # Ins("ic ivau", l) /\ x # Ins("ic iallu", None)
    <3>1. ASSUME NEW n, NEW l, x = Ins(n, l) PROVE n = "dc cisw" BY <1>2, <1>8, <3>1, InsSame
    <3>2. \A l : ~ Cleans(x, l) /\ ~ Drops(x, l) BY <3>1 DEF Cleans, Drops
    <3>3. \A l : x # Ins("ic ivau", l) /\ x # Ins("ic iallu", None) BY <3>1
    <3> QED BY <3>2, <3>3
  <2> QED BY <1>8, <2>1 DEF Effect, arg
<1>9. CASE name = "dc cisw" /\ Hit = {} /\ UNCHANGED <<memory, dcache>>
  <2>1. Copies' /\ Places' BY <1>1, <1>9 DEF Copies, Places, Owned
  <2>2. Calm BY <1>1, <1>9 DEF Calm, Dirty, View, Fetched, Owned
  <2>3. Types BY <1>9 DEF Typed, TypeOK, Lns
  <2>4. \A l \in Lns : Dirty(l)' => dcache'[l].slot # Decode(arg) BY <1>9 DEF Dirty
  <2> QED BY <1>8, <1>9, <2>1, <2>2, <2>3, <2>4
<1>10. CASE name = "dc cisw" /\ \E l \in Hit : CleanInvalidate(l)
  <2>1. PICK c \in Hit : CleanInvalidate(c) BY <1>10
  <2>2. c \in Lns /\ Touched(c) /\ Written(c) BY <2>1, CleanInvalidateStep
  <2>3. Copies' /\ Places' /\ Calm BY <1>1, <2>2, TouchedStep
  <2>4. Types /\ ~ Dirty(c)' BY <1>4, <2>2
  <2>5. ~ booted BY <1>10 DEF IsSw, name
  <2>6. ASSUME NEW l \in Lns, Dirty(l)' PROVE dcache'[l].slot # Decode(arg)
    <3>1. l # c BY <2>4, <2>6
    <3>2. dcache'[l] = dcache[l] /\ dcache[l] # None BY <2>2, <2>6, <3>1 DEF Touched, Dirty
    <3>3. dcache[c] # None /\ dcache[c].slot = Decode(arg) BY <2>1
    <3> QED BY <2>2, <2>5, <3>1, <3>2, <3>3 DEF Places
  <2> QED BY <1>8, <1>10, <2>3, <2>4, <2>6
<1> QED BY <1>3, <1>5, <1>6, <1>7, <1>9, <1>10

\* An operation on the data cache takes effect.
LEMMA CompleteDcKeeps ==
  ASSUME IInv, CompleteDc
  PROVE  IInv'
<1> DEFINE x == Head(queue)
<1>1. queue # <<>> /\ queue' = Tail(queue) /\ UNCHANGED <<icache, booted, op, program>>
  BY DEF CompleteDc
<1>2. Typed /\ Copies /\ Places /\ Ordering /\ Sweeping BY DEF IInv
<1>3. program \in Seq(Instruction) /\ queue \in Seq(Instruction)
      /\ (op = None => program = <<>> /\ queue = <<>>)
  BY <1>2 DEF Typed, TypeOK
<1>4. /\ Without(pending', pending, 1) /\ pending[1] = x /\ x \in Instruction
      /\ Tail(queue) \in Seq(Instruction) /\ x = queue[1] /\ Len(queue) >= 1
      /\ \A i \in 1 .. Len(Tail(queue)) : Tail(queue)[i] = queue[i + 1] /\ i + 1 \in 1 .. Len(queue)
  BY <1>1, <1>3, FirstQueued DEF pending
<1> HIDE DEF x
<1>5. x \in Elems(pending) BY <1>4 DEF Elems, Without
<1>6. IsSw(x) => ~ booted BY <1>2, <1>5 DEF Sweeping
<1>7. /\ Copies' /\ Places' /\ Calm /\ Effect(x)
      /\ memory' \in [Bytes -> {0, 1}] /\ DOMAIN dcache' = Lns
      /\ \A l \in Lns : dcache'[l] \in Cached(l) \cup {None}
  BY <1>2, <1>4, <1>6, CompleteEffect DEF x
<1>8. Typed' BY <1>1, <1>2, <1>3, <1>4, <1>7 DEF Typed, TypeOK, Lns
<1>9. Leaves(x) BY <1>2, <1>4, LeavesWithout DEF Sweeping
<1>10. Sweeping' /\ Neighbours' /\ Cleaning' /\ Delivered' /\ Fetching'
  BY <1>1, <1>7, <1>9, Progress
<1>11. Ordering'
  <2>1. Awaited(pending') /\ Fenced(pending') BY <1>9 DEF Leaves
  <2>2. \A k \in 1 .. Len(queue') : IsDc(queue'[k]) BY <1>1, <1>2, <1>4 DEF Ordering
  <2> QED BY <2>1, <2>2 DEF Ordering
<1> QED BY <1>7, <1>8, <1>10, <1>11 DEF IInv

\* A barrier or an operation on the instruction cache leaves; for the latter no
\* operation on the data cache is left.
LEMMA HeadLeaves ==
  ASSUME IInv, program # <<>>, program' = Tail(program), queue' = queue, NEW x, x = Head(program),
         ~ IsDc(x), x = dsb => queue = <<>>
  PROVE  /\ Leaves(x) /\ x \in Instruction /\ program' \in Seq(Instruction)
         /\ op # None /\ Ordering'
         /\ IsIc(x) => \A y \in Elems(pending) : ~ IsDc(y)
<1> DEFINE k == Len(queue) + 1
<1>1. program \in Seq(Instruction) /\ queue \in Seq(Instruction) /\ op # None
  BY DEF IInv, Typed, TypeOK
<1>2. /\ Without(pending', pending, k) /\ pending[k] = x /\ x \in Instruction
      /\ Tail(program) \in Seq(Instruction) /\ Len(queue) \in Nat
      /\ \A i \in 1 .. Len(queue) : pending[i] = queue[i]
  BY <1>1, FirstIssued DEF pending
<1>3. Ordering /\ Ascending(pending) BY DEF IInv, Sweeping
<1>4. x = dsb => k = 1 OBVIOUS
<1>5. ~ IsSw(x) BY SwIsDc
<1>6. Leaves(x) BY <1>2, <1>3, <1>4, <1>5, LeavesWithout
<1>7. Ordering'
  <2>1. Awaited(pending') /\ Fenced(pending') BY <1>6 DEF Leaves
  <2> QED BY <1>3, <2>1 DEF Ordering
<1>8. ASSUME IsIc(x), NEW y \in Elems(pending) PROVE ~ IsDc(y)
  <2>1. SUFFICES ASSUME IsDc(y) PROVE FALSE OBVIOUS
  <2>2. PICK j \in 1 .. Len(pending) : y = pending[j] BY DEF Elems
  <2>3. k \in 1 .. Len(pending) /\ IsIc(pending[k]) /\ IsDc(pending[j]) BY <1>2, <1>8, <2>1, <2>2 DEF Without
  <2>4. PICK d \in j + 1 .. k - 1 : pending[d] = dsb BY <1>3, <2>3 DEF Ordering, Fenced
  <2>5. d \in 1 .. Len(queue) BY <1>2
  <2>6. queue[d] = dsb /\ IsDc(queue[d]) BY <1>2, <1>3, <2>4, <2>5 DEF Ordering
  <2> QED BY <2>6, BarrierKind
<1> QED BY <1>1, <1>2, <1>6, <1>7, <1>8

\* A barrier.
LEMMA BarrierKeeps ==
  ASSUME IInv, Barrier
  PROVE  IInv'
<1> DEFINE x == Head(program)
<1>1. /\ program # <<>> /\ x[1] \in {"dmb", "dsb", "isb"} /\ (x[1] = "dsb" => queue = <<>>)
      /\ program' = Tail(program) /\ UNCHANGED <<memory, dcache, icache, booted, op, queue>>
  BY DEF Barrier, Next1
<1>2. Plain(x) BY <1>1 DEF Plain, IsDc, IsIc
<1>3. x = dsb => queue = <<>> BY <1>1 DEF dsb
<1>4. Leaves(x) /\ program' \in Seq(Instruction) /\ op # None /\ Ordering'
  <2>1. ~ IsDc(x) BY <1>2 DEF Plain
  <2> HIDE DEF x
  <2> QED BY <1>1, <1>3, <2>1, HeadLeaves DEF x
<1>5. Effect(x) BY <1>2, PlainEffect
<1> HIDE DEF x
<1>6. Typed' BY <1>1, <1>4 DEF IInv, Typed, TypeOK
<1>7. Copies' /\ Places' BY <1>1 DEF IInv, Copies, Places, Owned
<1>8. Calm BY <1>1 DEF Calm, Dirty, Fetched, View, Owned
<1>9. Sweeping' /\ Neighbours' /\ Cleaning' /\ Delivered' /\ Fetching'
  BY <1>1, <1>4, <1>5, <1>7, <1>8, Progress
<1> QED BY <1>4, <1>6, <1>7, <1>9 DEF IInv

\* An operation on the instruction cache.
LEMMA IcKeeps ==
  ASSUME IInv, Ic
  PROVE  IInv'
<1> DEFINE x == Head(program)
<1>1. /\ program # <<>> /\ x[1] \in {"ic ivau", "ic iallu"}
      /\ icache' = IF x[1] = "ic iallu" THEN Absent ELSE [icache EXCEPT ![x[2]] = None]
      /\ program' = Tail(program) /\ UNCHANGED <<memory, dcache, booted, op, queue>>
  BY DEF Ic, Next1
<1>2. IsIc(x) /\ ~ IsDc(x) /\ x # dsb
  <2>1. IsIc(x) /\ ~ IsDc(x) BY <1>1 DEF IsDc, IsIc
  <2> HIDE DEF x
  <2> QED BY <2>1, BarrierKind
<1>4. /\ Leaves(x) /\ x \in Instruction /\ program' \in Seq(Instruction) /\ op # None /\ Ordering'
      /\ \A y \in Elems(pending) : ~ IsDc(y)
  <2> HIDE DEF x
  <2> QED BY <1>1, <1>2, HeadLeaves DEF x
<1> HIDE DEF x
<1>5. x = Ins(x[1], x[2]) /\ (x[1] = "ic ivau" => x[2] \in Lns) BY <1>4, InstructionForm
<1>6. DOMAIN icache = Lns /\ \A l \in Lns : icache[l] \in Code(l) \cup {None}
  BY DEF IInv, Typed, TypeOK, Lns
<1>7. /\ DOMAIN icache' = Lns
      /\ \A l \in Lns : icache'[l] = None \/ icache'[l] = icache[l]
      /\ \A l \in Lns : x[1] = "ic iallu" \/ x[2] = l => icache'[l] = None
  <2>1. CASE x[1] = "ic iallu" BY <1>1, <2>1 DEF Absent, Lns
  <2>2. CASE x[1] = "ic ivau"
    <3>1. icache' = [icache EXCEPT ![x[2]] = None] /\ x[2] \in Lns BY <1>1, <1>5, <2>2
    <3> QED BY <1>6, <2>2, <3>1
  <2> QED BY <1>1, <2>1, <2>2
<1>8. Effect(x)
  <2>1. ~ IsSw(x) BY <1>2, SwIsDc
  <2>2. \A l : ~ Cleans(x, l) BY <1>2, CleansIsDc
  <2>3. \A l : ~ Drops(x, l)
    <3>1. \A l : IsDc(Ins("dc ivac", l)) /\ IsDc(Ins("dc civac", l)) BY DEF Ins, IsDc
    <3> QED BY <1>2, <3>1 DEF Drops
  <2>4. ASSUME NEW l \in Lns, x \in {Ins("ic ivau", l), Ins("ic iallu", None)}
        PROVE  Fetched(l)'
    <3>1. x[1] = "ic iallu" \/ x[2] = l
      <4>1. CASE x = Ins("ic ivau", l) BY <4>1, InsFields
      <4>2. CASE x = Ins("ic iallu", None) BY <4>2, InsFields
      <4> QED BY <2>4, <4>1, <4>2
    <3>2. icache'[l] = None BY <1>7, <3>1
    <3> QED BY <3>2 DEF Fetched
  <2> QED BY <1>4, <2>1, <2>2, <2>3, <2>4 DEF Effect
<1>9. Typed'
  <2>1. \A l \in Lns : icache'[l] \in Code(l) \cup {None} BY <1>6, <1>7
  <2> QED BY <1>1, <1>4, <1>7, <2>1 DEF IInv, Typed, TypeOK, Lns
<1>10. Copies' /\ Places' BY <1>1 DEF IInv, Copies, Places, Owned
<1>11. Calm
  <2>1. \A l \in Lns : Fetched(l) => Fetched(l)' BY <1>1, <1>7 DEF Fetched, Owned
  <2> QED BY <1>1, <2>1 DEF Calm, Dirty, View, Owned
<1>12. Sweeping' /\ Neighbours' /\ Cleaning' /\ Delivered' /\ Fetching'
  BY <1>1, <1>4, <1>8, <1>10, <1>11, Progress
<1> QED BY <1>4, <1>9, <1>10, <1>12 DEF IInv

------------------------------------------------------------------------------
(* The start and the end of an operation.                                  *)

\* The boot loader's dirty lines are no operation's yet.
LEMMA InitEstablishes == Init => IInv
<1> SUFFICES ASSUME Init PROVE IInv OBVIOUS
<1>1. PICK where \in [Lns -> Slots] :
        /\ \A l, m \in Lns : where[l] = where[m] => l = m
        /\ dcache = [line \in Lns |->
             [data |-> [a \in BytesOf(line) |-> IF a \in Dma THEN 0 ELSE 1],
              dirty |-> TRUE, slot |-> where[line]]]
  BY DEF Init, Lns
<1>2. /\ memory = [a \in Bytes |-> 0] /\ icache = Absent /\ booted = FALSE
      /\ op = None /\ program = <<>> /\ queue = <<>>
  BY DEF Init
<1>3. ASSUME NEW l \in Lns
      PROVE  dcache[l] \in Cached(l) /\ dcache[l] # None /\ dcache[l].slot = where[l] /\ dcache[l].dirty
  <2> DEFINE d == [a \in BytesOf(l) |-> IF a \in Dma THEN 0 ELSE 1]
             r == [data |-> d, dirty |-> TRUE, slot |-> where[l]]
  <2>1. dcache[l] = r BY <1>1
  <2>2. d \in [BytesOf(l) -> {0, 1}] OBVIOUS
  <2> HIDE DEF d
  <2>3. where[l] \in Slots \cup {None} BY <1>1
  <2>4. r \in Cached(l) /\ r # None BY <2>2, <2>3, CachedIntro
  <2> QED BY <2>1, <2>4
<1>4. Typed
  <2>1. DOMAIN dcache = Lns BY <1>1
  <2>2. DOMAIN icache = Lns /\ \A l \in Lns : icache[l] = None BY <1>2 DEF Absent, Lns
  <2>3. memory \in [Bytes -> {0, 1}] BY <1>2
  <2>4. program \in Seq(Instruction) /\ queue \in Seq(Instruction) BY <1>2
  <2> QED BY <1>2, <1>3, <2>1, <2>2, <2>3, <2>4 DEF Typed, TypeOK, Lns
<1>5. pending = <<>> /\ Elems(pending) = {} /\ Len(pending) = 0 BY <1>2 DEF pending, Elems
<1>6. Ordering BY <1>2, <1>5 DEF Ordering, Awaited, Fenced
<1>7. Copies BY <1>3 DEF Copies
<1>8. Places BY <1>1, <1>2, <1>3 DEF Places
<1>9. Sweeping BY <1>2, <1>5 DEF Sweeping, Ascending
<1>10. Neighbours /\ Cleaning /\ Delivered /\ Fetching
  BY <1>2 DEF Neighbours, Cleaning, Delivered, Fetching
<1> QED BY <1>4, <1>6, <1>7, <1>8, <1>9, <1>10 DEF IInv

\* A program that invalidates nothing needs no cleaning before.
LEMMA NoIvacPrecedes ==
  ASSUME NEW s, \A x \in Elems(s) : ~ IsIvac(x), NEW l
  PROVE  Precedes(s, Ins("dc cvac", l), Ins("dc ivac", l))
<1>1. IsIvac(Ins("dc ivac", l)) BY Kinds
<1>2. Ins("dc ivac", l) \notin Elems(s) BY <1>1
<1> HIDE DEF Elems
<1>3. \A i \in 1 .. Len(s) : s[i] # Ins("dc ivac", l) BY <1>2 DEF Elems
<1> QED BY <1>3 DEF Precedes

\* The programs of the four labels, for every range.
LEMMA FlushProgram ==
  ASSUME NEW start \in Bytes, NEW end \in Bytes, start <= end, NEW label \in Labels
  PROVE  LET P == do_flush(label, start, end)
         IN  /\ Good(P)
             /\ label \in {"Clean_Data", "CleanInvalidate_Data", "Unify_Instruction"} =>
                  \A l \in Over(start, end) : \E x \in Elems(P) : Cleans(x, l)
             /\ label \in {"Invalidate_Data", "CleanInvalidate_Data"} =>
                  \A l \in Over(start, end) : \E x \in Elems(P) : Drops(x, l)
             /\ label = "Unify_Instruction" =>
                  \A l \in Over(start, end) : Ins("ic ivau", l) \in Elems(P)
             /\ \A l \in Lns : \A a \in BytesOf(l) :
                  ~ (label = "Invalidate_Data" /\ a \in start .. end) =>
                    Precedes(P, Ins("dc cvac", l), Ins("dc ivac", l))
<1> HIDE DEF do_flush
<1>1. CASE label = "Clean_Data" BY <1>1, CleanDataProgram, NoIvacPrecedes
<1>2. CASE label = "Invalidate_Data" BY <1>2, InvalidateProgram
<1>3. CASE label = "CleanInvalidate_Data" BY <1>3, CleanInvalidateProgram, NoIvacPrecedes
<1>4. CASE label = "Unify_Instruction" BY <1>4, UnifyProgram, NoIvacPrecedes
<1> QED BY <1>1, <1>2, <1>3, <1>4 DEF Labels

\* An operation starts with nothing pending but its own program.
LEMMA StartKeeps ==
  ASSUME IInv, op = None, op' \in Operation, program' \in Seq(Instruction),
         UNCHANGED <<memory, dcache, icache, booted, queue>>,
         op'.label = "boot" <=> ~ booted
  PROVE  /\ pending' = program' /\ Typed' /\ Copies' /\ Places' /\ op' # None
         /\ queue' = <<>> /\ \A l \in Lns : Dirty(l)' = Dirty(l)
<1>1. op' # None BY ArmCacheAssumption
<1>2. queue = <<>> BY DEF IInv, Typed, TypeOK
<1>3. pending' = program' BY <1>2 DEF pending
<1>4. Typed' BY <1>1 DEF IInv, Typed, TypeOK
<1>5. Copies' BY DEF IInv, Copies, Owned
<1>6. Places' BY DEF IInv, Places
<1> QED BY <1>1, <1>2, <1>3, <1>4, <1>5, <1>6 DEF Dirty

\* The boot code starts its sweep.
LEMMA ActivateKeeps ==
  ASSUME IInv, ActivateKernel
  PROVE  IInv'
<1> DEFINE P == clean_invalidate_l1_caches
<1>1. /\ ~ booted /\ op = None /\ program' = P
      /\ op' = [label |-> "boot", range |-> Bytes, delivered |-> {}]
      /\ UNCHANGED <<memory, dcache, icache, booted, queue>>
  BY DEF ActivateKernel
<1>2. op' \in Operation /\ op'.label = "boot" /\ op'.delivered = {} BY <1>1 DEF Operation
<1>3. /\ P \in Seq(Instruction) /\ Awaited(P) /\ Fenced(P) /\ Ascending(P)
      /\ \A x \in Elems(P) : ~ IsIvac(x)
      /\ \A t \in Slots : \E x \in Elems(P) : IsSw(x) /\ Decode(x[2]) = t
      /\ Ins("ic iallu", None) \in Elems(P)
  BY BootProgram
<1> HIDE DEF P
<1>4. /\ pending' = P /\ Typed' /\ Copies' /\ Places' /\ op' # None
      /\ queue' = <<>> /\ \A l \in Lns : Dirty(l)' = Dirty(l)
  BY <1>1, <1>2, <1>3, StartKeeps
<1>5. Ordering'
  <2>1. \A k \in 1 .. Len(queue') : IsDc(queue'[k]) BY <1>4
  <2>2. Awaited(pending') /\ Fenced(pending') BY <1>3, <1>4
  <2> QED BY <2>1, <2>2 DEF Ordering
<1>6. Sweeping' BY <1>1, <1>3, <1>4 DEF Sweeping
<1>7. Neighbours' BY <1>3, <1>4, NoIvacPrecedes DEF Neighbours
<1>8. Cleaning' BY <1>2 DEF Cleaning
<1>9. Delivered' BY <1>2 DEF Delivered
<1>10. Fetching' BY <1>3, <1>4 DEF Fetching
<1> QED BY <1>4, <1>5, <1>6, <1>7, <1>8, <1>9, <1>10 DEF IInv

\* do_flush starts, with any label and range.
LEMMA DoFlushKeeps ==
  ASSUME IInv, NEW label \in Labels, NEW start \in Bytes, NEW end \in Bytes, start <= end,
         DoFlush(label, start, end)
  PROVE  IInv'
<1> DEFINE P == do_flush(label, start, end)
           D == {a \in Dma \cap start .. end : memory[a] = 1 /\ ~ Dirty(LINE_INDEX(a))}
<1>1. /\ booted /\ op = None /\ program' = P
      /\ op' = [label |-> label, range |-> start .. end, delivered |-> D]
      /\ UNCHANGED <<memory, dcache, icache, booted, queue>>
  BY DEF DoFlush
<1>2. start .. end \subseteq Bytes BY ArmCacheAssumption DEF Bytes
<1>3. op'.label = label /\ op'.range = start .. end /\ op'.delivered = D BY <1>1
<1>4. op' \in Operation BY <1>1, <1>2 DEF Operation
<1>5. label # "boot" BY DEF Labels
<1>6. Good(P) /\ \A l \in Lns : \A a \in BytesOf(l) :
        ~ (label = "Invalidate_Data" /\ a \in start .. end) =>
          Precedes(P, Ins("dc cvac", l), Ins("dc ivac", l))
  BY FlushProgram
<1>7. label \in {"Clean_Data", "CleanInvalidate_Data", "Unify_Instruction"} =>
        \A l \in Over(start, end) : \E x \in Elems(P) : Cleans(x, l)
  BY FlushProgram
<1>8. label \in {"Invalidate_Data", "CleanInvalidate_Data"} =>
        \A l \in Over(start, end) : \E x \in Elems(P) : Drops(x, l)
  BY FlushProgram
<1>9. label = "Unify_Instruction" => \A l \in Over(start, end) : Ins("ic ivau", l) \in Elems(P)
  BY FlushProgram
<1> HIDE DEF P
<1>10. /\ P \in Seq(Instruction) /\ Awaited(P) /\ Fenced(P) /\ \A x \in Elems(P) : ~ IsSw(x)
  BY <1>6 DEF Good
<1>11. /\ pending' = P /\ Typed' /\ Copies' /\ Places' /\ op' # None
       /\ queue' = <<>> /\ \A l \in Lns : Dirty(l)' = Dirty(l)
  <2> HIDE DEF D
  <2> QED BY <1>1, <1>3, <1>4, <1>5, <1>10, StartKeeps
<1>12. \A a \in start .. end : LINE_INDEX(a) \in Over(start, end) /\ LINE_INDEX(a) \in Lns
  <2>1. ASSUME NEW a \in start .. end
        PROVE  LINE_INDEX(a) \in Over(start, end) /\ LINE_INDEX(a) \in Lns
    <3>1. a \in Bytes /\ start <= a /\ a <= end BY <1>2 DEF Bytes
    <3>2. LINE_INDEX(start) <= LINE_INDEX(a) /\ LINE_INDEX(a) <= LINE_INDEX(end)
      BY <3>1, LinesInOrder
    <3>3. LINE_INDEX(a) \in Lns BY <3>1, LineOfByte
    <3> QED BY <3>2, <3>3, ArmCacheAssumption DEF Over, Lns
  <2> QED BY <2>1
<1>13. Ordering'
  <2>1. \A k \in 1 .. Len(queue') : IsDc(queue'[k]) BY <1>11
  <2>2. Awaited(pending') /\ Fenced(pending')
    <3>1. Fenced(P) BY <1>6 DEF Good
    <3> QED BY <1>10, <1>11, <3>1
  <2> QED BY <2>1, <2>2 DEF Ordering
<1>14. Sweeping'
  <2>1. Ascending(P)
    <3>1. \A i \in 1 .. Len(P) : ~ IsSw(P[i]) BY <1>10 DEF Elems
    <3> QED BY <3>1 DEF Ascending
  <2> QED BY <1>3, <1>5, <1>10, <1>11, <2>1 DEF Sweeping
<1>15. Neighbours' BY <1>3, <1>6, <1>11 DEF Neighbours, Given, Owned
<1>16. Cleaning' BY <1>3, <1>7, <1>11, <1>12 DEF Cleaning
<1>17. Delivered'
  <2>1. ASSUME NEW a \in D
        PROVE  /\ memory'[a] = 1 /\ ~ Dirty(LINE_INDEX(a))'
               /\ label \in {"Invalidate_Data", "CleanInvalidate_Data"} =>
                    \E y \in Elems(P) : Drops(y, LINE_INDEX(a))
    BY <1>1, <1>8, <1>11, <1>12
  <2> HIDE DEF D
  <2> QED BY <1>3, <1>11, <2>1 DEF Delivered
<1>18. Fetching' BY <1>3, <1>5, <1>9, <1>11, <1>12 DEF Fetching
<1> QED BY <1>11, <1>13, <1>14, <1>15, <1>16, <1>17, <1>18 DEF IInv

\* When an operation returns, all of it has taken effect.
LEMMA Drained ==
  ASSUME IInv, program = <<>>
  PROVE  queue = <<>> /\ pending = <<>> /\ Elems(pending) = {}
<1>1. queue \in Seq(Instruction) /\ Ordering BY DEF IInv, Typed, TypeOK
<1>2. pending = queue BY <1>1 DEF pending
<1>3. Len(queue) = 0
  <2>1. SUFFICES ASSUME Len(queue) # 0 PROVE FALSE OBVIOUS
  <2>2. 1 \in 1 .. Len(queue) BY <1>1, <2>1
  <2>3. IsDc(queue[1]) BY <1>1, <2>2 DEF Ordering
  <2>4. PICK j \in 2 .. Len(queue) : queue[j] = dsb BY <1>1, <1>2, <2>2, <2>3 DEF Ordering, Awaited
  <2>5. j \in 1 .. Len(queue) BY <1>1
  <2> QED BY <1>1, <2>4, <2>5, BarrierKind DEF Ordering
<1>4. queue = <<>> BY <1>1, <1>3
<1> QED BY <1>2, <1>4 DEF Elems

\* An operation returns.
LEMMA ReturnKeeps ==
  ASSUME IInv, Return
  PROVE  IInv' /\ \A a \in Bytes : View(a)' = View(a)
<1>1. /\ op # None /\ program = <<>> /\ op' = None /\ booted' = TRUE
      /\ dcache' = [l \in Lns |-> IF dcache[l] = None THEN None ELSE [dcache[l] EXCEPT !.slot = None]]
      /\ UNCHANGED <<memory, icache, program, queue>>
  BY DEF Return, Lns
<1>2. queue = <<>> BY <1>1, Drained
<1>3. Typed /\ Copies BY DEF IInv
<1>4. ASSUME NEW l \in Lns
      PROVE  /\ dcache'[l] \in Cached(l) \cup {None}
             /\ dcache'[l] = None <=> dcache[l] = None
             /\ dcache[l] # None => /\ dcache'[l].data = dcache[l].data
                                    /\ dcache'[l].dirty = dcache[l].dirty
  <2>1. CASE dcache[l] = None BY <1>1, <2>1
  <2>2. CASE dcache[l] # None
    <3> DEFINE r == [data |-> dcache[l].data, dirty |-> dcache[l].dirty, slot |-> None]
    <3>1. /\ dcache[l].data \in [BytesOf(l) -> {0, 1}] /\ dcache[l].dirty \in BOOLEAN
          /\ dcache[l] = [data |-> dcache[l].data, dirty |-> dcache[l].dirty, slot |-> dcache[l].slot]
      BY <1>3, <2>2, CachedLine
    <3>2. None \in Slots \cup {None} OBVIOUS
    <3>3. r \in Cached(l) /\ r # None BY <3>1, <3>2, CachedIntro
    <3>4. dcache'[l] = r BY <1>1, <2>2, <3>1
    <3> QED BY <2>2, <3>3, <3>4
  <2> QED BY <2>1, <2>2
<1>5. Typed'
  <2>1. DOMAIN dcache' = Lns BY <1>1
  <2> QED BY <1>1, <1>2, <1>3, <1>4, <2>1 DEF Typed, TypeOK, Lns
<1>6. Copies' BY <1>1, <1>3, <1>4 DEF Copies, Owned
<1>7. Places' BY <1>1 DEF Places
<1>8. pending' = <<>> /\ Elems(pending') = {} /\ Len(pending') = 0 BY <1>1, <1>2 DEF pending, Elems
<1>9. Ordering' BY <1>1, <1>2, <1>8 DEF Ordering, Awaited, Fenced
<1>10. Sweeping' BY <1>1, <1>8 DEF Sweeping, Ascending
<1>11. Neighbours' /\ Cleaning' /\ Delivered' /\ Fetching'
  BY <1>1 DEF Neighbours, Cleaning, Delivered, Fetching
<1>12. ASSUME NEW a \in Bytes PROVE View(a)' = View(a)
  <2>1. LINE_INDEX(a) \in Lns BY LineOfByte
  <2> QED BY <1>1, <1>4, <2>1 DEF View
<1> QED BY <1>5, <1>6, <1>7, <1>9, <1>10, <1>11, <1>12 DEF IInv

------------------------------------------------------------------------------
(* The invariant.                                                          *)

\* The steps of everybody else, on any line.
Others(c) == Fill(c) \/ Evict(c) \/ Demote(c) \/ FillI(c)

\* A line is filled, evicted or demoted.
LEMMA OthersKeep ==
  ASSUME IInv, NEW c \in Lns, Others(c)
  PROVE  IInv'
<1>1. Typed /\ Copies /\ Places BY DEF IInv
<1>2. UNCHANGED <<booted, op, program, queue>> BY DEF Others, Fill, Evict, Demote, FillI
<1>3. CASE Fill(c)
  <2>1. Typed' /\ Copies' /\ Places' /\ Calm BY <1>1, <1>3, FillStep
  <2> QED BY <1>2, <2>1, Meanwhile
<1>4. CASE Evict(c)
  <2>1. Typed' /\ Copies' /\ Places' /\ Calm BY <1>1, <1>4, EvictStep
  <2> QED BY <1>2, <2>1, Meanwhile
<1>5. CASE Demote(c)
  <2>1. Typed' /\ Copies' /\ Places' /\ Calm BY <1>1, <1>5, DemoteStep
  <2> QED BY <1>2, <2>1, Meanwhile
<1>6. CASE FillI(c)
  <2>1. Typed' /\ Copies' /\ Places' /\ Calm BY <1>1, <1>6, FillIStep
  <2> QED BY <1>2, <2>1, Meanwhile
<1> QED BY <1>3, <1>4, <1>5, <1>6 DEF Others

\* A device writes.
LEMMA DeviceKeeps ==
  ASSUME IInv, NEW b \in Dma, DeviceWrite(b)
  PROVE  IInv'
<1>1. Typed /\ Copies /\ Places BY DEF IInv
<1>2. UNCHANGED <<booted, op, program, queue>> BY DEF DeviceWrite
<1>3. Typed' /\ Copies' /\ Places' /\ Calm BY <1>1, DeviceStep
<1> QED BY <1>2, <1>3, Meanwhile

\* Who takes a step.
LEMMA Steps ==
  ASSUME Next
  PROVE  \/ ActivateKernel
         \/ \E label \in Labels, start, end \in Bytes : start <= end /\ DoFlush(label, start, end)
         \/ IssueDc \/ CompleteDc \/ Barrier \/ Ic \/ Return
         \/ \E a \in Bytes \ Dma : CpuWrite(a)
         \/ \E a \in Dma : DeviceWrite(a)
         \/ \E c \in Lns : Others(c)
BY Zenon DEF Next, Execute, Lns, Others

\* Every step keeps the invariant.
LEMMA StepKeeps ==
  ASSUME IInv, [Next]_vars
  PROVE  IInv'
<1>1. CASE ActivateKernel BY <1>1, ActivateKeeps
<1>2. ASSUME NEW label \in Labels, NEW start \in Bytes, NEW end \in Bytes, start <= end,
             DoFlush(label, start, end)
      PROVE  IInv'
  BY <1>2, DoFlushKeeps
<1>3. CASE IssueDc BY <1>3, IssueDcKeeps
<1>4. CASE CompleteDc BY <1>4, CompleteDcKeeps
<1>5. CASE Barrier BY <1>5, BarrierKeeps
<1>6. CASE Ic BY <1>6, IcKeeps
<1>7. CASE Return BY <1>7, ReturnKeeps
<1>8. ASSUME NEW a \in Bytes \ Dma, CpuWrite(a) PROVE IInv' BY <1>8, CpuKeeps
<1>9. ASSUME NEW a \in Dma, DeviceWrite(a) PROVE IInv' BY <1>9, DeviceKeeps
<1>10. ASSUME NEW c \in Lns, Others(c) PROVE IInv' BY <1>10, OthersKeep
<1>11. CASE UNCHANGED vars
  <2>1. UNCHANGED <<memory, dcache, icache, booted, op, program, queue>> BY <1>11 DEF vars
  <2>2. Typed' /\ Copies' /\ Places' BY <2>1 DEF IInv, Typed, TypeOK, Copies, Places, Owned
  <2>3. Calm BY <2>1 DEF Calm, Dirty, View, Fetched, Owned
  <2> QED BY <2>1, <2>2, <2>3, Meanwhile
<1>12. CASE Next BY <1>1, <1>2, <1>3, <1>4, <1>5, <1>6, <1>7, <1>8, <1>9, <1>10, <1>12, Steps
<1> QED BY <1>11, <1>12

\* The invariant holds at every moment, for every memory, geometry of
\* the caches and range.
THEOREM Invariant == Spec => []IInv
BY InitEstablishes, StepKeeps, PTL DEF Spec

\* Every state is typed, and an operation that has returned has left
\* nothing behind: no instruction to issue and none that waits to take effect.
THEOREM TypeCorrect == Spec => []TypeOK
<1>1. IInv => TypeOK BY DEF IInv, Typed
<1> QED BY <1>1, Invariant, PTL

------------------------------------------------------------------------------
(* The four promises.                                                      *)

\* An operation on a line, or its eviction, is hidden from the CPU unless it drops
\* a dirty line.
LEMMA TouchedView ==
  ASSUME Typed, Copies, NEW c \in Lns, Touched(c), NEW a \in Bytes \ Dma,
         \/ Written(c)
         \/ LINE_INDEX(a) # c
         \/ memory' = memory /\ dcache'[c] = None /\ ~ Dirty(c)
  PROVE  View(a)' = View(a)
<1> DEFINE l == LINE_INDEX(a)
<1>1. l \in Lns /\ a \in Owned(l) BY LineOfByte DEF Owned
<1>2. CASE l # c BY <1>1, <1>2 DEF Touched, View
<1>3. CASE l = c
  <2>1. ~ Dirty(c) /\ dcache[c] # None => dcache[c].data[a] = memory[a]
    BY <1>1, <1>3 DEF Copies, Dirty
  <2>2. Dirty(c) => dcache[c] # None BY DEF Dirty
  <2>3. CASE dcache'[c] # None BY <1>3, <2>3 DEF Touched, View
  <2>4. CASE dcache'[c] = None
    <3>1. View(a)' = memory'[a] BY <1>3, <2>4 DEF View
    <3>2. View(a) = IF dcache[c] = None THEN memory[a] ELSE dcache[c].data[a] BY <1>3 DEF View
    <3>3. CASE Written(c) BY <1>3, <2>1, <2>2, <3>1, <3>2, <3>3 DEF Written
    <3>4. CASE memory' = memory /\ ~ Dirty(c) BY <2>1, <3>1, <3>2, <3>4
    <3> QED BY <1>3, <3>3, <3>4
  <2> QED BY <2>3, <2>4
<1> QED BY <1>2, <1>3

\* Nothing precedes the first element.
LEMMA NothingPrecedesFirst ==
  ASSUME NEW s, NEW x, NEW y, 1 \in 1 .. Len(s), s[1] = y
  PROVE  ~ Precedes(s, x, y)
<1>1. SUFFICES ASSUME \A i \in 1 .. Len(s) : s[i] = y => \E j \in 1 .. i - 1 : s[j] = x
               PROVE  FALSE
  BY Zenon DEF Precedes
<1>2. PICK j \in 1 .. 1 - 1 : s[j] = x BY <1>1, Zenon
<1>3. j \in 1 .. 0 BY <1>2
<1> QED BY <1>3

\* An operation that takes effect changes nothing that the CPU reads, but what it
\* was given: a dc ivac at the head has no dc cvac before it, so the line it drops
\* is clean or was given up.
LEMMA CompleteView ==
  ASSUME IInv, CompleteDc, NEW a \in Bytes \ Dma, ~ Given(a)
  PROVE  View(a)' = View(a)
<1> DEFINE x == Head(queue)
           l == LINE_INDEX(a)
           Hit == {c \in Lns : dcache[c] # None /\ dcache[c].slot = Decode(x[2])}
<1>1. queue # <<>> /\ queue' = Tail(queue) BY DEF CompleteDc
<1>2. Typed /\ Copies /\ Neighbours BY DEF IInv
<1>3. program \in Seq(Instruction) /\ queue \in Seq(Instruction) /\ op # None
  BY <1>1, <1>2 DEF Typed, TypeOK
<1>4. pending[1] = x /\ x \in Instruction /\ 1 \in 1 .. Len(pending)
  BY <1>1, <1>3, FirstQueued DEF pending, Without
<1>5. \/ x[1] \in {"dc cvac", "dc cvau"} /\ Clean(x[2])
      \/ x[1] = "dc ivac" /\ Invalidate(x[2])
      \/ x[1] = "dc civac" /\ CleanInvalidate(x[2])
      \/ x[1] = "dc cisw" /\ UNCHANGED <<memory, dcache>>
      \/ x[1] = "dc cisw" /\ \E c \in Hit : CleanInvalidate(c)
  BY DEF CompleteDc, Lns
<1> HIDE DEF x
<1>6. /\ x = Ins(x[1], x[2])
      /\ x[1] \in {"dc cvac", "dc cvau", "dc ivac", "dc civac", "ic ivau"} => x[2] \in Lns
  BY <1>4, InstructionForm
<1>7. l \in Lns /\ a \in Owned(l) BY LineOfByte DEF Owned
<1>8. CASE x[1] \in {"dc cvac", "dc cvau"} /\ Clean(x[2])
  BY <1>2, <1>6, <1>8, CleanStep, TouchedView
<1>9. CASE x[1] = "dc ivac" /\ Invalidate(x[2])
  <2>1. x[2] \in Lns /\ Touched(x[2]) /\ memory' = memory /\ dcache'[x[2]] = None
    BY <1>2, <1>6, <1>9, InvalidateStep
  <2>2. CASE l = x[2] /\ Dirty(l)
    <3>1. Precedes(pending, Ins("dc cvac", l), Ins("dc ivac", l))
      BY <1>2, <1>3, <1>7, <2>2 DEF Neighbours
    <3>2. pending[1] = Ins("dc ivac", l) BY <1>4, <1>6, <1>9, <2>2
    <3> QED BY <1>4, <3>1, <3>2, NothingPrecedesFirst
  <2> QED BY <1>2, <2>1, <2>2, TouchedView
<1>10. CASE x[1] = "dc civac" /\ CleanInvalidate(x[2])
  BY <1>2, <1>6, <1>10, CleanInvalidateStep, TouchedView
<1>11. CASE UNCHANGED <<memory, dcache>> BY <1>11 DEF View
<1>12. CASE \E c \in Hit : CleanInvalidate(c)
  BY <1>2, <1>12, CleanInvalidateStep, TouchedView
<1> QED BY <1>5, <1>8, <1>9, <1>10, <1>11, <1>12

\* Nor does a fill, an eviction or a demotion.
LEMMA OthersView ==
  ASSUME IInv, NEW c \in Lns, Others(c), NEW a \in Bytes \ Dma
  PROVE  View(a)' = View(a)
<1>1. Typed /\ Copies /\ Places BY DEF IInv
<1>2. CASE Fill(c) BY <1>1, <1>2, FillStep
<1>3. CASE Demote(c) BY <1>1, <1>3, DemoteStep
<1>4. CASE FillI(c) BY <1>1, <1>4, FillIStep
<1>5. CASE Evict(c)
  <2>1. Touched(c) /\ Written(c) BY <1>1, <1>5, CleanInvalidateStep DEF Evict
  <2> QED BY <1>1, <2>1, TouchedView
<1> QED BY <1>2, <1>3, <1>4, <1>5 DEF Others

\* Nor does any step while an operation is under way.
LEMMA ViewKept ==
  ASSUME IInv, [Next]_vars, op # None, NEW a \in Bytes \ Dma
  PROVE  View(a)' = View(a) \/ Given(a)
<1>0. Typed /\ Copies /\ Places BY DEF IInv
<1>1. CASE ActivateKernel BY <1>1 DEF ActivateKernel
<1>2. ASSUME NEW label \in Labels, NEW start \in Bytes, NEW end \in Bytes, DoFlush(label, start, end)
      PROVE  FALSE
  BY <1>2 DEF DoFlush
<1>3. CASE IssueDc \/ Barrier \/ Ic \/ UNCHANGED vars
  <2>1. UNCHANGED <<memory, dcache>> BY <1>3 DEF IssueDc, Barrier, Ic, vars
  <2> QED BY <2>1 DEF View
<1>4. CASE CompleteDc BY <1>4, CompleteView
<1>5. CASE Return BY <1>5, ReturnKeeps
<1>6. ASSUME NEW b \in Bytes \ Dma, CpuWrite(b) PROVE FALSE BY <1>6 DEF CpuWrite
<1>7. ASSUME NEW b \in Dma, DeviceWrite(b) PROVE View(a)' = View(a) BY <1>0, <1>7, DeviceStep
<1>8. ASSUME NEW c \in Lns, Others(c) PROVE View(a)' = View(a) BY <1>8, OthersView
<1>9. CASE Next BY <1>1, <1>2, <1>3, <1>4, <1>5, <1>6, <1>7, <1>8, <1>9, Steps
<1> QED BY <1>3, <1>9

\* An operation changes nothing that the CPU reads, but the bytes that an
\* invalidation was asked for: what shares a line with the range survives, aligned
\* or not, though the line is invalidated.
THEOREM NeighboursKept == Spec => NeighboursKeepTheirData
<1>1. IInv /\ [Next]_vars =>
        (op # None => \A a \in Bytes \ Dma :
           View(a)' = View(a) \/ (op.label = "Invalidate_Data" /\ a \in op.range))
  BY ViewKept DEF Given
<1> QED BY <1>1, Invariant, PTL DEF Spec, NeighboursKeepTheirData

\* Only Return ends an operation, and nothing is pending then.
LEMMA OnlyReturn ==
  ASSUME IInv, [Next]_vars, NEW labels, Returns(labels)
  PROVE  /\ program = <<>> /\ op # None /\ op.label \in labels
         /\ Typed /\ Copies /\ Places /\ Sweeping /\ Cleaning /\ Delivered /\ Fetching
         /\ Elems(pending) = {}
<1>0. op # None /\ op' = None /\ op.label \in labels BY DEF Returns
<1>1. ~ ActivateKernel BY <1>0 DEF ActivateKernel
<1>2. ~ \E label \in Labels, start, end \in Bytes : start <= end /\ DoFlush(label, start, end)
  BY <1>0 DEF DoFlush
<1>3. ~ (IssueDc \/ CompleteDc \/ Barrier \/ Ic)
  BY <1>0 DEF IssueDc, CompleteDc, Barrier, Ic
<1>4. ~ \E a \in Bytes \ Dma : CpuWrite(a) BY <1>0 DEF CpuWrite
<1>5. ~ \E a \in Dma : DeviceWrite(a) BY <1>0 DEF DeviceWrite
<1>6. ~ \E c \in Lns : Others(c) BY <1>0 DEF Others, Fill, Evict, Demote, FillI
<1>7. ~ UNCHANGED vars BY <1>0 DEF vars
<1>8. Return BY <1>1, <1>2, <1>3, <1>4, <1>5, <1>6, <1>7, Steps
<1>9. program = <<>> BY <1>8 DEF Return
<1>10. Elems(pending) = {} BY <1>9, Drained
<1> QED BY <1>0, <1>9, <1>10 DEF IInv

\* A clean line reads as memory does.
LEMMA CleanIsMemory ==
  ASSUME Typed, Copies, NEW a \in Bytes \ Dma, ~ Dirty(LINE_INDEX(a))
  PROVE  View(a) = memory[a]
<1>1. LINE_INDEX(a) \in Lns /\ a \in Owned(LINE_INDEX(a)) BY LineOfByte DEF Owned
<1> QED BY <1>1 DEF View, Copies, Dirty

\* When a cleaning operation ends, its range is in memory.
LEMMA CleanEnds ==
  ASSUME IInv, [Next]_vars, Returns({"Clean_Data", "CleanInvalidate_Data", "boot"}),
         NEW a \in op.range \ Dma
  PROVE  memory[a] = View(a)
<1>1. /\ op # None /\ op.label \in {"Clean_Data", "CleanInvalidate_Data", "boot"}
      /\ Typed /\ Copies /\ Places /\ Sweeping /\ Cleaning /\ Elems(pending) = {}
  BY OnlyReturn
<1>2. ~ Dirty(LINE_INDEX(a)) BY <1>1, NothingDirty
<1>3. a \in Bytes \ Dma BY <1>1, OperationFields
<1> QED BY <1>1, <1>2, <1>3, CleanIsMemory

\* After a clean, and after the boot code's sweep by set and way, memory
\* has what the CPU wrote to any byte of the range, for every number of levels,
\* ways and sets and wherever lines moved meanwhile.
THEOREM CleaningReachesMemory == Spec => CleanReachesMemory
<1>1. IInv /\ [Next]_vars =>
        (Returns({"Clean_Data", "CleanInvalidate_Data", "boot"}) =>
           \A a \in op.range \ Dma : memory[a] = View(a))
  BY CleanEnds
<1> QED BY <1>1, Invariant, PTL DEF Spec, CleanReachesMemory

\* When an invalidation ends, what had been delivered is read.
LEMMA InvalidateEnds ==
  ASSUME IInv, [Next]_vars, Returns({"Invalidate_Data", "CleanInvalidate_Data"}),
         NEW a \in op.delivered
  PROVE  View(a) = 1
<1>1. /\ op # None /\ op.label \in {"Invalidate_Data", "CleanInvalidate_Data"}
      /\ Delivered /\ Elems(pending) = {}
  BY OnlyReturn
<1> QED BY <1>1 DEF Delivered

\* After an invalidation the CPU reads what the device had written before
\* it, wherever the range begins and ends in its lines.
THEOREM DeliveredIsRead == Spec => DeviceDataIsRead
<1>1. IInv /\ [Next]_vars =>
        (Returns({"Invalidate_Data", "CleanInvalidate_Data"}) =>
           \A a \in op.delivered : View(a) = 1)
  BY InvalidateEnds
<1> QED BY <1>1, Invariant, PTL DEF Spec, DeviceDataIsRead

\* When Unify_Instruction or the sweep ends, fetches read what loads read.
LEMMA UnifyEnds ==
  ASSUME IInv, [Next]_vars, Returns({"Unify_Instruction", "boot"}), NEW a \in op.range \ Dma
  PROVE  Fetch(a) = View(a)
<1> DEFINE l == LINE_INDEX(a)
<1>1. /\ op # None /\ op.label \in {"Unify_Instruction", "boot"}
      /\ Typed /\ Copies /\ Fetching /\ Elems(pending) = {}
  BY OnlyReturn
<1>2. ~ Dirty(l) /\ Fetched(l) BY <1>1 DEF Fetching
<1>3. a \in Bytes \ Dma BY <1>1, OperationFields
<1>4. a \in Owned(l) BY <1>3, LineOfByte DEF Owned
<1>5. Fetch(a) = memory[a] BY <1>2, <1>4 DEF Fetch, Fetched
<1>6. View(a) = memory[a] BY <1>1, <1>2, <1>3, CleanIsMemory
<1> QED BY <1>5, <1>6

\* After Unify_Instruction an instruction fetch from the range sees the
\* stores to it, though the instruction cache may be filled at every moment.
THEOREM UnifiedIsFetched == Spec => FetchesSeeStores
<1>1. IInv /\ [Next]_vars =>
        (Returns({"Unify_Instruction", "boot"}) =>
           \A a \in op.range \ Dma : Fetch(a) = View(a))
  BY UnifyEnds
<1> QED BY <1>1, Invariant, PTL DEF Spec, FetchesSeeStores
===============================================================================
