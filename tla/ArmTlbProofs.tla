----------------------------- MODULE ArmTlbProofs -----------------------------
(***************************************************************************)
(* What ArmTlb guarantees for any number of processors and spaces.         *)
(*                                                                         *)
(* A processor is untouched until it activates the kernel, and settled on  *)
(* the kernel's tables from then on.  What the operation under way still   *)
(* has to execute says how far it has come: instructions are counted from  *)
(* its end, where every switch of address space reads the same.            *)
(***************************************************************************)
EXTENDS ArmTlb, FiniteSetTheorems, TLAPS

UserRoots == Spaces \cup {Global}

\* The kernel's tables and the empty space map nothing to be cached here, and
\* the boot loader's stay as they were.
FixedTables == pte[Kernel] = None /\ pte[Global] = None /\ pte[Boot] = BootFrame

\* Every invalidation, whether issued or to come, is waited for.
Waits(instructions) ==
  \A i \in DOMAIN instructions :
    instructions[i][1] = "tlbi" =>
      \E j \in DOMAIN instructions : i < j /\ instructions[j][1] = "dsb"
Awaited ==
  /\ Waits(program)
  /\ tlbi # None => \E j \in DOMAIN program : program[j][1] = "dsb"

\* A processor that is still on the boot loader's tables.
Untouched(p) ==
  /\ ttbr[p]["ttbr0"].root = Boot /\ ttbr[p]["ttbr1"].root = Boot
  /\ \A e \in tlb[p] : e.root = Boot /\ e.frame = BootFrame

\* One that has left them.
Settled(p) ==
  /\ ttbr[p]["ttbr0"].root \in UserRoots /\ ttbr[p]["ttbr1"].root = Kernel
  /\ \A v \in unsynced[p] : v.root \in UserRoots
  /\ \A e \in tlb[p] : e.root \in Spaces

\* The last n instructions of a sequence are all that is left to execute.
Left(instructions, n) ==
  /\ Len(program) = n /\ n <= Len(instructions)
  /\ \A i \in 1 .. n : program[i] = instructions[Len(instructions) - n + i]

\* activate_kernel_vspace, with n of its eleven instructions to go.
Milestone(p, n) ==
  /\ Left(activate_kernel_vspace, n)
  /\ ttbr[p]["ttbr0"].root = IF n > 7 THEN Boot ELSE Global
  /\ ttbr[p]["ttbr1"].root = IF n > 10 THEN Boot ELSE Kernel
  /\ \A v \in unsynced[p] : v.root \in {Boot, Kernel, Global}
  /\ n <= 4 => unsynced[p] = {}
  /\ \A e \in tlb[p] : e.root = Boot /\ e.frame = BootFrame
  /\ n <= 2 => tlbi = All \/ tlb[p] = {}
  /\ n <= 1 => tlb[p] = {}
Activating(p) == leaving = Boot /\ \E n \in 0 .. 11 : Milestone(p, n)

\* The TLB has nothing but what a walk would find now, in the space that the
\* processor is in or in the one it is leaving.
Fresh(p) ==
  \A e \in tlb[p] : e.root \in {ttbr[p]["ttbr0"].root, leaving} /\ e.frame = pte[e.root]

\* A switch to r: invalidations, then set_vm_root.
Switches(instructions, r) ==
  /\ instructions \in Seq(Instruction)
  /\ Waits(instructions)
  /\ Len(instructions) >= 4
  /\ \A i \in 1 .. 4 : instructions[Len(instructions) - 4 + i] = set_vm_root(r)[i]
  /\ \A i \in 1 .. Len(instructions) - 4 : instructions[i][1] \in {"dsb", "isb", "tlbi"}

\* A switch under way, to r: at the end only what is left of set_vm_root.
SwitchLeft(r) == Switches(program, r) \/ \E n \in 0 .. 3 : Left(set_vm_root(r), n)
Switching(p) ==
  /\ leaving \in UserRoots
  /\ \E r \in UserRoots : SwitchLeft(r)
  /\ IF Len(program) >= 4
     THEN ttbr[p]["ttbr0"].root = leaving /\ unsynced[p] = {}
     ELSE \A v \in unsynced[p] : v.root = leaving
  /\ Len(program) <= 2 => tlbi = All \/ Fresh(p)
  /\ Len(program) <= 1 => Fresh(p)
  /\ Len(program) = 0 => unsynced[p] = {}

\* Any other operation, which writes neither register.
Working(p) ==
  /\ leaving = None /\ unsynced[p] = {}
  /\ \A i \in DOMAIN program : program[i][1] \notin {"ttbr0", "ttbr1"}

\* Where a processor stands.
Stands(p) ==
  IF lock = p THEN Activating(p) \/ (Settled(p) /\ (Switching(p) \/ Working(p)))
              ELSE unsynced[p] = {} /\ (Untouched(p) \/ Settled(p))

\* The inductive invariant.
IInv == TypeOK /\ FixedTables /\ Awaited /\ \A p \in Procs : Stands(p)

------------------------------------------------------------------------------
(* Sequences of instructions.                                              *)

LEMMA Tails ==
  ASSUME NEW S, NEW s \in Seq(S), s # <<>>
  PROVE  /\ DOMAIN s = 1 .. Len(s) /\ Len(s) \in Nat \ {0} /\ Head(s) = s[1]
         /\ Tail(s) \in Seq(S) /\ Len(Tail(s)) = Len(s) - 1
         /\ DOMAIN Tail(s) = 1 .. Len(s) - 1
         /\ \A i \in 1 .. Len(s) - 1 : Tail(s)[i] = s[i + 1]
OBVIOUS

LEMMA Elements ==
  ASSUME NEW S, NEW s \in Seq(S)
  PROVE  Len(s) \in Nat /\ DOMAIN s = 1 .. Len(s) /\ \A i \in 1 .. Len(s) : s[i] \in S
OBVIOUS

LEMMA Joined ==
  ASSUME NEW S, NEW a \in Seq(S), NEW b \in Seq(S)
  PROVE  /\ a \o b \in Seq(S) /\ Len(a \o b) = Len(a) + Len(b)
         /\ DOMAIN (a \o b) = 1 .. Len(a) + Len(b)
         /\ \A i \in 1 .. Len(a) : (a \o b)[i] = a[i]
         /\ \A i \in 1 .. Len(b) : (a \o b)[Len(a) + i] = b[i]
OBVIOUS

\* The same, of sequences whose lengths are known.
LEMMA JoinedAt ==
  ASSUME NEW S, NEW a \in Seq(S), NEW b \in Seq(S), NEW m \in Nat, NEW n \in Nat,
         Len(a) = m, Len(b) = n
  PROVE  /\ a \o b \in Seq(S) /\ Len(a \o b) = m + n
         /\ \A i \in 1 .. m : (a \o b)[i] = a[i]
         /\ \A i \in 1 .. n : (a \o b)[m + i] = b[i]
BY Joined

LEMMA InEither ==
  ASSUME NEW S, NEW a \in Seq(S), NEW b \in Seq(S), NEW i \in 1 .. Len(a) + Len(b)
  PROVE  i \in 1 .. Len(a) \/ \E k \in 1 .. Len(b) : i = Len(a) + k
<1>1. Len(a) \in Nat /\ Len(b) \in Nat
  OBVIOUS
<1> DEFINE k == i - Len(a)
<1>2. i \in 1 .. Len(a) \/ (k \in 1 .. Len(b) /\ i = Len(a) + k)
  BY <1>1
<1> QED
  BY <1>2

LEMMA WaitsTail ==
  ASSUME NEW S, NEW s \in Seq(S), s # <<>>, Waits(s)
  PROVE  Waits(Tail(s))
<1> SUFFICES ASSUME NEW i \in DOMAIN Tail(s), Tail(s)[i][1] = "tlbi"
             PROVE  \E j \in DOMAIN Tail(s) : i < j /\ Tail(s)[j][1] = "dsb"
  BY DEF Waits
<1>1. i \in Nat /\ i + 1 \in DOMAIN s /\ s[i + 1][1] = "tlbi" /\ Len(s) \in Nat
  BY Tails
<1>2. PICK j \in DOMAIN s : i + 1 < j /\ s[j][1] = "dsb"
  BY <1>1 DEF Waits
<1> DEFINE k == j - 1
<1>3. k \in 1 .. Len(s) - 1 /\ i < k /\ j = k + 1
  BY <1>1, <1>2, Tails
<1>4. Tail(s)[k] = s[j]
  BY <1>3, Tails
<1> QED
  BY <1>2, <1>3, <1>4, Tails

LEMMA WaitsJoined ==
  ASSUME NEW S, NEW a \in Seq(S), NEW b \in Seq(S), Waits(a), Waits(b)
  PROVE  Waits(a \o b)
<1> SUFFICES ASSUME NEW i \in DOMAIN (a \o b), (a \o b)[i][1] = "tlbi"
             PROVE  \E j \in DOMAIN (a \o b) : i < j /\ (a \o b)[j][1] = "dsb"
  BY DEF Waits
<1>1. Len(a) \in Nat /\ Len(b) \in Nat /\ i \in 1 .. Len(a) + Len(b)
      /\ DOMAIN a = 1 .. Len(a) /\ DOMAIN b = 1 .. Len(b)
      /\ DOMAIN (a \o b) = 1 .. Len(a) + Len(b)
  BY Joined
<1>2. CASE i \in 1 .. Len(a)
  <2>1. a[i][1] = "tlbi"
    BY <1>2, Joined
  <2>2. PICK j \in 1 .. Len(a) : i < j /\ a[j][1] = "dsb"
    BY <1>1, <1>2, <2>1 DEF Waits
  <2>3. (a \o b)[j] = a[j] /\ j \in 1 .. Len(a) + Len(b)
    BY <1>1, Joined
  <2> QED
    BY <1>1, <2>2, <2>3
<1>3. CASE \E k \in 1 .. Len(b) : i = Len(a) + k
  <2>1. PICK k \in 1 .. Len(b) : i = Len(a) + k
    BY <1>3
  <2>2. b[k][1] = "tlbi"
    BY <2>1, Joined
  <2>3. PICK j \in 1 .. Len(b) : k < j /\ b[j][1] = "dsb"
    BY <1>1, <2>2 DEF Waits
  <2>4. (a \o b)[Len(a) + j] = b[j] /\ Len(a) + j \in 1 .. Len(a) + Len(b) /\ i < Len(a) + j
    BY <1>1, <2>1, <2>3, Joined
  <2> QED
    BY <1>1, <2>3, <2>4
<1> QED
  BY <1>1, <1>2, <1>3, InEither

------------------------------------------------------------------------------
(* The sequences of the functions.                                         *)

\* Names and operands of the instructions.
LEMMA Instructions ==
  /\ dsb \in Instruction /\ dsb[1] = "dsb"
  /\ isb \in Instruction /\ isb[1] = "isb"
  /\ \A w \in {All} \cup Spaces :
       Tlbi(w) \in Instruction /\ Tlbi(w)[1] = "tlbi" /\ Tlbi(w)[2] = w
  /\ \A r \in Roots : ttbr_new(NoAsid, r) \in TTBR /\ ttbr_new(NoAsid, r).root = r
  /\ \A v \in TTBR : <<"ttbr0", v>> \in Instruction /\ <<"ttbr1", v>> \in Instruction
  /\ \A w \in {All} \cup Spaces : <<"remote", w>> \in Instruction /\ <<"wait", w>> \in Instruction
  /\ \A s \in Spaces, f \in Frames \cup {None} : <<"store", <<s, f>>>> \in Instruction
BY DEF Instruction, dsb, isb, Tlbi, ttbr_new, TTBR

\* An operation writes either register only with the root of a space, and an
\* entry only of a space.
LEMMA Operands ==
  ASSUME NEW i \in Instruction
  PROVE  /\ i[1] \in {"ttbr0", "ttbr1"} => i[2] \in TTBR
         /\ i[1] = "tlbi" => i[2] \in {All} \cup Spaces
         /\ i[1] = "store" => i[2][1] \in Spaces /\ i[2][2] \in Frames \cup {None}
BY DEF Instruction

LEMMA SetVmRoot ==
  ASSUME NEW r \in UserRoots
  PROVE  /\ set_vm_root(r) \in Seq(Instruction) /\ Len(set_vm_root(r)) = 4
         /\ set_vm_root(r)[1] = <<"ttbr0", ttbr_new(NoAsid, r)>>
         /\ set_vm_root(r)[2] = Tlbi(All)
         /\ set_vm_root(r)[3] = dsb
         /\ set_vm_root(r)[4] = isb
         /\ Waits(set_vm_root(r))
<1>1. r \in Roots
  BY DEF UserRoots, Roots
<1> DEFINE w == <<"ttbr0", ttbr_new(NoAsid, r)>>
<1>2. w \in Instruction /\ w[1] = "ttbr0"
  BY <1>1, Instructions
<1> HIDE DEF w
<1>3. <<w, Tlbi(All), dsb, isb>> \in Seq(Instruction)
  BY <1>2, Instructions
<1> DEFINE p == <<w, Tlbi(All), dsb, isb>>
<1>4. p[1] = w /\ p[2] = Tlbi(All) /\ p[3] = dsb /\ p[4] = isb /\ Len(p) = 4 /\ DOMAIN p = 1 .. 4
  OBVIOUS
<1>5. Waits(p)
  <2> HIDE DEF p
  <2>1. \A i \in 1 .. 4 : p[i][1] = "tlbi" => i < 3
    <3>1. \A i \in 1 .. 4 : i < 3 \/ i = 3 \/ i = 4
      OBVIOUS
    <3> QED
      BY <1>4, <3>1, Instructions
  <2> QED
    BY <1>4, <2>1, Instructions DEF Waits
<1> QED
  BY <1>3, <1>4, <1>5 DEF set_vm_root, set_current_user_vspace_root, w

\* The sequences that only maintain the TLB.
Maintains(instructions) ==
  /\ instructions \in Seq(Instruction)
  /\ Waits(instructions)
  /\ \A i \in DOMAIN instructions : instructions[i][1] \in {"dsb", "isb", "tlbi"}

LEMMA LocalInvalidation ==
  ASSUME NEW w \in {All} \cup Spaces
  PROVE  LET s == <<dsb, Tlbi(w), dsb, isb>> IN Maintains(s) /\ Len(s) = 4
<1> DEFINE t == Tlbi(w)
           s == <<dsb, t, dsb, isb>>
<1>1. t \in Instruction /\ t[1] = "tlbi"
  BY Instructions
<1> HIDE DEF t
<1>2. s \in Seq(Instruction) /\ DOMAIN s = 1 .. 4 /\ Len(s) = 4
  BY <1>1, Instructions
<1>3. s[1] = dsb /\ s[2] = t /\ s[3] = dsb /\ s[4] = isb
  OBVIOUS
<1> HIDE DEF s
<1>4. \A i \in 1 .. 4 : i = 1 \/ i = 2 \/ i = 3 \/ i = 4
  OBVIOUS
<1>5. \A i \in 1 .. 4 : s[i][1] \in {"dsb", "isb", "tlbi"}
  BY <1>1, <1>3, <1>4, Instructions
<1>6. \A i \in 1 .. 4 : s[i][1] = "tlbi" => i < 3
  BY <1>1, <1>3, <1>4, Instructions
<1>7. Waits(s)
  BY <1>2, <1>3, <1>6, Instructions DEF Waits
<1> QED
  BY <1>2, <1>5, <1>7 DEF Maintains, s, t

\* delete_asid_pool: one after the other.
LEMMA PoolInvalidation ==
  ASSUME NEW asids \in Seq(Spaces)
  PROVE  LET Turn(n) == invalidate_local_tlb_asid(asids[(n + 3) \div 4])
         IN  Maintains([n \in 1 .. 4 * Len(asids) |-> Turn(n)[((n - 1) % 4) + 1]])
<1> DEFINE Turn(n) == invalidate_local_tlb_asid(asids[(n + 3) \div 4])
           s == [n \in 1 .. 4 * Len(asids) |-> Turn(n)[((n - 1) % 4) + 1]]
           l == Len(asids)
<1>1. l \in Nat /\ DOMAIN asids = 1 .. l
  OBVIOUS
<1>2. \A n \in 1 .. 4 * l : (n + 3) \div 4 \in 1 .. l /\ ((n - 1) % 4) + 1 \in 1 .. 4
  <2> HIDE DEF l
  <2> QED
    BY <1>1, SMT
<1>3. \A n \in 1 .. 4 * l : Maintains(Turn(n)) /\ Len(Turn(n)) = 4
  <2> SUFFICES ASSUME NEW n \in 1 .. 4 * l PROVE Maintains(Turn(n)) /\ Len(Turn(n)) = 4
    OBVIOUS
  <2>1. asids[(n + 3) \div 4] \in Spaces
    BY <1>1, <1>2
  <2> QED
    BY <2>1, LocalInvalidation DEF invalidate_local_tlb_asid
<1>4. \A n \in 1 .. 4 * l :
        /\ Turn(n)[((n - 1) % 4) + 1] \in Instruction
        /\ Turn(n)[((n - 1) % 4) + 1][1] \in {"dsb", "isb", "tlbi"}
  <2> SUFFICES ASSUME NEW n \in 1 .. 4 * l
               PROVE  /\ Turn(n)[((n - 1) % 4) + 1] \in Instruction
                      /\ Turn(n)[((n - 1) % 4) + 1][1] \in {"dsb", "isb", "tlbi"}
    OBVIOUS
  <2> DEFINE t == Turn(n)
             i == ((n - 1) % 4) + 1
  <2>1. t \in Seq(Instruction) /\ Len(t) = 4 /\ i \in 1 .. 4
        /\ \A k \in DOMAIN t : t[k][1] \in {"dsb", "isb", "tlbi"}
    BY <1>2, <1>3 DEF Maintains
  <2> HIDE DEF t, i
  <2>2. DOMAIN t = 1 .. 4 /\ t[i] \in Instruction
    BY <2>1, Elements
  <2>3. t[i][1] \in {"dsb", "isb", "tlbi"}
    BY <2>1, <2>2
  <2> QED
    BY <2>2, <2>3 DEF t, i
<1>5. DOMAIN s = 1 .. 4 * l /\ \A n \in 1 .. 4 * l : s[n] = Turn(n)[((n - 1) % 4) + 1]
  OBVIOUS
<1>6. 4 * l \in Nat
  <2> HIDE DEF l
  <2> QED
    BY <1>1, SMT
<1>7. s \in Seq(Instruction) /\ Len(s) = 4 * l
  <2> DEFINE m == 4 * l
  <2>1. s \in [1 .. m -> Instruction] /\ m \in Nat
    BY <1>4, <1>6
  <2> HIDE DEF s, m
  <2>2. s \in Seq(Instruction) /\ Len(s) = m
    BY <2>1
  <2> QED
    BY <2>2 DEF m
<1>8. Waits(s)
  <2> HIDE DEF s, Turn
  <2> SUFFICES ASSUME NEW i \in 1 .. 4 * l, s[i][1] = "tlbi"
               PROVE  \E j \in 1 .. 4 * l : i < j /\ s[j][1] = "dsb"
    BY <1>5 DEF Waits
  <2> DEFINE k == ((i - 1) % 4) + 1
             m == (i + 3) \div 4
             t == <<dsb, Tlbi(asids[m]), dsb, isb>>
  <2>1. Turn(i) = t
    BY DEF Turn, invalidate_local_tlb_asid
  <2>2. k \in 1 .. 4 /\ m \in 1 .. l /\ t[k][1] = "tlbi"
    BY <1>2, <1>5, <2>1
  <2>3. k = 2
    <3>1. k = 1 \/ k = 2 \/ k = 3 \/ k = 4
      <4> HIDE DEF k
      <4> QED
        BY <2>2
    <3>2. t[1][1] = "dsb" /\ t[3][1] = "dsb" /\ t[4][1] = "isb"
      BY Instructions
    <3> HIDE DEF k, t
    <3> QED
      BY <2>2, <3>1, <3>2
  <2> DEFINE j == i + 1
  <2>4. j \in 1 .. 4 * l /\ i < j /\ (j + 3) \div 4 = m /\ ((j - 1) % 4) + 1 = 3
    <3> HIDE DEF l
    <3> QED
      BY <1>1, <2>2, <2>3, SMT
  <2>5. s[j] = Turn(j)[3] /\ Turn(j) = t
    <3> HIDE DEF j
    <3>1. s[j] = Turn(j)[3]
      BY <1>5, <2>4
    <3>2. Turn(j) = t
      BY <2>4 DEF Turn, invalidate_local_tlb_asid
    <3> QED
      BY <3>1, <3>2
  <2>6. t[3][1] = "dsb"
    BY Instructions
  <2> QED
    BY <2>4, <2>5, <2>6
<1>9. \A n \in DOMAIN s : s[n][1] \in {"dsb", "isb", "tlbi"}
  BY <1>4, <1>5
<1> HIDE DEF s
<1>10. Maintains(s)
  BY <1>7, <1>8, <1>9 DEF Maintains
<1> QED
  BY <1>10 DEF s

\* Three parts, one after the other.
LEMMA ThreeParts ==
  ASSUME NEW k \in Seq(Instruction), NEW u \in Seq(Instruction), NEW l \in Seq(Instruction)
  PROVE  LET a == (k \o u) \o l
         IN  /\ a \in Seq(Instruction) /\ Len(a) = (Len(k) + Len(u)) + Len(l)
             /\ \A j \in 1 .. Len(k) : a[j] = k[j]
             /\ \A j \in 1 .. Len(u) : a[Len(k) + j] = u[j]
             /\ \A j \in 1 .. Len(l) : a[(Len(k) + Len(u)) + j] = l[j]
             /\ Waits(k) /\ Waits(u) /\ Waits(l) => Waits(a)
<1> DEFINE f == k \o u
           a == f \o l
<1>1. f \in Seq(Instruction) /\ Len(f) = Len(k) + Len(u) /\ Len(k) \in Nat /\ Len(u) \in Nat
  BY Joined
<1>2. (\A j \in 1 .. Len(k) : f[j] = k[j]) /\ \A j \in 1 .. Len(u) : f[Len(k) + j] = u[j]
  BY Joined
<1>3. Waits(k) /\ Waits(u) => Waits(f)
  BY WaitsJoined
<1> HIDE DEF f
<1>4. a \in Seq(Instruction) /\ Len(a) = Len(f) + Len(l)
  BY <1>1, Joined
<1>5. (\A j \in 1 .. Len(f) : a[j] = f[j]) /\ \A j \in 1 .. Len(l) : a[Len(f) + j] = l[j]
  BY <1>1, Joined
<1>6. Waits(f) /\ Waits(l) => Waits(a)
  BY <1>1, WaitsJoined
<1> HIDE DEF a
<1>7. \A j \in 1 .. Len(k) : a[j] = k[j]
  BY <1>1, <1>2, <1>5
<1>8. \A j \in 1 .. Len(u) : a[Len(k) + j] = u[j]
  <2> SUFFICES ASSUME NEW j \in 1 .. Len(u) PROVE a[Len(k) + j] = u[j]
    OBVIOUS
  <2> DEFINE i == Len(k) + j
  <2>1. i \in 1 .. Len(f)
    BY <1>1
  <2> HIDE DEF i
  <2>2. a[i] = f[i]
    BY <1>5, <2>1
  <2> QED
    BY <1>2, <2>2 DEF i
<1> QED
  BY <1>1, <1>3, <1>4, <1>5, <1>6, <1>7, <1>8 DEF a, f

\* The instructions of activate_kernel_vspace, by name.
LEMMA ActivateKernelVspace ==
  LET a == activate_kernel_vspace
  IN  /\ a \in Seq(Instruction) /\ Len(a) = 11 /\ Waits(a)
      /\ a[1] = <<"ttbr1", ttbr_new(NoAsid, Kernel)>>
      /\ a[4] = <<"ttbr0", ttbr_new(NoAsid, Global)>>
      /\ a[9] = Tlbi(All) /\ a[5] = Tlbi(All)
      /\ \A i \in {2, 6, 8, 10} : a[i] = dsb
      /\ \A i \in {3, 7, 11} : a[i] = isb
<1> DEFINE w == <<"ttbr1", ttbr_new(NoAsid, Kernel)>>
           k == <<w, dsb, isb>>
           u == set_vm_root(Global)
           l == <<dsb, Tlbi(All), dsb, isb>>
<1>1. activate_kernel_vspace = (k \o u) \o l
  BY DEF activate_kernel_vspace, set_current_kernel_vspace_root, invalidate_local_tlb, set_vm_root
<1>2. w \in Instruction /\ w[1] = "ttbr1"
  BY Instructions DEF Roots
<1> HIDE DEF w
<1>3. k \in Seq(Instruction) /\ Len(k) = 3 /\ DOMAIN k = 1 .. 3
      /\ k[1] = w /\ k[2] = dsb /\ k[3] = isb
  BY <1>2, Instructions
<1>4. Waits(k)
  <2> HIDE DEF k
  <2>1. \A i \in 1 .. 3 : i = 1 \/ i = 2 \/ i = 3
    OBVIOUS
  <2>2. \A i \in 1 .. 3 : k[i][1] # "tlbi"
    BY <1>2, <1>3, <2>1, Instructions
  <2> QED
    BY <1>3, <2>2 DEF Waits
<1>5. /\ u \in Seq(Instruction) /\ Len(u) = 4 /\ Waits(u)
      /\ u[1] = <<"ttbr0", ttbr_new(NoAsid, Global)>> /\ u[2] = Tlbi(All) /\ u[3] = dsb /\ u[4] = isb
  <2>1. Global \in UserRoots
    BY DEF UserRoots
  <2> QED
    BY <2>1, SetVmRoot
<1>6. l \in Seq(Instruction) /\ Waits(l) /\ Len(l) = 4
  BY LocalInvalidation DEF Maintains
<1>7. l[1] = dsb /\ l[2] = Tlbi(All) /\ l[3] = dsb /\ l[4] = isb
  OBVIOUS
<1> HIDE DEF k, u, l
<1> DEFINE a == (k \o u) \o l
<1>8. /\ a \in Seq(Instruction) /\ Len(a) = (Len(k) + Len(u)) + Len(l) /\ Waits(a)
      /\ \A j \in 1 .. Len(k) : a[j] = k[j]
      /\ \A j \in 1 .. Len(u) : a[Len(k) + j] = u[j]
      /\ \A j \in 1 .. Len(l) : a[(Len(k) + Len(u)) + j] = l[j]
  <2>1. /\ k \in Seq(Instruction) /\ u \in Seq(Instruction) /\ l \in Seq(Instruction)
        /\ Waits(k) /\ Waits(u) /\ Waits(l)
    BY <1>3, <1>4, <1>5, <1>6
  <2> QED
    BY <2>1, ThreeParts
<1>9. activate_kernel_vspace = a
  BY <1>1
<1> HIDE DEF a
<1>10. a \in Seq(Instruction) /\ Len(a) = 11 /\ Waits(a)
       /\ (\A j \in 1 .. 3 : a[j] = k[j]) /\ (\A j \in 1 .. 4 : a[3 + j] = u[j])
       /\ \A j \in 1 .. 4 : a[7 + j] = l[j]
  BY <1>3, <1>5, <1>6, <1>8
<1>11. /\ a[1] = k[1] /\ a[2] = k[2] /\ a[3] = k[3]
       /\ a[3 + 1] = u[1] /\ a[3 + 2] = u[2] /\ a[3 + 3] = u[3] /\ a[3 + 4] = u[4]
       /\ a[7 + 1] = l[1] /\ a[7 + 2] = l[2] /\ a[7 + 3] = l[3] /\ a[7 + 4] = l[4]
  BY <1>10
<1> QED
  BY <1>3, <1>5, <1>7, <1>9, <1>10, <1>11 DEF w

LEMMA Nothing == Maintains(<<>>)
<1>1. <<>> \in Seq(Instruction) /\ DOMAIN <<>> = {}
  OBVIOUS
<1> QED
  BY <1>1 DEF Maintains, Waits

LEMMA SwitchProgram ==
  ASSUME NEW before, Maintains(before), NEW r \in UserRoots
  PROVE  Switches(before \o set_vm_root(r), r)
<1> DEFINE u == set_vm_root(r)
           s == before \o u
<1>1. before \in Seq(Instruction) /\ Waits(before) /\ Len(before) \in Nat
      /\ DOMAIN before = 1 .. Len(before)
      /\ \A i \in DOMAIN before : before[i][1] \in {"dsb", "isb", "tlbi"}
  BY Elements DEF Maintains
<1>2. u \in Seq(Instruction) /\ Waits(u)
  BY SetVmRoot
<1>8. Len(u) = 4
  BY SetVmRoot
<1> HIDE DEF u
<1>3. /\ s \in Seq(Instruction) /\ Len(s) = Len(before) + Len(u)
      /\ \A i \in 1 .. Len(before) : s[i] = before[i]
      /\ \A i \in 1 .. Len(u) : s[Len(before) + i] = u[i]
  BY <1>1, <1>2, Joined
<1>4. Waits(s)
  BY <1>1, <1>2, WaitsJoined
<1> HIDE DEF s
<1> DEFINE n == Len(before)
<1>5. n \in Nat /\ Len(s) = n + 4 /\ Len(s) - 4 = n
  BY <1>1, <1>3, <1>8
<1>6. \A i \in 1 .. 4 : s[n + i] = u[i]
  BY <1>3, <1>8
<1>7. \A i \in 1 .. n : s[i][1] \in {"dsb", "isb", "tlbi"}
  BY <1>1, <1>3
<1> HIDE DEF n
<1>9. Switches(s, r)
  BY <1>3, <1>4, <1>5, <1>6, <1>7 DEF Switches, u
<1> QED
  BY <1>9 DEF s, u

\* An operation that leaves both registers alone.
Works(instructions) ==
  /\ instructions \in Seq(Instruction)
  /\ Waits(instructions)
  /\ \A i \in DOMAIN instructions : instructions[i][1] \notin {"ttbr0", "ttbr1"}

LEMMA MaintenanceWorks ==
  ASSUME NEW s, Maintains(s)
  PROVE  Works(s)
BY DEF Maintains, Works

LEMMA WorksJoined ==
  ASSUME NEW a, NEW b, Works(a), Works(b)
  PROVE  Works(a \o b)
<1> DEFINE s == a \o b
<1>1. a \in Seq(Instruction) /\ b \in Seq(Instruction)
  BY DEF Works
<1>2. s \in Seq(Instruction) /\ Waits(s) /\ DOMAIN s = 1 .. Len(a) + Len(b)
      /\ (\A i \in 1 .. Len(a) : s[i] = a[i])
      /\ \A i \in 1 .. Len(b) : s[Len(a) + i] = b[i]
  BY <1>1, Joined, WaitsJoined DEF Works
<1>3. /\ \A i \in 1 .. Len(a) : a[i][1] \notin {"ttbr0", "ttbr1"}
      /\ \A i \in 1 .. Len(b) : b[i][1] \notin {"ttbr0", "ttbr1"}
  BY <1>1, Elements DEF Works
<1> HIDE DEF s
<1>4. \A i \in 1 .. Len(a) + Len(b) : i \in 1 .. Len(a) \/ \E k \in 1 .. Len(b) : i = Len(a) + k
  BY <1>1, InEither
<1>5. ASSUME NEW i \in DOMAIN s
      PROVE  s[i][1] \notin {"ttbr0", "ttbr1"}
  <2>1. CASE i \in 1 .. Len(a)
    BY <1>2, <1>3, <2>1
  <2>2. CASE \E k \in 1 .. Len(b) : i = Len(a) + k
    BY <1>2, <1>3, <2>2
  <2> QED
    BY <1>2, <1>4, <2>1, <2>2
<1> QED
  BY <1>2, <1>5 DEF Works, s

\* A single instruction, and a question with the wait for its answers.
LEMMA OneWorks ==
  ASSUME NEW i \in Instruction, i[1] \notin {"ttbr0", "ttbr1", "tlbi"}
  PROVE  Works(<<i>>)
<1> DEFINE t == <<i>>
<1>1. t \in Seq(Instruction) /\ \A k \in DOMAIN t : t[k] = i
  OBVIOUS
<1> HIDE DEF t
<1> QED
  BY <1>1 DEF Works, Waits, t

LEMMA AskingWorks ==
  ASSUME NEW i \in Instruction, i[1] = "remote", NEW j \in Instruction, j[1] = "wait"
  PROVE  Works(<<i, j>>)
<1> DEFINE t == <<i, j>>
<1>1. t \in Seq(Instruction) /\ DOMAIN t = 1 .. 2 /\ t[1] = i /\ t[2] = j
  OBVIOUS
<1> HIDE DEF t
<1>2. \A k \in 1 .. 2 : k = 1 \/ k = 2
  OBVIOUS
<1>3. \A k \in 1 .. 2 : t[k][1] \notin {"ttbr0", "ttbr1", "tlbi"}
  BY <1>1, <1>2
<1> QED
  BY <1>1, <1>3 DEF Works, Waits, t

LEMMA UpdateWorks ==
  ASSUME NEW s \in Spaces, NEW f \in Frames \cup {None}
  PROVE  Works(update(s, f))
<1> DEFINE i == <<"store", <<s, f>>>>
<1>1. i \in Instruction /\ i[1] = "store"
  BY Instructions
<1> HIDE DEF i
<1> QED
  BY <1>1, OneWorks DEF update, i

LEMMA InvalidationWorks ==
  ASSUME NEW s \in Spaces
  PROVE  Works(invalidate_tlb_by_asid(s)) /\ Works(invalidate_tlb_by_asid_va(s))
<1> DEFINE l == <<dsb, Tlbi(s), dsb, isb>>
           i == <<"remote", s>>
           j == <<"wait", s>>
<1>1. Works(l)
  BY LocalInvalidation, MaintenanceWorks
<1>2. i \in Instruction /\ i[1] = "remote" /\ j \in Instruction /\ j[1] = "wait"
  BY Instructions
<1> HIDE DEF l, i, j
<1>5. Works(l \o <<i, j>>)
  BY <1>1, <1>2, AskingWorks, WorksJoined
<1>6. invalidate_tlb_by_asid(s) = l \o <<i, j>> /\ invalidate_tlb_by_asid_va(s) = l \o <<i, j>>
  BY DEF invalidate_tlb_by_asid, invalidate_tlb_by_asid_va, invalidate_local_tlb_asid,
         invalidate_local_tlb_va_asid, l, i, j
<1> QED
  BY <1>5, <1>6

------------------------------------------------------------------------------
(* What the next instruction is.                                           *)

LEMMA Steps ==
  ASSUME TypeOK, NEW p, NEW name, At(p, name)
  PROVE  /\ lock = p /\ program # <<>> /\ program' = Tail(program)
         /\ Operand = program[1][2] /\ program[1][1] = name /\ program[1] \in Instruction
         /\ Len(program) \in Nat \ {0} /\ DOMAIN program = 1 .. Len(program)
         /\ program' \in Seq(Instruction) /\ Len(program') = Len(program) - 1
         /\ DOMAIN program' = 1 .. Len(program) - 1
         /\ \A i \in 1 .. Len(program) - 1 : program'[i] = program[i + 1]
<1>1. program \in Seq(Instruction) /\ program # <<>> /\ program' = Tail(program)
      /\ Head(program)[1] = name /\ lock = p
  BY DEF TypeOK, At
<1>2. Head(program) = program[1] /\ Len(program) \in Nat \ {0} /\ DOMAIN program = 1 .. Len(program)
  BY <1>1, Tails
<1>3. program[1] \in Instruction
  BY <1>1, <1>2, Elements
<1> QED
  BY <1>1, <1>2, <1>3, Tails DEF Operand

LEMMA LeftSteps ==
  ASSUME TypeOK, NEW p, NEW name, At(p, name),
         NEW s \in Seq(Instruction), NEW n \in Nat, Left(s, n)
  PROVE  n >= 1 /\ n <= Len(s) /\ program[1] = s[Len(s) - n + 1] /\ Left(s, n - 1)'
<1>1. Len(program) = n /\ n >= 1 /\ Len(s) \in Nat /\ n <= Len(s)
  BY Steps DEF Left
<1>2. program[1] = s[Len(s) - n + 1]
  BY <1>1 DEF Left
<1>3. \A i \in 1 .. n - 1 : program'[i] = s[Len(s) - (n - 1) + i]
  <2> SUFFICES ASSUME NEW i \in 1 .. n - 1 PROVE program'[i] = s[Len(s) - (n - 1) + i]
    OBVIOUS
  <2>1. program'[i] = program[i + 1]
    BY <1>1, Steps
  <2>2. i + 1 \in 1 .. n /\ Len(s) - n + (i + 1) = Len(s) - (n - 1) + i
    BY <1>1
  <2>3. program[i + 1] = s[Len(s) - n + (i + 1)]
    BY <2>2 DEF Left
  <2> QED
    BY <2>1, <2>2, <2>3
<1>4. Len(program') = n - 1 /\ n - 1 <= Len(s)
  BY <1>1, Steps
<1> QED
  BY <1>1, <1>2, <1>3, <1>4 DEF Left

\* The instruction of activate_kernel_vspace that is next.
LEMMA ActivatingSteps ==
  ASSUME TypeOK, NEW p, NEW name, At(p, name),
         NEW n \in 0 .. 11, Left(activate_kernel_vspace, n)
  PROVE  /\ n \in 1 .. 11 /\ Left(activate_kernel_vspace, n - 1)'
         /\ name \in {"ttbr0", "ttbr1", "tlbi", "dsb", "isb"}
         /\ name = "ttbr1" => n = 11 /\ Operand \in TTBR /\ Operand.root = Kernel
         /\ name = "ttbr0" => n = 8 /\ Operand \in TTBR /\ Operand.root = Global
         /\ name = "tlbi" => n \in {7, 3} /\ Operand = All
         /\ name = "dsb" => n \in {10, 6, 4, 2}
         /\ name = "isb" => n \in {9, 5, 1}
<1> DEFINE a == activate_kernel_vspace
           k == ttbr_new(NoAsid, Kernel)
           g == ttbr_new(NoAsid, Global)
           t == Tlbi(All)
<1>1. k \in TTBR /\ k.root = Kernel /\ g \in TTBR /\ g.root = Global
      /\ t[1] = "tlbi" /\ t[2] = All /\ dsb[1] = "dsb" /\ isb[1] = "isb"
  BY Instructions DEF Roots
<1>2. a \in Seq(Instruction) /\ Len(a) = 11
      /\ a[1] = <<"ttbr1", k>> /\ a[4] = <<"ttbr0", g>>
      /\ a[9] = t /\ a[5] = t
      /\ a[2] = dsb /\ a[6] = dsb /\ a[8] = dsb /\ a[10] = dsb
      /\ a[3] = isb /\ a[7] = isb /\ a[11] = isb
  BY ActivateKernelVspace
<1>8. activate_kernel_vspace \in Seq(Instruction)
  BY ActivateKernelVspace
<1>4. n >= 1 /\ program[1] = a[Len(a) - n + 1] /\ Left(activate_kernel_vspace, n - 1)'
  BY <1>8, LeftSteps
<1> HIDE DEF a, k, g, t
<1>5. program[1] = a[12 - n]
  BY <1>2, <1>4
<1>6. Operand = program[1][2] /\ program[1][1] = name
  BY Steps
<1>7. \/ n = 11 /\ program[1] = <<"ttbr1", k>>
      \/ n = 8 /\ program[1] = <<"ttbr0", g>>
      \/ n \in {7, 3} /\ program[1] = t
      \/ n \in {10, 6, 4, 2} /\ program[1] = dsb
      \/ n \in {9, 5, 1} /\ program[1] = isb
  <2>1. \/ n = 1 \/ n = 2 \/ n = 3 \/ n = 4 \/ n = 5 \/ n = 6
        \/ n = 7 \/ n = 8 \/ n = 9 \/ n = 10 \/ n = 11
    BY <1>4
  <2> QED
    BY <1>2, <1>5, <2>1
<1> HIDE DEF Operand
<1>9. CASE n = 11 /\ program[1] = <<"ttbr1", k>>
  BY <1>1, <1>4, <1>6, <1>9
<1>10. CASE n = 8 /\ program[1] = <<"ttbr0", g>>
  BY <1>1, <1>4, <1>6, <1>10
<1>11. CASE n \in {7, 3} /\ program[1] = t
  BY <1>1, <1>4, <1>6, <1>11
<1>12. CASE n \in {10, 6, 4, 2} /\ program[1] = dsb
  BY <1>1, <1>4, <1>6, <1>12
<1>13. CASE n \in {9, 5, 1} /\ program[1] = isb
  BY <1>1, <1>4, <1>6, <1>13
<1> QED
  BY <1>7, <1>9, <1>10, <1>11, <1>12, <1>13

\* The instruction of a switch that is next, and what is left after it.
LEMMA SwitchingSteps ==
  ASSUME TypeOK, Waits(program), NEW p, NEW name, At(p, name),
         NEW r \in UserRoots, SwitchLeft(r)
  PROVE  /\ SwitchLeft(r)'
         /\ name \in {"ttbr0", "tlbi", "dsb", "isb"}
         /\ name = "ttbr0" => Len(program) = 4 /\ Operand \in TTBR /\ Operand.root = r
         /\ name = "tlbi" => Len(program) > 4 \/ (Len(program) = 3 /\ Operand = All)
         /\ name = "dsb" => Len(program) > 4 \/ Len(program) = 2
         /\ name = "isb" => Len(program) > 4 \/ Len(program) = 1
<1> DEFINE u == set_vm_root(r)
           w == ttbr_new(NoAsid, r)
           t == Tlbi(All)
           l == Len(program)
<1>1. w \in TTBR /\ w.root = r /\ t[1] = "tlbi" /\ t[2] = All /\ dsb[1] = "dsb" /\ isb[1] = "isb"
  BY Instructions DEF UserRoots, Roots
<1>2. u \in Seq(Instruction) /\ Len(u) = 4
      /\ u[1] = <<"ttbr0", w>> /\ u[2] = t /\ u[3] = dsb /\ u[4] = isb
  BY SetVmRoot
<1>3. Operand = program[1][2] /\ program[1][1] = name /\ l \in Nat \ {0}
      /\ program' \in Seq(Instruction) /\ Len(program') = l - 1
      /\ \A i \in 1 .. l - 1 : program'[i] = program[i + 1]
  BY Steps
<1>4. Waits(program')
  <2>1. program \in Seq(Instruction) /\ program # <<>> /\ program' = Tail(program)
    BY DEF TypeOK, At
  <2> QED
    BY <2>1, WaitsTail
<1>6. ASSUME NEW n \in 1 .. 4, Left(set_vm_root(r), n)
      PROVE  /\ l = n
             /\ \/ n = 4 /\ program[1] = <<"ttbr0", w>>
                \/ n = 3 /\ program[1] = t
                \/ n = 2 /\ program[1] = dsb
                \/ n = 1 /\ program[1] = isb
             /\ \E m \in 0 .. 3 : Left(set_vm_root(r), m)'
  <2>7. set_vm_root(r) \in Seq(Instruction) /\ n \in Nat
    BY <1>2
  <2>1. n >= 1 /\ program[1] = u[Len(u) - n + 1] /\ Left(set_vm_root(r), n - 1)'
    BY <2>7, <1>6, LeftSteps
  <2> HIDE DEF u, w, t, l
  <2>2. n = 1 \/ n = 2 \/ n = 3 \/ n = 4
    OBVIOUS
  <2>3. n - 1 \in 0 .. 3
    OBVIOUS
  <2>4. l = n
    BY <1>6 DEF Left, l
  <2>5. program[1] = u[5 - n]
    BY <1>2, <2>1
  <2>6. \/ n = 4 /\ program[1] = <<"ttbr0", w>>
        \/ n = 3 /\ program[1] = t
        \/ n = 2 /\ program[1] = dsb
        \/ n = 1 /\ program[1] = isb
    BY <1>2, <2>2, <2>5
  <2> QED
    BY <2>1, <2>3, <2>4, <2>6
<1> HIDE DEF u, w, t, l, Operand
<1>5. CASE Switches(program, r) /\ l > 4
  <2>1. /\ \A i \in 1 .. 4 : program[l - 4 + i] = u[i]
        /\ \A i \in 1 .. l - 4 : program[i][1] \in {"dsb", "isb", "tlbi"}
    BY <1>5 DEF Switches, l, u
  <2>2. name \in {"dsb", "isb", "tlbi"}
    BY <1>3, <1>5, <2>1
  <2>3. \A i \in 1 .. 4 : program'[l - 1 - 4 + i] = u[i]
    <3> SUFFICES ASSUME NEW i \in 1 .. 4 PROVE program'[l - 1 - 4 + i] = u[i]
      OBVIOUS
    <3> DEFINE j == l - 1 - 4 + i
    <3>1. j \in 1 .. l - 1 /\ j + 1 = l - 4 + i
      BY <1>3, <1>5
    <3> HIDE DEF j
    <3>2. program'[j] = program[l - 4 + i]
      BY <1>3, <3>1
    <3> QED
      BY <2>1, <3>2 DEF j
  <2>4. \A i \in 1 .. l - 1 - 4 : program'[i][1] \in {"dsb", "isb", "tlbi"}
    <3> SUFFICES ASSUME NEW i \in 1 .. l - 1 - 4 PROVE program'[i][1] \in {"dsb", "isb", "tlbi"}
      OBVIOUS
    <3>1. i \in 1 .. l - 1 /\ i + 1 \in 1 .. l - 4
      BY <1>3, <1>5
    <3> QED
      BY <1>3, <2>1, <3>1
  <2>5. Switches(program, r)'
    BY <1>3, <1>4, <1>5, <2>3, <2>4 DEF Switches, u
  <2> QED
    BY <1>3, <1>5, <2>2, <2>5 DEF SwitchLeft, l
<1>7. ASSUME NEW n \in 1 .. 4, Left(set_vm_root(r), n)
      PROVE  /\ SwitchLeft(r)'
             /\ name \in {"ttbr0", "tlbi", "dsb", "isb"}
             /\ name = "ttbr0" => l = 4 /\ Operand \in TTBR /\ Operand.root = r
             /\ name = "tlbi" => l > 4 \/ (l = 3 /\ Operand = All)
             /\ name = "dsb" => l > 4 \/ l = 2
             /\ name = "isb" => l > 4 \/ l = 1
  <2>1. SwitchLeft(r)'
    BY <1>6, <1>7 DEF SwitchLeft
  <2>2. CASE n = 4 /\ program[1] = <<"ttbr0", w>>
    BY <1>1, <1>3, <1>6, <1>7, <2>1, <2>2
  <2>3. CASE n = 3 /\ program[1] = t
    BY <1>1, <1>3, <1>6, <1>7, <2>1, <2>3
  <2>4. CASE n = 2 /\ program[1] = dsb
    BY <1>1, <1>3, <1>6, <1>7, <2>1, <2>4
  <2>5. CASE n = 1 /\ program[1] = isb
    BY <1>1, <1>3, <1>6, <1>7, <2>1, <2>5
  <2> QED
    BY <1>6, <1>7, <2>2, <2>3, <2>4, <2>5
<1>8. CASE Switches(program, r) /\ l = 4
  <2>1. Left(set_vm_root(r), 4)
    BY <1>2, <1>8 DEF Switches, Left, l, u
  <2> QED
    BY <1>7, <2>1 DEF l
<1>9. CASE \E n \in 0 .. 3 : Left(set_vm_root(r), n)
  <2>1. PICK n \in 0 .. 3 : Left(set_vm_root(r), n)
    BY <1>9
  <2>2. n \in 1 .. 4
    BY <1>3, <2>1 DEF Left, l
  <2> QED
    BY <1>7, <2>1, <2>2 DEF l
<1> QED
  BY <1>3, <1>5, <1>8, <1>9 DEF SwitchLeft, Switches, l, u

------------------------------------------------------------------------------
(* Where a processor stands after a step.                                  *)

LEMMA Names == None # All /\ All \notin Spaces /\ None \notin Spaces /\ None \notin Procs
               /\ None # BootFrame /\ None \notin Frames /\ NoAsid \notin Spaces
               /\ Boot \notin UserRoots /\ Kernel \notin UserRoots /\ Kernel # Boot
               /\ Global \notin Spaces /\ None \notin Roots
               /\ {Boot, Kernel, Global} \subseteq Roots /\ UserRoots \subseteq Roots
BY ArmTlbAssumption DEF UserRoots, Roots

\* Outside the kernel, entries may be removed.
LEMMA Quiet ==
  ASSUME NEW q, Stands(q), lock # q, lock' # q,
         ttbr'[q] = ttbr[q], unsynced'[q] = unsynced[q], tlb'[q] \subseteq tlb[q]
  PROVE  Stands(q)'
BY DEF Stands, Untouched, Settled

\* Inside, what another processor does changes nothing.
LEMMA Unmoved ==
  ASSUME NEW q, Stands(q), UNCHANGED <<lock, program, leaving, tlbi, pte>>,
         ttbr'[q] = ttbr[q], unsynced'[q] = unsynced[q], tlb'[q] = tlb[q]
  PROVE  Stands(q)'
<1>1. Settled(q)' <=> Settled(q)
  BY DEF Settled
<1>2. Untouched(q)' <=> Untouched(q)
  BY DEF Untouched
<1>3. Working(q)' <=> Working(q)
  BY DEF Working
<1>4. Fresh(q)' <=> Fresh(q)
  BY DEF Fresh
<1>5. Activating(q)' <=> Activating(q)
  <2>1. ASSUME NEW n PROVE Milestone(q, n)' <=> Milestone(q, n)
    BY DEF Milestone, Left
  <2> QED
    BY <2>1 DEF Activating
<1>6. Switching(q)' <=> Switching(q)
  <2>1. ASSUME NEW r PROVE SwitchLeft(r)' <=> SwitchLeft(r)
    BY DEF SwitchLeft, Switches, Left
  <2> QED
    BY <1>4, <2>1 DEF Switching
<1> QED
  BY <1>1, <1>2, <1>3, <1>5, <1>6 DEF Stands

Executes(p) ==
  \/ \E r \in {"ttbr0", "ttbr1"} : WriteTTBR(p, r)
  \/ IssueTlbi(p) \/ Dsb(p) \/ Isb(p) \/ Store(p) \/ RemoteInvalidate(p) \/ Wait(p)

\* What is typed of one processor.
LEMMA OfOne ==
  ASSUME TypeOK, NEW p \in Procs
  PROVE  /\ \A r \in {"ttbr0", "ttbr1"} : ttbr[p][r] \in TTBR
         /\ unsynced[p] \subseteq TTBR /\ tlb[p] \subseteq Entry
         /\ \A v \in TTBR : v.root \in Roots
         /\ Len(program) \in Nat
BY DEF TypeOK, TTBR

LEMMA WritesTTBR ==
  ASSUME TypeOK, NEW p \in Procs, NEW r \in {"ttbr0", "ttbr1"}, WriteTTBR(p, r)
  PROVE  /\ ttbr'[p][r] = Operand
         /\ \A x \in {"ttbr0", "ttbr1"} \ {r} : ttbr'[p][x] = ttbr[p][x]
         /\ unsynced'[p] = unsynced[p] \cup {ttbr[p][r]}
         /\ \A q \in Procs \ {p} : ttbr'[q] = ttbr[q] /\ unsynced'[q] = unsynced[q]
         /\ At(p, r) /\ UNCHANGED <<pte, bound, caps, tlb, tlbi, lock, leaving, pending>>
BY DEF WriteTTBR, TypeOK, spaces

LEMMA ActivatingExecutes ==
  ASSUME TypeOK, NEW p \in Procs, Activating(p), Executes(p)
  PROVE  Activating(p)'
<1>1. PICK n \in 0 .. 11 : Milestone(p, n)
  BY DEF Activating
<1>2. leaving = Boot /\ Left(activate_kernel_vspace, n)
  BY <1>1 DEF Activating, Milestone
<1> SUFFICES n \in 1 .. 11 /\ Milestone(p, n - 1)' /\ leaving' = Boot
  <2>1. n \in 1 .. 11 => n - 1 \in 0 .. 11
    OBVIOUS
  <2> QED
    BY <2>1 DEF Activating
<1>3. CASE WriteTTBR(p, "ttbr1")
  <2>1. n = 11 /\ Operand.root = Kernel /\ Left(activate_kernel_vspace, 10)'
    BY <1>2, <1>3, ActivatingSteps DEF WriteTTBR
  <2>2. /\ ttbr'[p]["ttbr1"] = Operand /\ ttbr'[p]["ttbr0"] = ttbr[p]["ttbr0"]
        /\ unsynced'[p] = unsynced[p] \cup {ttbr[p]["ttbr1"]}
        /\ UNCHANGED <<tlb, tlbi, leaving>>
    BY <1>3, WritesTTBR
  <2> QED
    BY <1>1, <1>2, <2>1, <2>2 DEF Milestone
<1>4. CASE WriteTTBR(p, "ttbr0")
  <2>1. n = 8 /\ Operand.root = Global /\ Left(activate_kernel_vspace, 7)'
    BY <1>2, <1>4, ActivatingSteps DEF WriteTTBR
  <2>2. /\ ttbr'[p]["ttbr0"] = Operand /\ ttbr'[p]["ttbr1"] = ttbr[p]["ttbr1"]
        /\ unsynced'[p] = unsynced[p] \cup {ttbr[p]["ttbr0"]}
        /\ UNCHANGED <<tlb, tlbi, leaving>>
    BY <1>4, WritesTTBR
  <2> QED
    BY <1>1, <1>2, <2>1, <2>2 DEF Milestone
<1>5. CASE IssueTlbi(p)
  <2>1. n \in {7, 3} /\ Operand = All /\ Left(activate_kernel_vspace, n - 1)'
    BY <1>2, <1>5, ActivatingSteps DEF IssueTlbi
  <2>2. tlbi' = All /\ UNCHANGED <<ttbr, unsynced, tlb, leaving>>
    BY <1>5, <2>1 DEF IssueTlbi
  <2> QED
    BY <1>1, <1>2, <2>1, <2>2 DEF Milestone
<1>6. CASE Dsb(p)
  <2>1. n \in {10, 6, 4, 2} /\ Left(activate_kernel_vspace, n - 1)'
    BY <1>2, <1>6, ActivatingSteps DEF Dsb
  <2>2. tlbi = None /\ UNCHANGED <<ttbr, unsynced, tlb, tlbi, leaving>>
    BY <1>6 DEF Dsb
  <2> QED
    BY <1>1, <1>2, <2>1, <2>2, Names DEF Milestone
<1>7. CASE Isb(p)
  <2>1. n \in {9, 5, 1} /\ Left(activate_kernel_vspace, n - 1)'
    BY <1>2, <1>7, ActivatingSteps DEF Isb
  <2>2. unsynced'[p] = {} /\ UNCHANGED <<ttbr, tlb, tlbi, leaving>>
    BY <1>7 DEF Isb, TypeOK
  <2> QED
    BY <1>1, <1>2, <2>1, <2>2 DEF Milestone
<1>8. CASE Store(p) \/ RemoteInvalidate(p) \/ Wait(p)
  BY <1>2, <1>8, ActivatingSteps DEF Store, RemoteInvalidate, Wait
<1> QED
  BY <1>3, <1>4, <1>5, <1>6, <1>7, <1>8 DEF Executes

LEMMA SwitchingExecutes ==
  ASSUME TypeOK, Waits(program), NEW p \in Procs, Settled(p), Switching(p), Executes(p)
  PROVE  Settled(p)' /\ Switching(p)'
<1>1. PICK r \in UserRoots : SwitchLeft(r)
  BY DEF Switching
<1> DEFINE l == Len(program)
<1>2. l \in Nat /\ leaving \in UserRoots
  BY OfOne DEF Switching
<1>3. CASE WriteTTBR(p, "ttbr1")
  BY <1>1, <1>3, SwitchingSteps DEF WriteTTBR
<1>4. CASE WriteTTBR(p, "ttbr0")
  <2>5. l = 4 /\ Operand.root = r /\ SwitchLeft(r)' /\ Len(program') = l - 1
    BY <1>1, <1>4, SwitchingSteps, Steps DEF WriteTTBR
  <2>1. l = 4 /\ Operand.root = r /\ SwitchLeft(r)' /\ Len(program') = 3
    <3> HIDE DEF l
    <3> QED
      BY <2>5
  <2>2. /\ ttbr'[p]["ttbr0"] = Operand /\ ttbr'[p]["ttbr1"] = ttbr[p]["ttbr1"]
        /\ unsynced'[p] = unsynced[p] \cup {ttbr[p]["ttbr0"]}
        /\ UNCHANGED <<tlb, tlbi, leaving>>
    BY <1>4, WritesTTBR
  <2>3. unsynced[p] = {} /\ ttbr[p]["ttbr0"].root = leaving
    BY <2>1 DEF Switching
  <2>4. Settled(p)'
    BY <1>2, <2>1, <2>2, <2>3 DEF Settled
  <2> QED
    BY <1>2, <2>1, <2>2, <2>3, <2>4 DEF Switching
<1>5. CASE IssueTlbi(p)
  <2>1. SwitchLeft(r)' /\ Len(program') = l - 1 /\ (l > 4 \/ (l = 3 /\ Operand = All))
    BY <1>1, <1>5, SwitchingSteps, Steps DEF IssueTlbi
  <2>2. tlbi' = Operand /\ UNCHANGED <<ttbr, unsynced, tlb, leaving, pte>>
    BY <1>5 DEF IssueTlbi, spaces
  <2>3. Settled(p)'
    BY <2>2 DEF Settled
  <2>4. IF l > 4 THEN ttbr[p]["ttbr0"].root = leaving /\ unsynced[p] = {}
                 ELSE \A v \in unsynced[p] : v.root = leaving
    BY <2>1 DEF Switching
  <2> HIDE DEF l
  <2> QED
    BY <1>2, <2>1, <2>2, <2>3, <2>4 DEF Switching
<1>6. CASE Dsb(p)
  <2>1. SwitchLeft(r)' /\ Len(program') = l - 1 /\ (l > 4 \/ l = 2)
    BY <1>1, <1>6, SwitchingSteps, Steps DEF Dsb
  <2>2. tlbi = None /\ UNCHANGED <<ttbr, unsynced, tlb, tlbi, leaving, pte>>
    BY <1>6 DEF Dsb, spaces
  <2>3. Settled(p)'
    BY <2>2 DEF Settled
  <2>4. /\ IF l > 4 THEN ttbr[p]["ttbr0"].root = leaving /\ unsynced[p] = {}
                    ELSE \A v \in unsynced[p] : v.root = leaving
        /\ l = 2 => Fresh(p)
    BY <2>1, <2>2, Names DEF Switching
  <2>5. Fresh(p)' <=> Fresh(p)
    BY <2>2 DEF Fresh
  <2> HIDE DEF l
  <2> QED
    BY <1>2, <2>1, <2>2, <2>3, <2>4, <2>5 DEF Switching
<1>7. CASE Isb(p)
  <2>1. SwitchLeft(r)' /\ Len(program') = l - 1 /\ (l > 4 \/ l = 1)
    BY <1>1, <1>7, SwitchingSteps, Steps DEF Isb
  <2>2. unsynced'[p] = {} /\ UNCHANGED <<ttbr, tlb, tlbi, leaving, pte>>
    BY <1>7 DEF Isb, TypeOK, spaces
  <2>3. Settled(p)'
    BY <2>2 DEF Settled
  <2>4. /\ l > 4 => ttbr[p]["ttbr0"].root = leaving
        /\ l = 1 => Fresh(p)
    BY <2>1 DEF Switching
  <2>5. Fresh(p)' <=> Fresh(p)
    BY <2>2 DEF Fresh
  <2> HIDE DEF l
  <2> QED
    BY <1>2, <2>1, <2>2, <2>3, <2>4, <2>5 DEF Switching
<1>8. CASE Store(p) \/ RemoteInvalidate(p) \/ Wait(p)
  BY <1>1, <1>8, SwitchingSteps DEF Store, RemoteInvalidate, Wait
<1> QED
  BY <1>3, <1>4, <1>5, <1>6, <1>7, <1>8 DEF Executes

LEMMA WorkingExecutes ==
  ASSUME TypeOK, NEW p \in Procs, Settled(p), Working(p), Executes(p)
  PROVE  Settled(p)' /\ Working(p)'
<1>1. PICK name : At(p, name)
  BY DEF Executes, WriteTTBR, IssueTlbi, Dsb, Isb, Store, RemoteInvalidate, Wait
<1>2. /\ \A i \in DOMAIN program' : program'[i][1] \notin {"ttbr0", "ttbr1"}
      /\ name \notin {"ttbr0", "ttbr1"}
  <2>1. 1 \in DOMAIN program /\ \A i \in DOMAIN program' : i + 1 \in DOMAIN program
        /\ program'[i] = program[i + 1]
    BY <1>1, Steps
  <2> QED
    BY <1>1, <2>1, Steps DEF Working
<1>3. name = Head(program)[1]
  BY <1>1 DEF At
<1>4. ttbr' = ttbr /\ unsynced'[p] = {} /\ tlb' = tlb /\ leaving' = None
  BY <1>2, <1>3
     DEF Working, Executes, WriteTTBR, IssueTlbi, Dsb, Isb, Store, RemoteInvalidate, Wait, At, TypeOK
<1> QED
  BY <1>2, <1>4 DEF Settled, Working

LEMMA Completes ==
  ASSUME TypeOK, NEW p \in Procs, Stands(p), CompleteTlbi(p)
  PROVE  Stands(p)'
<1>1. /\ lock = p /\ lock' = p /\ UNCHANGED <<pte, ttbr, unsynced, program, leaving>>
      /\ tlb'[p] \subseteq tlb[p] /\ (tlbi = All => tlb'[p] = {})
  BY DEF CompleteTlbi, TypeOK, Without, spaces
<1>2. CASE Activating(p)
  <2>1. PICK n \in 0 .. 11 : Milestone(p, n)
    BY <1>2 DEF Activating
  <2>2. Left(activate_kernel_vspace, n)'
    BY <1>1, <2>1 DEF Milestone, Left
  <2>3. Milestone(p, n)'
    BY <1>1, <2>1, <2>2 DEF Milestone
  <2> QED
    BY <1>1, <1>2, <2>3 DEF Activating, Stands
<1>3. Settled(p) => Settled(p)'
  BY <1>1 DEF Settled
<1>4. ASSUME Switching(p) PROVE Switching(p)'
  <2>1. \E r \in UserRoots : SwitchLeft(r)'
    <3>1. ASSUME NEW r PROVE SwitchLeft(r) => SwitchLeft(r)'
      BY <1>1 DEF SwitchLeft, Switches, Left
    <3> QED
      BY <1>4, <3>1 DEF Switching
  <2>2. (tlbi = All \/ Fresh(p)) => Fresh(p)'
    BY <1>1 DEF Fresh
  <2>3. Len(program) <= 1 => Len(program) <= 2
    BY OfOne
  <2>4. Switching(p)'
    BY <1>1, <1>4, <2>1, <2>2, <2>3 DEF Switching
  <2> QED
    BY <2>4
<1>5. Working(p) => Working(p)'
  BY <1>1 DEF Working
<1> QED
  BY <1>1, <1>2, <1>3, <1>4, <1>5 DEF Stands

LEMMA Fills ==
  ASSUME TypeOK, FixedTables, NEW p \in Procs, Stands(p), TlbFill(p)
  PROVE  Stands(p)'
<1>1. PICK v \in {ttbr[p]["ttbr0"], ttbr[p]["ttbr1"]} \cup unsynced[p] :
        /\ pte[v.root] # None
        /\ tlb' = [tlb EXCEPT ![p] =
                     @ \cup {[root |-> v.root, asid |-> v.asid, frame |-> pte[v.root]]}]
  BY DEF TlbFill
<1>2. UNCHANGED <<pte, ttbr, unsynced, tlbi, lock, program, leaving>>
  BY DEF TlbFill, spaces
<1> DEFINE e == [root |-> v.root, asid |-> v.asid, frame |-> pte[v.root]]
<1>3. e.root = v.root /\ e.frame = pte[v.root] /\ tlb'[p] = tlb[p] \cup {e}
  BY <1>1 DEF TypeOK
<1>4. v.root \notin {Kernel, Global} /\ (v.root = Boot => e.frame = BootFrame)
  BY <1>1, <1>3 DEF FixedTables
<1> HIDE DEF e
<1>5. Settled(p) => Settled(p)' /\ v.root \in Spaces
  BY <1>1, <1>2, <1>3, <1>4 DEF Settled, UserRoots
<1>6. CASE lock # p
  <2>1. unsynced[p] = {}
    BY <1>6 DEF Stands
  <2>2. Untouched(p) => Untouched(p)'
    BY <1>1, <1>2, <1>3, <1>4, <2>1 DEF Untouched
  <2> QED
    BY <1>2, <1>5, <1>6, <2>1, <2>2 DEF Stands
<1>7. CASE lock = p /\ Activating(p)
  <2>1. PICK n \in 0 .. 11 : Milestone(p, n)
    BY <1>7 DEF Activating
  <2>2. Left(activate_kernel_vspace, n)'
    BY <1>2, <2>1 DEF Milestone, Left
  <2>3. v.root = Boot
    BY <1>1, <1>4, <2>1 DEF Milestone
  <2>4. n > 4
    BY <1>1, <2>1, <2>3, Names DEF Milestone, UserRoots
  <2>5. Milestone(p, n)'
    BY <1>2, <1>3, <1>4, <2>1, <2>2, <2>3, <2>4 DEF Milestone
  <2> QED
    BY <1>2, <1>7, <2>5 DEF Activating, Stands
<1>8. CASE lock = p /\ Settled(p) /\ Switching(p)
  <2>1. \E r \in UserRoots : SwitchLeft(r)'
    <3>1. ASSUME NEW r PROVE SwitchLeft(r) => SwitchLeft(r)'
      BY <1>2 DEF SwitchLeft, Switches, Left
    <3> QED
      BY <1>8, <3>1 DEF Switching
  <2>2. Len(program) <= 2 => v.root \in {ttbr[p]["ttbr0"].root, leaving}
    <3>1. v.root # Kernel
      BY <1>4
    <3> QED
      BY <1>1, <1>8, <3>1, OfOne DEF Switching, Settled
  <2>3. Len(program) <= 2 /\ Fresh(p) => Fresh(p)'
    BY <1>2, <1>3, <2>2 DEF Fresh
  <2>4. Len(program) <= 1 => Len(program) <= 2
    BY OfOne
  <2>5. Switching(p)'
    BY <1>2, <1>8, <2>1, <2>3, <2>4 DEF Switching
  <2> QED
    BY <1>2, <1>5, <1>8, <2>5 DEF Stands
<1>9. CASE lock = p /\ Settled(p) /\ Working(p)
  BY <1>2, <1>5, <1>9 DEF Working, Stands
<1> QED
  BY <1>6, <1>7, <1>8, <1>9 DEF Stands

LEMMA Returns ==
  ASSUME TypeOK, NEW p \in Procs, Stands(p), Return(p)
  PROVE  Stands(p)'
<1>1. /\ lock = p /\ lock' = None /\ p # None /\ Len(program) = 0
      /\ UNCHANGED <<ttbr, unsynced, tlb>>
  BY Names DEF Return
<1>2. Settled(p)' <=> Settled(p)
  BY <1>1 DEF Settled
<1>3. CASE Activating(p)
  <2>1. PICK n \in 0 .. 11 : Milestone(p, n)
    BY <1>3 DEF Activating
  <2>2. n = 0
    BY <1>1, <2>1 DEF Milestone, Left
  <2>3. Settled(p) /\ unsynced[p] = {}
    BY <2>1, <2>2 DEF Milestone, Settled, UserRoots
  <2> QED
    BY <1>1, <1>2, <2>3 DEF Stands
<1>4. Switching(p) \/ Working(p) => unsynced[p] = {}
  BY <1>1 DEF Switching, Working
<1> QED
  BY <1>1, <1>2, <1>3, <1>4 DEF Stands

\* What a processor that enters the kernel is about to do.
Begins(p, s, from) ==
  \/ ~ Active(p) /\ s = activate_kernel_vspace /\ from = Boot
  \/ Active(p) /\ from = ttbr[p]["ttbr0"].root /\ \E r \in UserRoots : Switches(s, r)
  \/ Active(p) /\ from = None /\ Works(s)

LEMMA Enters ==
  ASSUME TypeOK, NEW p \in Procs, Stands(p), NEW s, NEW from, Enter(p, s, from),
         Begins(p, s, from)
  PROVE  Stands(p)'
<1>1. /\ lock = None /\ lock' = p /\ program' = s /\ leaving' = from /\ p # None
      /\ UNCHANGED <<ttbr, unsynced, tlb, tlbi>>
  BY Names DEF Enter
<1>2. unsynced[p] = {} /\ (Untouched(p) \/ Settled(p))
  BY <1>1 DEF Stands
<1>3. CASE ~ Active(p) /\ s = activate_kernel_vspace /\ from = Boot
  <2>1. Untouched(p)
    BY <1>2, <1>3, Names DEF Active, Settled
  <2>2. Left(activate_kernel_vspace, 11)'
    BY <1>1, <1>3, ActivateKernelVspace DEF Left
  <2>3. Milestone(p, 11)'
    BY <1>1, <1>2, <2>1, <2>2 DEF Milestone, Untouched
  <2> QED
    BY <1>1, <1>3, <2>3 DEF Activating, Stands
<1>4. ASSUME Active(p)
      PROVE  Settled(p)' /\ ttbr[p]["ttbr0"].root \in UserRoots
  <2>1. Settled(p)
    BY <1>2, <1>4 DEF Untouched, Active
  <2> QED
    BY <1>1, <2>1 DEF Settled
<1>5. CASE Active(p) /\ from = ttbr[p]["ttbr0"].root /\ \E r \in UserRoots : Switches(s, r)
  <2>1. PICK r \in UserRoots : Switches(s, r)
    BY <1>5
  <2>2. SwitchLeft(r)'
    BY <1>1, <2>1 DEF SwitchLeft
  <2>3. Len(program') >= 4 /\ Len(program') \in Nat
    BY <1>1, <2>1, Elements DEF Switches
  <2>4. Switching(p)'
    BY <1>1, <1>2, <1>4, <1>5, <2>2, <2>3 DEF Switching
  <2> QED
    BY <1>1, <1>4, <1>5, <2>4 DEF Stands
<1>6. CASE Active(p) /\ from = None /\ Works(s)
  <2>1. Working(p)'
    BY <1>1, <1>2, <1>6 DEF Working, Works
  <2> QED
    BY <1>1, <1>4, <1>6, <2>1 DEF Stands
<1> QED
  BY <1>3, <1>5, <1>6 DEF Begins

------------------------------------------------------------------------------
(* The operations.                                                         *)

LEMMA Orders ==
  ASSUME TypeOK, NEW flushed \in SetToSeqs(bound)
  PROVE  flushed \in Seq(Spaces)
<1>1. bound \subseteq Spaces /\ IsFiniteSet(Spaces)
  BY ArmTlbAssumption DEF TypeOK
<1>2. Cardinality(bound) \in Nat
  BY <1>1, FS_Subset, FS_CardinalityType
<1>3. flushed \in [1 .. Cardinality(bound) -> Spaces]
  BY <1>1 DEF SetToSeqs
<1> HIDE DEF Cardinality
<1> QED
  BY <1>2, <1>3

Operation(p) ==
  \/ ActivateKernel(p)
  \/ \E r \in caps \cup {Global} :
       \/ SwitchThread(p, r)
       \/ \E s \in caps : DeleteAsid(p, s, r)
       \/ DeleteAsidPool(p, r)
  \/ \E s \in Spaces :
       \/ \E f \in Frames : MapPage(p, s, f) \/ RemapPage(p, s, f)
       \/ UnmapPage(p, s)

\* An operation is one of three sorts, and the tables change as little.
LEMMA Operations ==
  ASSUME TypeOK, NEW p \in Procs, Operation(p)
  PROVE  /\ \E s, from : Enter(p, s, from) /\ Begins(p, s, from)
         /\ pte' = pte /\ bound' \subseteq caps' /\ caps' \subseteq caps
<1>1. \A r \in caps \cup {Global} : r \in UserRoots
  BY DEF TypeOK, UserRoots
<1>2. bound \subseteq caps /\ caps \subseteq Spaces
  BY DEF TypeOK
<1>3. ASSUME NEW before, Maintains(before), NEW r \in UserRoots, Switch(p, before, r)
      PROVE  \E s, from : Enter(p, s, from) /\ Begins(p, s, from)
  BY <1>3, SwitchProgram DEF Switch, Begins
<1>4. ASSUME NEW s, Works(s), Active(p), Enter(p, s, None)
      PROVE  \E t, from : Enter(p, t, from) /\ Begins(p, t, from)
  BY <1>4 DEF Begins
<1>5. CASE ActivateKernel(p)
  BY <1>2, <1>5 DEF ActivateKernel, Begins, spaces
<1>6. ASSUME NEW r \in caps \cup {Global}, SwitchThread(p, r)
      PROVE  /\ \E s, from : Enter(p, s, from) /\ Begins(p, s, from)
             /\ pte' = pte /\ bound' \subseteq caps' /\ caps' \subseteq caps
  BY <1>1, <1>2, <1>3, <1>6, Nothing DEF SwitchThread, spaces
<1>7. ASSUME NEW r \in caps \cup {Global}, NEW a \in caps, DeleteAsid(p, a, r)
      PROVE  /\ \E s, from : Enter(p, s, from) /\ Begins(p, s, from)
             /\ pte' = pte /\ bound' \subseteq caps' /\ caps' \subseteq caps
  <2>1. Maintains(invalidate_local_tlb_asid(a))
    BY <1>2, LocalInvalidation DEF invalidate_local_tlb_asid
  <2>2. pte' = pte /\ bound' \subseteq caps' /\ caps' \subseteq caps
    BY <1>2, <1>7 DEF DeleteAsid
  <2>3. Switch(p, invalidate_local_tlb_asid(a), r) \/ (Active(p) /\ Enter(p, <<>>, None))
    BY <1>7 DEF DeleteAsid
  <2>4. Works(<<>>)
    BY Nothing, MaintenanceWorks
  <2> QED
    BY <1>1, <1>3, <1>4, <2>1, <2>2, <2>3, <2>4
<1>8. ASSUME NEW r \in caps \cup {Global}, DeleteAsidPool(p, r)
      PROVE  /\ \E s, from : Enter(p, s, from) /\ Begins(p, s, from)
             /\ pte' = pte /\ bound' \subseteq caps' /\ caps' \subseteq caps
  <2>1. PICK flushed \in SetToSeqs(bound) :
          LET Turn(n) == invalidate_local_tlb_asid(flushed[(n + 3) \div 4])
          IN  Switch(p, [n \in 1 .. 4 * Len(flushed) |-> Turn(n)[((n - 1) % 4) + 1]], r)
    BY <1>8 DEF DeleteAsidPool
  <2>2. flushed \in Seq(Spaces)
    BY Orders
  <2> DEFINE Turn(n) == invalidate_local_tlb_asid(flushed[(n + 3) \div 4])
             before == [n \in 1 .. 4 * Len(flushed) |-> Turn(n)[((n - 1) % 4) + 1]]
  <2>3. Maintains(before)
    BY <2>2, PoolInvalidation
  <2>4. Switch(p, before, r)
    BY <2>1
  <2> HIDE DEF before
  <2>5. \E s, from : Enter(p, s, from) /\ Begins(p, s, from)
    BY <1>1, <1>3, <2>3, <2>4
  <2> QED
    BY <1>2, <1>8, <2>5 DEF DeleteAsidPool
<1>9. ASSUME NEW a \in Spaces, NEW f \in Frames, MapPage(p, a, f) \/ RemapPage(p, a, f)
      PROVE  /\ \E s, from : Enter(p, s, from) /\ Begins(p, s, from)
             /\ pte' = pte /\ bound' \subseteq caps' /\ caps' \subseteq caps
  <2>1. Works(update(a, f)) /\ Works(update(a, f) \o invalidate_tlb_by_asid_va(a))
    BY UpdateWorks, InvalidationWorks, WorksJoined
  <2> QED
    BY <1>2, <1>4, <1>9, <2>1 DEF MapPage, RemapPage, spaces
<1>10. ASSUME NEW a \in Spaces, UnmapPage(p, a)
       PROVE  /\ \E s, from : Enter(p, s, from) /\ Begins(p, s, from)
              /\ pte' = pte /\ bound' \subseteq caps' /\ caps' \subseteq caps
  <2>1. Works(update(a, None) \o invalidate_tlb_by_asid(a))
    BY UpdateWorks, InvalidationWorks, WorksJoined
  <2> QED
    BY <1>2, <1>4, <1>10, <2>1 DEF UnmapPage, spaces
<1> QED
  BY <1>5, <1>6, <1>7, <1>8, <1>9, <1>10 DEF Operation

LEMMA Programs ==
  ASSUME TypeOK, NEW p \in Procs, NEW s, NEW from, Begins(p, s, from)
  PROVE  s \in Seq(Instruction) /\ Waits(s) /\ from \in Roots \cup {None}
<1>1. ttbr[p]["ttbr0"].root \in Roots
  BY OfOne
<1> QED
  BY <1>1, ActivateKernelVspace, Names DEF Begins, Switches, Works

------------------------------------------------------------------------------
(* The invariant.                                                          *)

LEMMA Starts == Init => IInv
<1> SUFFICES ASSUME Init PROVE IInv
  OBVIOUS
<1>1. /\ pte = [r \in Roots |-> IF r = Boot THEN BootFrame ELSE None]
      /\ bound = {} /\ caps = {} /\ tlbi = None /\ lock = None /\ program = <<>>
      /\ leaving = None /\ pending = {}
      /\ \A p \in Procs : unsynced[p] = {} /\ tlb[p] = {}
           /\ ttbr[p]["ttbr0"].root = Boot /\ ttbr[p]["ttbr1"].root = Boot
  BY DEF Init, ttbr_new
<1>2. TypeOK
  <2>1. ttbr_new(NoAsid, Boot) \in TTBR
    BY Names, Instructions
  <2>2. program \in Seq(Instruction)
    BY <1>1
  <2> QED
    BY <2>1, <2>2 DEF Init, TypeOK
<1>3. FixedTables
  BY <1>1, Names DEF FixedTables, UserRoots
<1>4. Awaited
  BY <1>1, Nothing DEF Awaited, Maintains
<1>5. \A p \in Procs : Stands(p)
  BY <1>1, Names DEF Stands, Untouched
<1> QED
  BY <1>2, <1>3, <1>4, <1>5 DEF IInv

LEMMA Binds ==
  ASSUME IInv, NEW s \in Spaces, BindSpace(s)
  PROVE  IInv'
<1>1. /\ lock = None /\ bound' = bound \cup {s} /\ caps' = caps \cup {s}
      /\ pte' = [pte EXCEPT ![s] = None]
      /\ UNCHANGED <<ttbr, unsynced, tlb, tlbi, lock, program, leaving, pending>>
  BY DEF BindSpace
<1>2. TypeOK'
  BY <1>1 DEF IInv, TypeOK
<1>3. FixedTables'
  BY <1>1, Names DEF IInv, TypeOK, FixedTables, UserRoots
<1>4. Awaited'
  BY <1>1 DEF IInv, Awaited, Waits
<1>5. ASSUME NEW q \in Procs PROVE Stands(q)'
  BY <1>1, Quiet, Names DEF IInv
<1> QED
  BY <1>2, <1>3, <1>4, <1>5 DEF IInv

LEMMA Operates ==
  ASSUME IInv, NEW p \in Procs, Operation(p)
  PROVE  IInv'
<1>1. TypeOK
  BY DEF IInv
<1>2. PICK s, from : Enter(p, s, from) /\ Begins(p, s, from)
  BY <1>1, Operations
<1>3. pte' = pte /\ bound' \subseteq caps' /\ caps' \subseteq Spaces
  BY <1>1, Operations DEF TypeOK
<1>4. s \in Seq(Instruction) /\ Waits(s) /\ from \in Roots \cup {None}
  BY <1>1, <1>2, Programs
<1>5. /\ lock = None /\ lock' = p /\ program' = s /\ leaving' = from /\ tlbi = None
      /\ UNCHANGED <<ttbr, unsynced, tlb, tlbi, pending>>
  BY <1>1, <1>2 DEF Enter, TypeOK
<1>6. TypeOK'
  BY <1>1, <1>3, <1>4, <1>5, Names DEF TypeOK
<1>7. FixedTables' /\ Awaited'
  BY <1>3, <1>4, <1>5 DEF IInv, FixedTables, Awaited, Waits
<1>8. Stands(p)'
  BY <1>1, <1>2, Enters DEF IInv
<1>9. ASSUME NEW q \in Procs \ {p} PROVE Stands(q)'
  BY <1>5, Quiet, Names DEF IInv
<1> QED
  BY <1>6, <1>7, <1>8, <1>9 DEF IInv

LEMMA ExecutesTyped ==
  ASSUME TypeOK, NEW p \in Procs, Executes(p)
  PROVE  TypeOK'
<1>1. ASSUME NEW name, At(p, name)
      PROVE  program' \in Seq(Instruction) /\ lock # None
             /\ program[1] \in Instruction /\ program[1][1] = name /\ Operand = program[1][2]
  BY <1>1, Steps, Names
<1>2. CASE \E r \in {"ttbr0", "ttbr1"} : WriteTTBR(p, r)
  <2>1. PICK r \in {"ttbr0", "ttbr1"} : WriteTTBR(p, r)
    BY <1>2
  <2>2. Operand \in TTBR
    BY <1>1, <2>1, Operands DEF WriteTTBR
  <2> QED
    BY <1>1, <2>1, <2>2 DEF WriteTTBR, TypeOK, spaces
<1>3. CASE IssueTlbi(p)
  <2>1. Operand \in {All} \cup Spaces
    BY <1>1, <1>3, Operands DEF IssueTlbi
  <2> QED
    BY <1>1, <1>3, <2>1 DEF IssueTlbi, TypeOK, spaces
<1>4. CASE Store(p)
  <2>1. Operand[1] \in Spaces /\ Operand[2] \in Frames \cup {None}
    BY <1>1, <1>4, Operands DEF Store
  <2> QED
    BY <1>1, <1>4, <2>1 DEF Store, TypeOK, Roots
<1>5. CASE Dsb(p) \/ Wait(p)
  BY <1>1, <1>5 DEF Dsb, Wait, TypeOK, spaces
<1>6. CASE Isb(p)
  BY <1>1, <1>6 DEF Isb, TypeOK, spaces
<1>7. CASE RemoteInvalidate(p)
  BY <1>1, <1>7 DEF RemoteInvalidate, TypeOK, spaces
<1> QED
  BY <1>2, <1>3, <1>4, <1>5, <1>6, <1>7 DEF Executes

LEMMA ExecutesAwaited ==
  ASSUME TypeOK, Awaited, NEW p \in Procs, Executes(p)
  PROVE  Awaited'
<1>1. PICK name : At(p, name) /\ (name = "tlbi" \/ tlbi' = tlbi) /\ (name = "dsb" => tlbi = None)
  BY DEF Executes, WriteTTBR, IssueTlbi, Dsb, Isb, Store, RemoteInvalidate, Wait
<1>2. Waits(program')
  <2>1. program \in Seq(Instruction) /\ program # <<>> /\ program' = Tail(program)
    BY <1>1 DEF TypeOK, At
  <2> QED
    BY <2>1, WaitsTail DEF Awaited
<1>3. /\ program[1][1] = name /\ Len(program) \in Nat \ {0} /\ DOMAIN program = 1 .. Len(program)
      /\ DOMAIN program' = 1 .. Len(program) - 1
      /\ \A i \in 1 .. Len(program) - 1 : program'[i] = program[i + 1]
  BY <1>1, Steps
<1>4. ASSUME NEW j \in DOMAIN program, program[j][1] = "dsb", j # 1
      PROVE  \E i \in DOMAIN program' : program'[i][1] = "dsb"
  <2> DEFINE i == j - 1
  <2>1. i \in 1 .. Len(program) - 1 /\ i + 1 = j
    BY <1>3, <1>4
  <2> HIDE DEF i
  <2> QED
    BY <1>3, <1>4, <2>1
<1>5. tlbi' # None => \E i \in DOMAIN program' : program'[i][1] = "dsb"
  <2>1. CASE name = "tlbi"
    <3>1. PICK j \in DOMAIN program : 1 < j /\ program[j][1] = "dsb"
      BY <1>3, <2>1 DEF Awaited, Waits
    <3>2. j # 1
      BY <1>3, <3>1
    <3> QED
      BY <1>4, <3>1, <3>2
  <2>2. CASE name # "tlbi" /\ tlbi # None
    <3>1. PICK j \in DOMAIN program : program[j][1] = "dsb"
      BY <2>2 DEF Awaited
    <3>2. j # 1
      BY <1>1, <1>3, <2>2, <3>1
    <3> QED
      BY <1>4, <3>1, <3>2
  <2> QED
    BY <1>1, <2>1, <2>2
<1> QED
  BY <1>2, <1>5 DEF Awaited

LEMMA ExecutesInstruction ==
  ASSUME IInv, NEW p \in Procs, Executes(p)
  PROVE  IInv'
<1>1. TypeOK /\ FixedTables /\ Awaited /\ Waits(program) /\ Stands(p)
  BY DEF IInv, Awaited
<1>2. TypeOK' /\ Awaited'
  BY <1>1, ExecutesTyped, ExecutesAwaited
<1>3. PICK name : At(p, name) /\ lock' = lock
  BY DEF Executes, WriteTTBR, IssueTlbi, Dsb, Isb, Store, RemoteInvalidate, Wait
<1>4. lock = p
  BY <1>3 DEF At
<1>5. FixedTables'
  <2>1. CASE Store(p)
    <3>1. Operand[1] \in Spaces /\ pte' = [pte EXCEPT ![Operand[1]] = Operand[2]]
      BY <1>1, <2>1, Steps, Operands DEF Store
    <3> QED
      BY <1>1, <3>1, Names DEF TypeOK, FixedTables, UserRoots
  <2>2. CASE ~ Store(p)
    <3>1. pte' = pte
      BY <2>2 DEF Executes, WriteTTBR, IssueTlbi, Dsb, Isb, RemoteInvalidate, Wait, spaces
    <3> QED
      BY <1>1, <3>1 DEF FixedTables
  <2> QED
    BY <2>1, <2>2
<1>6. Stands(p)'
  BY <1>1, <1>3, <1>4, ActivatingExecutes, SwitchingExecutes, WorkingExecutes DEF Stands
<1>7. ASSUME NEW q \in Procs \ {p} PROVE Stands(q)'
  <2>1. ttbr'[q] = ttbr[q] /\ unsynced'[q] = unsynced[q] /\ tlb' = tlb
    BY <1>1, <1>7
       DEF Executes, WriteTTBR, IssueTlbi, Dsb, Isb, Store, RemoteInvalidate, Wait, TypeOK
  <2> QED
    BY <1>3, <1>4, <2>1, Quiet DEF IInv
<1> QED
  BY <1>2, <1>5, <1>6, <1>7 DEF IInv

LEMMA ReturnsToThread ==
  ASSUME IInv, NEW p \in Procs, Return(p)
  PROVE  IInv'
<1>1. TypeOK /\ FixedTables /\ Awaited
  BY DEF IInv
<1>2. /\ lock = p /\ lock' = None /\ leaving' = None /\ program = <<>>
      /\ UNCHANGED <<pte, bound, caps, ttbr, unsynced, tlb, tlbi, program, pending>>
  BY DEF Return, spaces
<1>3. tlbi = None
  <2>1. DOMAIN program = {}
    BY <1>2
  <2> QED
    BY <1>1, <2>1 DEF Awaited
<1>4. TypeOK'
  BY <1>1, <1>2, <1>3 DEF TypeOK
<1>5. FixedTables' /\ Awaited'
  BY <1>1, <1>2 DEF FixedTables, Awaited, Waits
<1>6. Stands(p)'
  BY <1>1, Returns DEF IInv
<1>7. ASSUME NEW q \in Procs \ {p} PROVE Stands(q)'
  BY <1>2, Quiet, Names DEF IInv
<1> QED
  BY <1>4, <1>5, <1>6, <1>7 DEF IInv

\* Nothing but the entries of one processor and a pending invalidation changes.
LEMMA InBackground ==
  ASSUME IInv, NEW p \in Procs, CompleteTlbi(p) \/ RemoteAnswer(p) \/ TlbFill(p)
  PROVE  IInv'
<1>1. TypeOK /\ FixedTables /\ Awaited
  BY DEF IInv
<1>2. /\ UNCHANGED <<pte, bound, caps, ttbr, unsynced, lock, program, leaving>>
      /\ tlbi' \in {None, tlbi} /\ pending' \subseteq pending
      /\ \A q \in Procs \ {p} : tlb'[q] = tlb[q]
      /\ tlbi' = tlbi \/ lock = p
  BY <1>1 DEF CompleteTlbi, RemoteAnswer, TlbFill, TypeOK, spaces
<1>3. tlb' \in [Procs -> SUBSET Entry]
  <2>1. CASE CompleteTlbi(p)
    BY <1>1, <2>1 DEF CompleteTlbi, Without, TypeOK
  <2>2. CASE RemoteAnswer(p)
    <3> HIDE DEF Operand
    <3> QED
      BY <1>1, <2>2 DEF RemoteAnswer, Without, TypeOK
  <2>3. CASE TlbFill(p)
    <3>1. PICK v \in {ttbr[p]["ttbr0"], ttbr[p]["ttbr1"]} \cup unsynced[p] :
            /\ pte[v.root] # None
            /\ tlb' = [tlb EXCEPT ![p] =
                         @ \cup {[root |-> v.root, asid |-> v.asid, frame |-> pte[v.root]]}]
      BY <2>3 DEF TlbFill
    <3>2. v \in TTBR
      BY <1>1, <3>1, OfOne
    <3>3. pte[v.root] \in Frames \cup {BootFrame}
      BY <1>1, <3>1, <3>2 DEF TypeOK, TTBR
    <3>4. [root |-> v.root, asid |-> v.asid, frame |-> pte[v.root]] \in Entry
      BY <3>2, <3>3 DEF TTBR, Entry
    <3> QED
      BY <1>1, <3>1, <3>4 DEF TypeOK
  <2> QED
    BY <2>1, <2>2, <2>3
<1>4. TypeOK'
  BY <1>1, <1>2, <1>3 DEF TypeOK
<1>5. FixedTables' /\ Awaited'
  BY <1>1, <1>2 DEF FixedTables, Awaited, Waits
<1>6. Stands(p)'
  <2>1. CASE RemoteAnswer(p)
    <3>1. lock # p /\ tlb'[p] \subseteq tlb[p]
      BY <1>1, <2>1 DEF RemoteAnswer, Without, TypeOK
    <3> QED
      BY <1>2, <3>1, Quiet DEF IInv
  <2> QED
    BY <1>1, <2>1, Completes, Fills DEF IInv
<1>7. ASSUME NEW q \in Procs \ {p} PROVE Stands(q)'
  <2>1. CASE lock # q
    BY <1>2, <2>1, Quiet DEF IInv
  <2>2. CASE lock = q
    BY <1>2, <2>2, Unmoved DEF IInv
  <2> QED
    BY <2>1, <2>2
<1> QED
  BY <1>4, <1>5, <1>6, <1>7 DEF IInv

\* The state stays where the invariant says, whatever the number of processors,
\* spaces and frames.
THEOREM Invariant == Spec => []IInv
<1>1. IInv /\ [Next]_vars => IInv'
  <2> SUFFICES ASSUME IInv, [Next]_vars PROVE IInv'
    OBVIOUS
  <2>1. ASSUME NEW s \in Spaces, BindSpace(s) PROVE IInv'
    BY <2>1, Binds
  <2>2. ASSUME NEW p \in Procs, Operation(p) PROVE IInv'
    BY <2>2, Operates
  <2>3. ASSUME NEW p \in Procs, Execute(p) PROVE IInv'
    BY <2>3, ExecutesInstruction, ReturnsToThread DEF Execute, Executes
  <2>4. ASSUME NEW p \in Procs, CompleteTlbi(p) \/ RemoteAnswer(p) \/ TlbFill(p)
        PROVE  IInv'
    BY <2>4, InBackground
  <2>5. CASE UNCHANGED vars
    <3>1. /\ UNCHANGED <<pte, bound, caps, ttbr, unsynced, tlb, tlbi, lock>>
          /\ UNCHANGED <<program, leaving, pending>>
      BY <2>5 DEF vars
    <3>2. TypeOK' /\ FixedTables' /\ Awaited'
      BY <3>1 DEF IInv, TypeOK, FixedTables, Awaited, Waits
    <3>3. ASSUME NEW q \in Procs PROVE Stands(q)'
      BY <3>1, Unmoved DEF IInv
    <3> QED
      BY <3>2, <3>3 DEF IInv
  <2> QED
    BY <2>1, <2>2, <2>3, <2>4, <2>5 DEF Next, Operation
<1> QED
  BY <1>1, Starts, PTL DEF Spec

------------------------------------------------------------------------------
(* What it means for the TLB.                                              *)

\* Every operation keeps the registers, the TLB and the rest of the program
\* of the right kind.
THEOREM TypeCorrect == Spec => []TypeOK
<1>1. IInv => TypeOK
  BY DEF IInv
<1> QED
  BY <1>1, Invariant, PTL

\* Once activate_kernel_vspace has returned, and at any time afterwards, the
\* processor has no entry of the boot loader's tables.
THEOREM BootTablesStayForgotten == Spec => []BootTablesForgotten
<1>1. IInv => BootTablesForgotten
  <2> SUFFICES ASSUME IInv, NEW p \in Procs, Active(p), lock # p, NEW e \in tlb[p]
               PROVE  e.root # Boot
    BY DEF BootTablesForgotten
  <2>1. Settled(p)
    BY DEF IInv, Stands, Untouched, Active
  <2> QED
    BY <2>1, Names DEF Settled, UserRoots
<1> QED
  BY <1>1, Invariant, PTL

\* At its end a switch leaves a fresh TLB.
LEMMA SwitchEnds ==
  ASSUME IInv, [Next]_vars, NEW p \in Procs, Switched(p)
  PROVE  Fresh(p)
<1>1. TypeOK /\ lock = p /\ lock' = None /\ p # None /\ leaving # None /\ Stands(p)
  BY Names DEF IInv, Switched
<1>2. program = <<>>
  <2>1. ASSUME NEW q \in Procs, Operation(q) PROVE FALSE
    <3>1. \E s, from : Enter(q, s, from)
      BY <1>1, <2>1, Operations
    <3> QED
      BY <1>1, <3>1 DEF Enter
  <2>2. ASSUME NEW q \in Procs, Executes(q) PROVE FALSE
    BY <1>1, <2>2 DEF Executes, WriteTTBR, IssueTlbi, Dsb, Isb, Store, RemoteInvalidate, Wait
  <2>3. ASSUME NEW q \in Procs, CompleteTlbi(q) \/ RemoteAnswer(q) \/ TlbFill(q) PROVE FALSE
    BY <1>1, <2>3 DEF CompleteTlbi, RemoteAnswer, TlbFill
  <2>4. ASSUME NEW s \in Spaces, BindSpace(s) PROVE FALSE
    BY <1>1, <2>4 DEF BindSpace
  <2>5. lock' # lock
    BY <1>1
  <2>6. PICK q \in Procs : Return(q)
    BY <2>1, <2>2, <2>3, <2>4, <2>5 DEF Next, Operation, Execute, Executes, vars
  <2> QED
    BY <2>6 DEF Return
<1>3. Len(program) = 0
  BY <1>2
<1>4. CASE Activating(p)
  <2>1. PICK n \in 0 .. 11 : Milestone(p, n)
    BY <1>4 DEF Activating
  <2>2. tlb[p] = {}
    BY <1>3, <2>1 DEF Milestone, Left
  <2> QED
    BY <2>2 DEF Fresh
<1>5. CASE Switching(p)
  BY <1>3, <1>5 DEF Switching
<1> QED
  BY <1>1, <1>4, <1>5 DEF Stands, Working

\* A processor that has switched holds entries of the space it is in and of the
\* one it has just left only, however many it has been in before.
THEOREM SwitchesForget == Spec => SwitchForgetsEarlierSpaces
<1>1. IInv /\ [Next]_vars =>
        \A p \in Procs : Switched(p) =>
          \A e \in tlb[p] : e.root \in {ttbr[p]["ttbr0"].root, leaving}
  BY SwitchEnds DEF Fresh
<1> QED
  BY <1>1, Invariant, PTL DEF Spec, SwitchForgetsEarlierSpaces

\* And every one of them is what the tables say now, so that no unmapped page is
\* reached through it, though the invalidations by ASID have missed it.
THEOREM SwitchesForgetUnmapped == Spec => SwitchForgetsUnmappedPages
<1>1. IInv /\ [Next]_vars =>
        \A p \in Procs : Switched(p) => \A e \in tlb[p] : e.frame = pte[e.root]
  BY SwitchEnds DEF Fresh
<1> QED
  BY <1>1, Invariant, PTL DEF Spec, SwitchForgetsUnmappedPages
===============================================================================
