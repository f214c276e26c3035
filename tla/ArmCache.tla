------------------------------- MODULE ArmCache -------------------------------
(***************************************************************************)
(* Cache maintenance on AArch64, line by line.                             *)
(*                                                                         *)
(*   src/arch/aarch64/interface.rs  do_flush                               *)
(*   src/arch/aarch64/machine.rs    the range operations, the operations   *)
(*                                  on a line, clean_invalidate_l1_caches  *)
(*                                                                         *)
(* A byte is 0 or 1.  The CPU writes bytes that it shares with nobody, a   *)
(* device the Dma bytes, in memory and at any time; lines are filled and   *)
(* evicted at any time.  As in ArmTlb a function is the sequence of its    *)
(* instructions.  An operation on the data cache takes effect as late as   *)
(* the next dsb; those issued one after the other take effect in order.    *)
(* The processor that flushes executes nothing else meanwhile: one         *)
(* processor, or the others do not write to the lines of the range.        *)
(***************************************************************************)
EXTENDS Integers, SequencesExt

CONSTANTS
  Lines,     \* number of lines of memory
  LineSize,  \* bit!(CONFIG_L1_CACHE_LINE_SIZE_BITS), bytes of a line
  Dma,       \* the bytes that a device writes
  WordBits,  \* 32, the width of the operand of dc cisw
  LoC,       \* CLIDR_EL1.LoC, the number of data cache levels
  Ctype,     \* CLIDR_EL1.Ctype of each level
  Ccsidr,    \* CCSIDR_EL1 of each level: fields [line, ways, sets]
  None       \* no line, no operation, no operand

Bytes  == 0 .. Lines * LineSize - 1
Levels == 0 .. LoC - 1

\* The accessors of the two registers.  read_cache_size writes the level to
\* CSSELR_EL1 and reads CCSIDR_EL1 with no isb in between; that the read sees the
\* write is assumed of the processor here, the architecture does not promise it.
loc        == LoC
ctype(l)   == Ctype[l]
read_cache_size(l) == Ccsidr[l]
line_bits(l) == read_cache_size(l).line + 4
assoc(l)   == read_cache_size(l).ways + 1
nsets(l)   == read_cache_size(l).sets + 1
ARMCacheI  == 1

\* bit!(n), by which a shift to the left multiplies.
bit[n \in Nat] == IF n = 0 THEN 1 ELSE 2 * bit[n - 1]

\* 64 - leading_zeros(n): the bits it takes to write n.
BitsOf(n) == CHOOSE b \in 0 .. WordBits : n < bit[b] /\ (b = 0 \/ bit[b - 1] <= n)

LINE_INDEX(a) == a \div LineSize
LINE_START(a) == LINE_INDEX(a) * LineSize
BytesOf(line) == line * LineSize .. (line + 1) * LineSize - 1

\* Where the boot loader's data lies in the data caches; later nobody asks.
Slots == UNION {[level : {l}, way : 0 .. assoc(l) - 1, set : 0 .. nsets(l) - 1] :
                  l \in {m \in Levels : ctype(m) > ARMCacheI}}
Fits(line, slot) == slot.set = line % nsets(slot.level)

Labels == {"Clean_Data", "Invalidate_Data", "CleanInvalidate_Data", "Unify_Instruction"}

Code(line)   == [BytesOf(line) \ Dma -> {0, 1}]
Data(line)   == [BytesOf(line) -> {0, 1}]
Cached(line) == [data : Data(line), dirty : BOOLEAN, slot : Slots \cup {None}]
Operation    == [label : Labels \cup {"boot"}, range : SUBSET Bytes, delivered : SUBSET Dma]

\* The three fields of an operand of dc cisw fit side by side in its word, which
\* is the architecture's part of the bargain.
OperandFits(l) ==
  /\ assoc(l) <= bit[WordBits] /\ nsets(l) <= bit[WordBits]
  /\ BitsOf(assoc(l) - 1) + BitsOf(nsets(l) - 1) + line_bits(l) <= WordBits

ASSUME ArmCacheAssumption ==
  /\ Lines \in Nat \ {0} /\ LineSize \in Nat \ {0} /\ WordBits \in Nat
  /\ Dma \subseteq Bytes
  /\ LoC \in 0 .. 7 /\ Ctype \in [Levels -> 0 .. 7]
  /\ Ccsidr \in [Levels -> [line : Nat, ways : Nat, sets : Nat]]
  /\ \A l \in Levels : OperandFits(l)
  /\ None \notin Operation /\ \A line \in 0 .. Lines - 1 : None \notin Cached(line)

VARIABLES
  memory,   \* memory[a]
  dcache,   \* dcache[line]: data, dirty and slot, or None
  icache,   \* icache[line]: data, or None; no code is in the Dma bytes
  booted,   \* has the boot code cleaned the caches
  op,       \* the operation under way, or None
  program,  \* the instructions that it has yet to issue
  queue     \* operations on the data cache that have not taken effect

vars == <<memory, dcache, icache, booted, op, program, queue>>

Instruction  == {"dc cvac", "dc cvau", "dc ivac", "dc civac", "ic ivau"} \X (0 .. Lines - 1)
                  \cup {"dc cisw"} \X (0 .. bit[WordBits] - 1)
                  \cup {"dmb", "dsb", "isb", "ic iallu"} \X {None}

TypeOK ==
  /\ memory \in [Bytes -> {0, 1}]
  /\ \A line \in 0 .. Lines - 1 :
       /\ dcache[line] \in Cached(line) \cup {None}
       /\ icache[line] \in Code(line) \cup {None}
  /\ booted \in BOOLEAN /\ op \in Operation \cup {None}
  /\ program \in Seq(Instruction) /\ queue \in Seq(Instruction)
  /\ op = None => program = <<>> /\ queue = <<>>

InMemory(line) == [a \in BytesOf(line) |-> memory[a]]
Absent == [line \in 0 .. Lines - 1 |-> None]

\* The boot loader has left dirty lines at any level.
Init ==
  /\ memory = [a \in Bytes |-> 0]
  /\ icache = Absent
  /\ \E where \in [0 .. Lines - 1 -> Slots] :
       /\ \A l, m \in 0 .. Lines - 1 : Fits(l, where[l]) /\ (where[l] = where[m] => l = m)
       /\ dcache = [line \in 0 .. Lines - 1 |->
            [data |-> [a \in BytesOf(line) |-> IF a \in Dma THEN 0 ELSE 1],
             dirty |-> TRUE, slot |-> where[line]]]
  /\ booted = FALSE
  /\ op = None /\ program = <<>> /\ queue = <<>>

------------------------------------------------------------------------------
(* What each function executes.                                            *)

dmb == <<"dmb", None>>
dsb == <<"dsb", None>>
isb == <<"isb", None>>

clean_by_va_pou(line)    == <<<<"dc cvau", line>>, dmb>>
clean_by_va(line)        == <<<<"dc cvac", line>>, dmb>>
invalidate_by_va(line)   == <<<<"dc ivac", line>>, dmb>>
clean_inval_by_va(line)  == <<<<"dc civac", line>>, dsb>>
invalidate_by_va_i(line) == <<<<"ic ivau", line>>, dsb, isb>>

\* Mutant of LinesOf: the upper bound excluded.
LinesOf_exclusive(start, end) ==
  [i \in 1 .. LINE_INDEX(end) - LINE_INDEX(start) |-> LINE_INDEX(start) + i - 1]

\* LINE_INDEX(start)..LINE_INDEX(end) + 1, what every loop runs over.
LinesOf(start, end) ==
  [i \in 1 .. LINE_INDEX(end) + 1 - LINE_INDEX(start) |-> LINE_INDEX(start) + i - 1]

EachLine(Body(_), start, end) ==
  FlattenSeq([i \in DOMAIN LinesOf(start, end) |-> Body(LinesOf(start, end)[i])])

invalidate_cache_range_i(start, end) == EachLine(invalidate_by_va_i, start, end)
clean_cache_range_poc(start, end)    == EachLine(clean_by_va, start, end)
clean_cache_range_pou(start, end)    == EachLine(clean_by_va_pou, start, end)
clean_cache_range_ram(start, end)    == clean_cache_range_poc(start, end) \o <<dsb>>

clean_invalidate_cache_range_ram(start, end) ==
  clean_cache_range_poc(start, end) \o <<dsb>>
    \o EachLine(clean_inval_by_va, start, end) \o <<dsb>>

\* Mutants of invalidate_cache_range_ram: the end is taken for exclusive; the
\* last dsb is missing.
invalidate_cache_range_ram_end(start, end) ==
  (IF start # LINE_START(start) THEN clean_cache_range_ram(start, end) ELSE <<>>)
    \o (IF end # LINE_START(end) THEN clean_cache_range_ram(LINE_START(end), LINE_START(end))
        ELSE <<>>)
    \o EachLine(invalidate_by_va, start, end) \o <<dsb>>

invalidate_cache_range_ram_no_dsb(start, end) ==
  (IF start # LINE_START(start) THEN clean_cache_range_ram(start, end) ELSE <<>>)
    \o (IF end + 1 # LINE_START(end + 1)
        THEN clean_cache_range_ram(LINE_START(end), LINE_START(end))
        ELSE <<>>)
    \o EachLine(invalidate_by_va, start, end)

\* The lines at the ends may belong to others too and are cleaned first.  For
\* the one at the start the code cleans the whole range.
invalidate_cache_range_ram(start, end) ==
  (IF start # LINE_START(start) THEN clean_cache_range_ram(start, end) ELSE <<>>)
    \o (IF end + 1 # LINE_START(end + 1)
        THEN clean_cache_range_ram(LINE_START(end), LINE_START(end))
        ELSE <<>>)
    \o EachLine(invalidate_by_va, start, end) \o <<dsb>>

\* Mutant of do_flush: no dsb between the two halves of the last case.
do_flush_no_dsb(label, start, end) ==
  CASE label = "Clean_Data"           -> clean_cache_range_ram(start, end)
    [] label = "Invalidate_Data"      -> invalidate_cache_range_ram(start, end)
    [] label = "CleanInvalidate_Data" -> clean_invalidate_cache_range_ram(start, end)
    [] label = "Unify_Instruction"    ->
         clean_cache_range_pou(start, end)
           \o invalidate_cache_range_i(start, end) \o <<isb>>

\* A label stands for its ARMPage and its ARMVSpace variant.
do_flush(label, start, end) ==
  CASE label = "Clean_Data"           -> clean_cache_range_ram(start, end)
    [] label = "Invalidate_Data"      -> invalidate_cache_range_ram(start, end)
    [] label = "CleanInvalidate_Data" -> clean_invalidate_cache_range_ram(start, end)
    [] label = "Unify_Instruction"    ->
         clean_cache_range_pou(start, end) \o <<dsb>>
           \o invalidate_cache_range_i(start, end) \o <<isb>>

\* Every way and set of a level; the three fields of the operand are disjoint.
Operand(l, w, s) ==
  w * bit[WordBits - BitsOf(assoc(l) - 1)] + s * bit[line_bits(l)] + l * 2

clean_invalidate_d_by_level(l) ==
  FlattenSeq([w \in 1 .. assoc(l) |->
    [s \in 1 .. nsets(l) |-> <<"dc cisw", Operand(l, w - 1, s - 1)>>]])

\* Mutant of clean_invalidate_d_poc: from the outermost level inwards.
clean_invalidate_d_poc_inwards ==
  FlattenSeq([i \in 1 .. loc |-> LET l == loc - i IN
    IF ctype(l) > ARMCacheI THEN clean_invalidate_d_by_level(l) ELSE <<>>])

clean_invalidate_d_poc ==
  FlattenSeq([i \in 1 .. loc |-> LET l == i - 1 IN
    IF ctype(l) > ARMCacheI THEN clean_invalidate_d_by_level(l) ELSE <<>>])

invalidate_i_pou == <<<<"ic iallu", None>>, isb>>

clean_invalidate_l1_caches ==
  <<dsb>> \o clean_invalidate_d_poc \o <<dsb>> \o invalidate_i_pou \o <<dsb>>

------------------------------------------------------------------------------
(* Operations.                                                             *)

Dirty(line) == dcache[line] # None /\ dcache[line].dirty

\* What a load and what an instruction fetch reads.
View(a) ==
  LET line == dcache[LINE_INDEX(a)] IN IF line = None THEN memory[a] ELSE line.data[a]
Fetch(a) ==
  LET line == icache[LINE_INDEX(a)] IN IF line = None THEN memory[a] ELSE line[a]

\* activate_kernel_vspace, before it moves to the kernel's tables.
ActivateKernel ==
  /\ ~ booted /\ op = None
  /\ op' = [label |-> "boot", range |-> Bytes, delivered |-> {}]
  /\ program' = clean_invalidate_l1_caches
  /\ UNCHANGED <<memory, dcache, icache, booted, queue>>

\* A range, its end included.  What the device has delivered is kept for the
\* properties: bytes that no dirty line can overwrite any more.
DoFlush(label, start, end) ==
  /\ booted /\ op = None
  /\ op' = [label |-> label, range |-> start .. end,
            delivered |-> {a \in Dma \cap start .. end :
                             memory[a] = 1 /\ ~ Dirty(LINE_INDEX(a))}]
  /\ program' = do_flush(label, start, end)
  /\ UNCHANGED <<memory, dcache, icache, booted, queue>>

------------------------------------------------------------------------------
(* The processor.                                                          *)

WriteBack(line) ==
  IF Dirty(line)
  THEN [a \in Bytes |-> IF a \in BytesOf(line) THEN dcache[line].data[a] ELSE memory[a]]
  ELSE memory

Clean(line) ==
  /\ memory' = WriteBack(line)
  /\ dcache' = IF Dirty(line) THEN [dcache EXCEPT ![line].dirty = FALSE] ELSE dcache
Invalidate(line) == memory' = memory /\ dcache' = [dcache EXCEPT ![line] = None]
CleanInvalidate(line) ==
  memory' = WriteBack(line) /\ dcache' = [dcache EXCEPT ![line] = None]

\* The slot that an operand of dc cisw names.
Decode(wsl) ==
  LET l == (wsl \div 2) % 8
  IN  [level |-> l, way |-> wsl \div bit[WordBits - BitsOf(assoc(l) - 1)],
       set |-> (wsl \div bit[line_bits(l)]) % bit[BitsOf(nsets(l) - 1)]]

Next1 == Head(program)

IssueDc ==
  /\ program # <<>> /\ Next1[1] \in {"dc cvac", "dc cvau", "dc ivac", "dc civac", "dc cisw"}
  /\ queue' = Append(queue, Next1) /\ program' = Tail(program)
  /\ UNCHANGED <<memory, dcache, icache, booted, op>>

CompleteDc ==
  /\ queue # <<>>
  /\ LET name == Head(queue)[1]
         arg  == Head(queue)[2]
         Hit  == {l \in 0 .. Lines - 1 : dcache[l] # None /\ dcache[l].slot = Decode(arg)}
     IN  \/ name \in {"dc cvac", "dc cvau"} /\ Clean(arg)
         \/ name = "dc ivac" /\ Invalidate(arg)
         \/ name = "dc civac" /\ CleanInvalidate(arg)
         \/ name = "dc cisw" /\ IF Hit = {} THEN UNCHANGED <<memory, dcache>>
                                ELSE \E l \in Hit : CleanInvalidate(l)
  /\ queue' = Tail(queue)
  /\ UNCHANGED <<icache, booted, op, program>>

\* A dmb does no more than keep the order of what is in the queue.
Barrier ==
  /\ program # <<>> /\ Next1[1] \in {"dmb", "dsb", "isb"}
  /\ Next1[1] = "dsb" => queue = <<>>
  /\ program' = Tail(program)
  /\ UNCHANGED <<memory, dcache, icache, booted, op, queue>>

Ic ==
  /\ program # <<>> /\ Next1[1] \in {"ic ivau", "ic iallu"}
  /\ icache' = IF Next1[1] = "ic iallu" THEN Absent ELSE [icache EXCEPT ![Next1[2]] = None]
  /\ program' = Tail(program)
  /\ UNCHANGED <<memory, dcache, booted, op, queue>>

Return ==
  /\ op # None /\ program = <<>>
  /\ op' = None /\ booted' = TRUE
  /\ dcache' = [l \in 0 .. Lines - 1 |->
                  IF dcache[l] = None THEN None ELSE [dcache[l] EXCEPT !.slot = None]]
  /\ UNCHANGED <<memory, icache, program, queue>>

------------------------------------------------------------------------------
(* Everybody else.                                                         *)

\* A store of the CPU, between operations, which finds its line in the cache.
CpuWrite(a) ==
  /\ booted /\ op = None
  /\ dcache[LINE_INDEX(a)] # None
  /\ dcache' = [dcache EXCEPT ![LINE_INDEX(a)].data[a] = 1 - @,
                              ![LINE_INDEX(a)].dirty = TRUE]
  /\ UNCHANGED <<memory, icache, booted, op, program, queue>>

DeviceWrite(a) ==
  /\ booted
  /\ memory' = [memory EXCEPT ![a] = 1]
  /\ UNCHANGED <<dcache, icache, booted, op, program, queue>>

\* The slots where a line may go: until the caches are clean, a free one.
Free(line) ==
  {s \in Slots : Fits(line, s)
                 /\ \A l \in 0 .. Lines - 1 : dcache[l] # None => dcache[l].slot # s}

Fill(line) ==
  /\ dcache[line] = None
  /\ \E s \in IF booted THEN {None} ELSE Free(line) :
       dcache' = [dcache EXCEPT ![line] =
                    [data |-> InMemory(line), dirty |-> FALSE, slot |-> s]]
  /\ UNCHANGED <<memory, icache, booted, op, program, queue>>

Evict(line) ==
  /\ dcache[line] # None
  /\ CleanInvalidate(line)
  /\ UNCHANGED <<icache, booted, op, program, queue>>

\* A line leaves a level for one further out.
Demote(line) ==
  /\ ~ booted /\ dcache[line] # None
  /\ \E s \in Free(line) : s.level > dcache[line].slot.level
                         /\ dcache' = [dcache EXCEPT ![line].slot = s]
  /\ UNCHANGED <<memory, icache, booted, op, program, queue>>

FillI(line) ==
  /\ icache[line] = None
  /\ icache' = [icache EXCEPT ![line] = [a \in BytesOf(line) \ Dma |-> memory[a]]]
  /\ UNCHANGED <<memory, dcache, booted, op, program, queue>>

Execute == IssueDc \/ CompleteDc \/ Barrier \/ Ic \/ Return

Next ==
  \/ ActivateKernel
  \/ \E label \in Labels, start, end \in Bytes : start <= end /\ DoFlush(label, start, end)
  \/ Execute
  \/ \E a \in Bytes \ Dma : CpuWrite(a)
  \/ \E a \in Dma : DeviceWrite(a)
  \/ \E line \in 0 .. Lines - 1 :
       Fill(line) \/ Evict(line) \/ Demote(line) \/ FillI(line)

Spec == Init /\ [][Next]_vars

------------------------------------------------------------------------------
Returns(labels) == op # None /\ op' = None /\ op.label \in labels

\* No operation changes what the CPU reads in a byte that no device writes,
\* unless it was asked to invalidate that very byte: the neighbours in a line
\* that a range covers in part keep their data, though the line is invalidated.
NeighboursKeepTheirData ==
  [][op # None =>
       \A a \in Bytes \ Dma :
         View(a)' = View(a) \/ (op.label = "Invalidate_Data" /\ a \in op.range)]_vars

\* After a clean, memory has what the CPU wrote to any byte of the range, and so
\* it has once the boot code has cleaned by set and way, in whatever level and
\* way a line was and though lines go from one level to the next meanwhile.
CleanReachesMemory ==
  [][Returns({"Clean_Data", "CleanInvalidate_Data", "boot"}) =>
       \A a \in op.range \ Dma : memory[a] = View(a)]_vars

\* After an invalidation the CPU reads what the device had written before it,
\* and no stale copy, aligned range or not.
DeviceDataIsRead ==
  [][Returns({"Invalidate_Data", "CleanInvalidate_Data"}) =>
       \A a \in op.delivered : View(a) = 1]_vars

\* After Unify_Instruction an instruction fetch from the range sees the stores
\* to it, though the instruction cache may be filled at every moment between.
FetchesSeeStores ==
  [][Returns({"Unify_Instruction", "boot"}) =>
       \A a \in op.range \ Dma : Fetch(a) = View(a)]_vars
===============================================================================
