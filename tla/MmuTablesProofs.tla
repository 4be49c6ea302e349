---------------------------- MODULE MmuTablesProofs ----------------------------
(***************************************************************************)
(* MmuTables proved for areas of any length the linker script leaves room  *)
(* for, and a TLB of any size.                                             *)
(*                                                                         *)
(* The heart of it is that the words of memory are known exactly: those of *)
(* the pages mapped so far, each with its descriptor (MemInv).  Two pages  *)
(* of one table or of two never share a word they should not, because the  *)
(* rows of the first-level tables the linker's areas fall in are few and   *)
(* the tables' bases far enough apart (Distinct).                          *)
(***************************************************************************)
EXTENDS MmuTables, FiniteSetTheorems, SequenceTheorems, TLAPS

\* The entries of a first-level table that are ever used.
Rows == {0, 256, 480, 1792, 1802, 1807, 1823, 2063}

L2Word(t, v) == L2Table(t, v) + L2Index(v)

\* Where every table that maps page v maps it to in the end.
Translation(v) ==
    CASE v = 461312 -> 524288                       \* T1's reading area
      [] v \in {462672, 462673, 462674} -> v + 63488  \* T1's text and stack
      [] v = 466768 -> 528384                       \* T2's reading area
      [] v = 466769 -> 530256                       \* T2's text
      [] v = 466770 -> 530258                       \* T2's stack
      [] OTHER -> v

\* The j-th turn of the i-th loop of table t, and the pages it is about.
Turn(t, i, j) == i \in 1 .. Len(Loops(t)) /\ j \in Nat /\ j < Loops(t)[i].len
Virt(t, i, j) == Loops(t)[i].virt + j
Phys(t, i, j) == Loops(t)[i].phys + j

-----------------------------------------------------------------------------
(* The areas of the linker script, in numbers.                             *)

Upto(n, max) == n \in Nat /\ 0 < n /\ n <= max

LEMMA Lengths == Upto(RomLen, 3) /\ Upto(GicLen, 49) /\ Upto(TimerLen, 8)
BY LengthsAssumption DEF Upto

\* A loop of board_init: i-th of table t, from page v to page p, n pages.
IsLoop(t, i, p, v, n) ==
    /\ Loops(t)[i].phys = p
    /\ Loops(t)[i].virt = v
    /\ Loops(t)[i].len = n

LEMMA KernelAreas ==
    /\ Len(Loops(Kernel)) = 8
    /\ IsLoop(Kernel, 1, 0, 0, 1)
    /\ IsLoop(Kernel, 2, 458768, 458768, RomLen)
    /\ IsLoop(Kernel, 3, 458800, 458800, 2)
    /\ IsLoop(Kernel, 4, 458784, 458784, 2)
    /\ IsLoop(Kernel, 5, 458786, 458786, 1)
    /\ IsLoop(Kernel, 6, 458801, 458801, 1)
    /\ IsLoop(Kernel, 7, 122880, 122880, GicLen)
    /\ IsLoop(Kernel, 8, 65553, 65553, TimerLen)
<1>1. Loops(Kernel) = KernelLoops
  BY DEF Loops, Kernel, T1, T2, Idle
<1>2. /\ Len(KernelLoops) = 8
      /\ KernelLoops[1] = Same(Vectors, 1)
      /\ KernelLoops[2] = Same(Rom, RomLen)
      /\ KernelLoops[3] = KernelRamArea
      /\ KernelLoops[4] = Same(KernelStack, 2)
      /\ KernelLoops[5] = Same(Bss, 1)
      /\ KernelLoops[6] = Same(Data, 1)
      /\ KernelLoops[7] = Same(GicRegs, GicLen)
      /\ KernelLoops[8] = Same(TimerRegs, TimerLen)
  BY DEF KernelLoops
<1> QED
  BY <1>1, <1>2 DEF IsLoop, Same, Area, KernelRamArea, Vectors, Rom, KernelRam,
                    KernelStack, Bss, Data, GicRegs, TimerRegs

LEMMA LastAreaAdded ==
    ASSUME NEW a, NEW S, a \in Seq(S), Len(a) = 7, NEW x
    PROVE  /\ Len(a \o <<x>>) = 8 /\ (a \o <<x>>)[8] = x
           /\ \A i \in 1 .. 7 : (a \o <<x>>)[i] = a[i]
<1>1. a \in Seq(S \cup {x}) /\ <<x>> \in Seq(S \cup {x})
  BY SeqMonotonic
<1>2. Len(<<x>>) = 1 /\ <<x>>[1] = x
  OBVIOUS
<1> DEFINE b == <<x>>
<1> HIDE DEF b
<1>3. /\ Len(a \o b) = Len(a) + Len(b)
      /\ \A i \in 1 .. Len(a) + Len(b) :
            (a \o b)[i] = IF i <= Len(a) THEN a[i] ELSE b[i - Len(a)]
  <2>1. a \in Seq(S \cup {x}) /\ b \in Seq(S \cup {x})
    BY <1>1 DEF b
  <2> HIDE <1>1
  <2> QED
    BY <2>1, ConcatProperties
<1>4. Len(b) = 1 /\ b[1] = x
  BY <1>2 DEF b
<1>5. Len(a \o b) = 8 /\ (a \o b)[8] = b[1] /\ \A i \in 1 .. 7 : (a \o b)[i] = a[i]
  BY <1>3, <1>4
<1> QED
  BY <1>4, <1>5 DEF b

LEMMA TaskAreas ==
    ASSUME NEW t \in {T1, T2, Idle}
    PROVE  /\ Len(TaskLoops(t)) = 7
           /\ TaskLoops(t)[1] = Same(Vectors, 1)
           /\ TaskLoops(t)[2] = KernelRamArea
           /\ TaskLoops(t)[3] = TextArea(t)
           /\ TaskLoops(t)[4] = StackArea(t)
           /\ TaskLoops(t)[5] = Same(GicRegs, GicLen)
           /\ TaskLoops(t)[6] = Same(TimerRegs, TimerLen)
           /\ TaskLoops(t)[7] = Same(Bss, 1)
           /\ \E S : TaskLoops(t) \in Seq(S)
<1> DEFINE a == <<Same(Vectors, 1), KernelRamArea, TextArea(t), StackArea(t)>>
           b == Peripherals
           S == {Same(Vectors, 1), KernelRamArea, TextArea(t), StackArea(t),
                 Same(GicRegs, GicLen), Same(TimerRegs, TimerLen), Same(Bss, 1)}
<1>1. /\ a \in Seq(S) /\ Len(a) = 4
      /\ a[1] = Same(Vectors, 1) /\ a[2] = KernelRamArea /\ a[3] = TextArea(t)
      /\ a[4] = StackArea(t)
  OBVIOUS
<1>2. /\ b \in Seq(S) /\ Len(b) = 3
      /\ b[1] = Same(GicRegs, GicLen) /\ b[2] = Same(TimerRegs, TimerLen)
      /\ b[3] = Same(Bss, 1)
  BY DEF Peripherals
<1>3. TaskLoops(t) = a \o b
  BY DEF TaskLoops
<1> HIDE DEF a, b, S
<1>4. /\ a \o b \in Seq(S) /\ Len(a \o b) = Len(a) + Len(b)
      /\ \A i \in 1 .. Len(a) + Len(b) :
            (a \o b)[i] = IF i <= Len(a) THEN a[i] ELSE b[i - Len(a)]
  <2>1. a \in Seq(S) /\ b \in Seq(S)
    BY <1>1, <1>2
  <2> QED
    BY <2>1, ConcatProperties
<1>5. /\ Len(a \o b) = 7
      /\ (a \o b)[1] = a[1] /\ (a \o b)[2] = a[2] /\ (a \o b)[3] = a[3]
      /\ (a \o b)[4] = a[4] /\ (a \o b)[5] = b[1] /\ (a \o b)[6] = b[2]
      /\ (a \o b)[7] = b[3]
  <2>1. Len(a) = 4 /\ Len(b) = 3
    BY <1>1, <1>2
  <2> QED
    BY <1>4, <2>1
<1> QED
  BY <1>1, <1>2, <1>3, <1>4, <1>5

LEMMA T1Areas ==
    /\ Len(Loops(T1)) = 8
    /\ IsLoop(T1, 1, 0, 0, 1)
    /\ IsLoop(T1, 2, 458800, 458800, 2)
    /\ IsLoop(T1, 3, 526160, 462672, 2)
    /\ IsLoop(T1, 4, 526162, 462674, 1)
    /\ IsLoop(T1, 5, 122880, 122880, GicLen)
    /\ IsLoop(T1, 6, 65553, 65553, TimerLen)
    /\ IsLoop(T1, 7, 458786, 458786, 1)
    /\ IsLoop(T1, 8, 524288, 461312, 1)
<1> DEFINE a == TaskLoops(T1)
           reading == Area(Reading[T1], ReadingVir[T1], 1)
<1>1. /\ Len(a) = 7 /\ a[1] = Same(Vectors, 1) /\ a[2] = KernelRamArea
      /\ a[3] = TextArea(T1) /\ a[4] = StackArea(T1)
      /\ a[5] = Same(GicRegs, GicLen) /\ a[6] = Same(TimerRegs, TimerLen)
      /\ a[7] = Same(Bss, 1) /\ \E S : a \in Seq(S)
  BY TaskAreas
<1>2. Loops(T1) = a \o <<reading>>
  BY DEF Loops, T1Loops, Kernel, T1, T2, Idle
<1> HIDE DEF a
<1>3. /\ Len(a \o <<reading>>) = 8 /\ (a \o <<reading>>)[8] = reading
      /\ \A i \in 1 .. 7 : (a \o <<reading>>)[i] = a[i]
  BY <1>1, LastAreaAdded
<1>4. Text[T1] = 526160 /\ Reading[T1] = 524288 /\ ReadingVir[T1] = 461312
  BY DEF Text, Reading, ReadingVir, T1, T2, Idle
<1>5. /\ TextArea(T1) = Area(526160, 462672, 2)
      /\ StackArea(T1) = Area(526162, 462674, 1)
  BY <1>4 DEF TextArea, StackArea, TextVir, StackVir, Stack, T1, T2, Idle
<1> QED
  BY <1>1, <1>2, <1>3, <1>4, <1>5
     DEF IsLoop, Same, Area, KernelRamArea, Vectors, KernelRam, Bss, GicRegs, TimerRegs

LEMMA T2Areas ==
    /\ Len(Loops(T2)) = 8
    /\ IsLoop(T2, 1, 0, 0, 1)
    /\ IsLoop(T2, 2, 458800, 458800, 2)
    /\ IsLoop(T2, 3, 530256, 466769, 2)
    /\ IsLoop(T2, 4, 530258, 466770, 1)
    /\ IsLoop(T2, 5, 122880, 122880, GicLen)
    /\ IsLoop(T2, 6, 65553, 65553, TimerLen)
    /\ IsLoop(T2, 7, 458786, 458786, 1)
    /\ IsLoop(T2, 8, 528384, 466768, 1)
<1> DEFINE a == TaskLoops(T2)
           reading == Area(Reading[T2], ReadingVir[T2], 1)
<1>1. /\ Len(a) = 7 /\ a[1] = Same(Vectors, 1) /\ a[2] = KernelRamArea
      /\ a[3] = TextArea(T2) /\ a[4] = StackArea(T2)
      /\ a[5] = Same(GicRegs, GicLen) /\ a[6] = Same(TimerRegs, TimerLen)
      /\ a[7] = Same(Bss, 1) /\ \E S : a \in Seq(S)
  BY TaskAreas
<1>2. Loops(T2) = a \o <<reading>>
  BY DEF Loops, T2Loops, Kernel, T1, T2, Idle
<1> HIDE DEF a
<1>3. /\ Len(a \o <<reading>>) = 8 /\ (a \o <<reading>>)[8] = reading
      /\ \A i \in 1 .. 7 : (a \o <<reading>>)[i] = a[i]
  BY <1>1, LastAreaAdded
<1>4. Text[T2] = 530256 /\ Reading[T2] = 528384 /\ ReadingVir[T2] = 466768
  BY DEF Text, Reading, ReadingVir, T1, T2, Idle
<1>5. /\ TextArea(T2) = Area(530256, 466769, 2)
      /\ StackArea(T2) = Area(530258, 466770, 1)
  BY <1>4 DEF TextArea, StackArea, TextVir, StackVir, Stack, T1, T2, Idle
<1> QED
  BY <1>1, <1>2, <1>3, <1>4, <1>5
     DEF IsLoop, Same, Area, KernelRamArea, Vectors, KernelRam, Bss, GicRegs, TimerRegs

LEMMA IdleAreas ==
    /\ Len(Loops(Idle)) = 7
    /\ IsLoop(Idle, 1, 0, 0, 1)
    /\ IsLoop(Idle, 2, 458800, 458800, 2)
    /\ IsLoop(Idle, 3, 528176, 528176, 2)
    /\ IsLoop(Idle, 4, 528178, 528178, 1)
    /\ IsLoop(Idle, 5, 122880, 122880, GicLen)
    /\ IsLoop(Idle, 6, 65553, 65553, TimerLen)
    /\ IsLoop(Idle, 7, 458786, 458786, 1)
<1>1. Loops(Idle) = TaskLoops(Idle)
  BY DEF Loops, IdleLoops, Kernel, T1, T2, Idle
<1>2. Text[Idle] = 528176
  BY DEF Text, T1, T2, Idle
<1>3. /\ TextArea(Idle) = Area(528176, 528176, 2)
      /\ StackArea(Idle) = Area(528178, 528178, 1)
  BY <1>2 DEF TextArea, StackArea, TextVir, StackVir, Stack, T1, T2, Idle
<1> QED
  BY <1>1, <1>3, TaskAreas
     DEF IsLoop, Same, Area, KernelRamArea, Vectors, KernelRam, Bss, GicRegs, TimerRegs

\* The pages that are mapped to themselves, by all tables or by one.
Plain(v) ==
    \/ v = 0
    \/ 65553 <= v /\ v <= 65560
    \/ 122880 <= v /\ v <= 122928
    \/ 458768 <= v /\ v <= 458801
    \/ 528176 <= v /\ v <= 528178

LEMMA PlainPages ==
    ASSUME NEW v \in Int, Plain(v)
    PROVE  v \in Nat /\ v <= 528178 /\ L1Index(v) \in Rows /\ Translation(v) = v
<1>1. Translation(v) = v
  BY DEF Plain, Translation
<1>2. CASE v = 0
  BY <1>1, <1>2 DEF L1Index, Rows
<1>3. CASE 65553 <= v /\ v <= 65560
  BY <1>1, <1>3 DEF L1Index, Rows
<1>4. CASE 122880 <= v /\ v <= 122928
  BY <1>1, <1>4 DEF L1Index, Rows
<1>5. CASE 458768 <= v /\ v <= 458801
  BY <1>1, <1>5 DEF L1Index, Rows
<1>6. CASE 528176 <= v /\ v <= 528178
  BY <1>1, <1>6 DEF L1Index, Rows
<1> QED
  BY <1>2, <1>3, <1>4, <1>5, <1>6 DEF Plain

\* The pages of T1 and T2 that are mapped elsewhere, and all that are mapped.
Moved == {461312, 462672, 462673, 462674, 466768, 466769, 466770}
Listed(v) == Plain(v) \/ v \in Moved

LEMMA TaskPages ==
    ASSUME NEW v \in Moved
    PROVE  /\ v \in Nat /\ v <= 528178 /\ L1Index(v) \in Rows
           /\ Translation(v) = CASE v = 461312 -> 524288
                                 [] v = 462672 -> 526160
                                 [] v = 462673 -> 526161
                                 [] v = 462674 -> 526162
                                 [] v = 466768 -> 528384
                                 [] v = 466769 -> 530256
                                 [] v = 466770 -> 530258
BY DEF Moved, L1Index, Rows, Translation

\* What a turn of a loop maps: a page the tables' rows allow for, to where it
\* is meant to be; but for the page after T2's text, that of its stack.
TurnIsRight(t, i, j) ==
    /\ i \in 1 .. 8 /\ j \in Nat /\ j <= 48
    /\ Upto(Loops(t)[i].len, 49)
    /\ Virt(t, i, j) \in Nat /\ Virt(t, i, j) <= 528178
    /\ L1Index(Virt(t, i, j)) \in Rows /\ Listed(Virt(t, i, j))
    /\ t = T2 /\ i = 3 /\ j = 1
         => Virt(t, i, j) = 466770 /\ Phys(t, i, j) = 530257
    /\ ~(t = T2 /\ i = 3 /\ j = 1)
         => Phys(t, i, j) = Translation(Virt(t, i, j))
    /\ t = T2 /\ Virt(t, i, j) = 466770 => i = 4 \/ (i = 3 /\ j = 1)

LEMMA PlainTurn ==
    ASSUME NEW t, NEW i \in 1 .. 8, NEW j \in Nat, NEW v \in Nat, NEW n, Upto(n, 49),
           IsLoop(t, i, v, v, n), j < n, Plain(v + j)
    PROVE  TurnIsRight(t, i, j) \/ (t = T2 /\ i = 3)
<1>1. /\ Virt(t, i, j) = v + j /\ Phys(t, i, j) = v + j /\ Loops(t)[i].len = n
      /\ v + j \in Int
  BY DEF IsLoop, Virt, Phys
<1>2. /\ v + j \in Nat /\ v + j <= 528178 /\ L1Index(v + j) \in Rows
      /\ Translation(v + j) = v + j
  BY <1>1, PlainPages
<1>3. v + j # 466770
  BY DEF Plain
<1> QED
  BY <1>1, <1>2, <1>3 DEF TurnIsRight, Upto, Listed

LEMMA KernelTurn ==
    ASSUME NEW i, NEW j, Turn(Kernel, i, j)
    PROVE  TurnIsRight(Kernel, i, j)
<1>1. i \in 1 .. 8 /\ j \in Nat /\ Kernel # T2
  BY KernelAreas DEF Turn, Kernel, T2
<1>2. \E v \in Nat : /\ IsLoop(Kernel, i, v, v, Loops(Kernel)[i].len)
                     /\ Upto(Loops(Kernel)[i].len, 49)
                     /\ Plain(v + j)
  <2> USE DEF Turn, IsLoop, Upto, Plain
  <2>1. CASE i = 1
    BY <2>1, KernelAreas
  <2>2. CASE i = 2
    BY <2>2, KernelAreas, Lengths
  <2>3. CASE i = 3
    BY <2>3, KernelAreas
  <2>4. CASE i = 4
    BY <2>4, KernelAreas
  <2>5. CASE i = 5
    BY <2>5, KernelAreas
  <2>6. CASE i = 6
    BY <2>6, KernelAreas
  <2>7. CASE i = 7
    BY <2>7, KernelAreas, Lengths
  <2>8. CASE i = 8
    BY <2>8, KernelAreas, Lengths
  <2> QED
    BY <1>1, <2>1, <2>2, <2>3, <2>4, <2>5, <2>6, <2>7, <2>8
<1>3. j < Loops(Kernel)[i].len
  BY DEF Turn
<1> QED
  BY <1>1, <1>2, <1>3, PlainTurn

LEMMA T1Turn ==
    ASSUME NEW i, NEW j, Turn(T1, i, j)
    PROVE  TurnIsRight(T1, i, j)
<1> USE DEF Turn, IsLoop, Upto
<1>1. i \in 1 .. 8 /\ j \in Nat
  BY T1Areas
<1>2. CASE i \notin {3, 4, 8}
  <2>1. \E v \in Nat : /\ IsLoop(T1, i, v, v, Loops(T1)[i].len)
                       /\ Upto(Loops(T1)[i].len, 49)
                       /\ Plain(v + j)
    <3> USE DEF Plain
    <3>1. CASE i = 1
      BY <3>1, T1Areas, Lengths
    <3>2. CASE i = 2
      BY <3>2, T1Areas, Lengths
    <3>3. CASE i = 5
      BY <3>3, T1Areas, Lengths
    <3>4. CASE i = 6
      BY <3>4, T1Areas, Lengths
    <3>5. CASE i = 7
      BY <3>5, T1Areas, Lengths
    <3> QED
      BY <1>1, <1>2, <3>1, <3>2, <3>3, <3>4, <3>5
  <2>2. j < Loops(T1)[i].len /\ i \in 1 .. 8
    BY <1>1
  <2>3. TurnIsRight(T1, i, j) \/ (T1 = T2 /\ i = 3)
    BY <1>1, <2>1, <2>2, PlainTurn
  <2> QED
    BY <1>2, <2>3 DEF T1, T2
<1>3. CASE i = 3 /\ j = 0
  <2>1. /\ Virt(T1, i, j) = 462672 /\ Phys(T1, i, j) = 526160
        /\ Loops(T1)[i].len = 2
    BY <1>3, T1Areas DEF Virt, Phys
  <2>2. Virt(T1, i, j) \in Moved
    BY <2>1 DEF Moved
  <2> QED
    BY <1>3, <2>1, <2>2, TaskPages DEF TurnIsRight, Listed, T1, T2
<1>4. CASE i = 3 /\ j = 1
  <2>1. /\ Virt(T1, i, j) = 462673 /\ Phys(T1, i, j) = 526161
        /\ Loops(T1)[i].len = 2
    BY <1>4, T1Areas DEF Virt, Phys
  <2>2. Virt(T1, i, j) \in Moved
    BY <2>1 DEF Moved
  <2> QED
    BY <1>4, <2>1, <2>2, TaskPages DEF TurnIsRight, Listed, T1, T2
<1>5. CASE i = 4 /\ j = 0
  <2>1. /\ Virt(T1, i, j) = 462674 /\ Phys(T1, i, j) = 526162
        /\ Loops(T1)[i].len = 1
    BY <1>5, T1Areas DEF Virt, Phys
  <2>2. Virt(T1, i, j) \in Moved
    BY <2>1 DEF Moved
  <2> QED
    BY <1>5, <2>1, <2>2, TaskPages DEF TurnIsRight, Listed, T1, T2
<1>6. CASE i = 8 /\ j = 0
  <2>1. /\ Virt(T1, i, j) = 461312 /\ Phys(T1, i, j) = 524288
        /\ Loops(T1)[i].len = 1
    BY <1>6, T1Areas DEF Virt, Phys
  <2>2. Virt(T1, i, j) \in Moved
    BY <2>1 DEF Moved
  <2> QED
    BY <1>6, <2>1, <2>2, TaskPages DEF TurnIsRight, Listed, T1, T2
<1>7. i = 3 => j \in {0, 1}
  BY <1>1, T1Areas
<1>8. i \in {4, 8} => j = 0
  BY <1>1, T1Areas
<1> QED
  BY <1>2, <1>3, <1>4, <1>5, <1>6, <1>7, <1>8

LEMMA T2Turn ==
    ASSUME NEW i, NEW j, Turn(T2, i, j)
    PROVE  TurnIsRight(T2, i, j)
<1> USE DEF Turn, IsLoop, Upto
<1>1. i \in 1 .. 8 /\ j \in Nat
  BY T2Areas
<1>2. CASE i \notin {3, 4, 8}
  <2>1. \E v \in Nat : /\ IsLoop(T2, i, v, v, Loops(T2)[i].len)
                       /\ Upto(Loops(T2)[i].len, 49)
                       /\ Plain(v + j)
    <3> USE DEF Plain
    <3>1. CASE i = 1
      BY <3>1, T2Areas, Lengths
    <3>2. CASE i = 2
      BY <3>2, T2Areas, Lengths
    <3>3. CASE i = 5
      BY <3>3, T2Areas, Lengths
    <3>4. CASE i = 6
      BY <3>4, T2Areas, Lengths
    <3>5. CASE i = 7
      BY <3>5, T2Areas, Lengths
    <3> QED
      BY <1>1, <1>2, <3>1, <3>2, <3>3, <3>4, <3>5
  <2>2. j < Loops(T2)[i].len /\ i \in 1 .. 8
    BY <1>1
  <2>3. TurnIsRight(T2, i, j) \/ (T2 = T2 /\ i = 3)
    BY <1>1, <2>1, <2>2, PlainTurn
  <2> QED
    BY <1>2, <2>3
<1>3. CASE i = 3 /\ j = 0
  <2>1. /\ Virt(T2, i, j) = 466769 /\ Phys(T2, i, j) = 530256
        /\ Loops(T2)[i].len = 2
    BY <1>3, T2Areas DEF Virt, Phys
  <2>2. Virt(T2, i, j) \in Moved
    BY <2>1 DEF Moved
  <2> QED
    BY <1>3, <2>1, <2>2, TaskPages DEF TurnIsRight, Listed
<1>4. CASE i = 3 /\ j = 1
  <2>1. /\ Virt(T2, i, j) = 466770 /\ Phys(T2, i, j) = 530257
        /\ Loops(T2)[i].len = 2
    BY <1>4, T2Areas DEF Virt, Phys
  <2>2. Virt(T2, i, j) \in Moved
    BY <2>1 DEF Moved
  <2> QED
    BY <1>4, <2>1, <2>2, TaskPages DEF TurnIsRight, Listed
<1>5. CASE i = 4 /\ j = 0
  <2>1. /\ Virt(T2, i, j) = 466770 /\ Phys(T2, i, j) = 530258
        /\ Loops(T2)[i].len = 1
    BY <1>5, T2Areas DEF Virt, Phys
  <2>2. Virt(T2, i, j) \in Moved
    BY <2>1 DEF Moved
  <2> QED
    BY <1>5, <2>1, <2>2, TaskPages DEF TurnIsRight, Listed
<1>6. CASE i = 8 /\ j = 0
  <2>1. /\ Virt(T2, i, j) = 466768 /\ Phys(T2, i, j) = 528384
        /\ Loops(T2)[i].len = 1
    BY <1>6, T2Areas DEF Virt, Phys
  <2>2. Virt(T2, i, j) \in Moved
    BY <2>1 DEF Moved
  <2> QED
    BY <1>6, <2>1, <2>2, TaskPages DEF TurnIsRight, Listed
<1>7. i = 3 => j \in {0, 1}
  BY <1>1, T2Areas
<1>8. i \in {4, 8} => j = 0
  BY <1>1, T2Areas
<1> QED
  BY <1>2, <1>3, <1>4, <1>5, <1>6, <1>7, <1>8

LEMMA IdleTurn ==
    ASSUME NEW i, NEW j, Turn(Idle, i, j)
    PROVE  TurnIsRight(Idle, i, j)
<1> USE DEF Turn, IsLoop, Upto
<1>1. i \in 1 .. 7 /\ j \in Nat
  BY IdleAreas
<1>2. \E v \in Nat : /\ IsLoop(Idle, i, v, v, Loops(Idle)[i].len)
                     /\ Upto(Loops(Idle)[i].len, 49)
                     /\ Plain(v + j)
  <2> USE DEF Plain
  <2>1. CASE i = 1
    BY <2>1, IdleAreas, Lengths
  <2>2. CASE i = 2
    BY <2>2, IdleAreas, Lengths
  <2>3. CASE i = 3
    BY <2>3, IdleAreas, Lengths
  <2>4. CASE i = 4
    BY <2>4, IdleAreas, Lengths
  <2>5. CASE i = 5
    BY <2>5, IdleAreas, Lengths
  <2>6. CASE i = 6
    BY <2>6, IdleAreas, Lengths
  <2>7. CASE i = 7
    BY <2>7, IdleAreas, Lengths
  <2> QED
    BY <1>1, <2>1, <2>2, <2>3, <2>4, <2>5, <2>6, <2>7
<1>3. j < Loops(Idle)[i].len /\ i \in 1 .. 8
  BY <1>1
<1>4. TurnIsRight(Idle, i, j) \/ (Idle = T2 /\ i = 3)
  BY <1>1, <1>2, <1>3, PlainTurn
<1> QED
  BY <1>4 DEF Idle, T2

LEMMA TurnMaps ==
    ASSUME NEW t \in Tables, NEW i, NEW j, Turn(t, i, j)
    PROVE  TurnIsRight(t, i, j)
BY KernelTurn, T1Turn, T2Turn, IdleTurn DEF Tables

-----------------------------------------------------------------------------
(* The words of the tables.                                                *)

\* What the rows used are told apart by.
LEMMA PageWord ==
    ASSUME NEW v \in Nat
    PROVE  /\ L1Index(v) \in Nat /\ L2Index(v) \in Nat /\ L2Index(v) < 256
           /\ v = 256 * L1Index(v) + L2Index(v)
           /\ \A t \in Tables : /\ L2Word(t, v) = Base(t) * 1024 + 4096 + v
                                /\ L1Word(t, v) = Base(t) * 1024 + L1Index(v)
<1>1. /\ L1Index(v) \in Nat /\ L2Index(v) \in Nat /\ L2Index(v) < 256
      /\ v = 256 * L1Index(v) + L2Index(v)
  BY DEF L1Index, L2Index
<1>2. \A t \in Tables : Base(t) \in Nat
  BY DEF Tables, Base, Kernel, T1, T2, Idle
<1> QED
  BY <1>1, <1>2 DEF L2Word, L2Table, L1Word, WordsPerPage, L1Words, L2Words

LEMMA Bases ==
    /\ Base(Kernel) = 461056 /\ Base(T1) = 524496 /\ Base(T2) = 528128
    /\ Base(Idle) = 524512
BY DEF Base, Kernel, T1, T2, Idle

\* Two pages, of one table or of two.
LEMMA Distinct ==
    ASSUME NEW t \in Tables, NEW u \in Tables, NEW v \in Nat, NEW w \in Nat,
           L1Index(v) \in Rows, L1Index(w) \in Rows
    PROVE  /\ L2Word(t, v) = L2Word(u, w) => t = u /\ v = w
           /\ L1Word(t, v) # L2Word(u, w)
           /\ L1Word(t, v) = L1Word(u, w) => t = u /\ L1Index(v) = L1Index(w)
<1>1. /\ L1Index(v) \in Nat /\ L2Index(v) \in Nat /\ L2Index(v) < 256
      /\ v = 256 * L1Index(v) + L2Index(v)
      /\ L1Index(w) \in Nat /\ L2Index(w) \in Nat /\ L2Index(w) < 256
      /\ w = 256 * L1Index(w) + L2Index(w)
  BY PageWord
<1>2. /\ L2Word(t, v) = Base(t) * 1024 + 4096 + v
      /\ L1Word(t, v) = Base(t) * 1024 + L1Index(v)
      /\ L2Word(u, w) = Base(u) * 1024 + 4096 + w
      /\ L1Word(u, w) = Base(u) * 1024 + L1Index(w)
  BY PageWord
<1>3. L1Index(v) <= 2063 /\ L1Index(w) <= 2063
  BY DEF Rows
<1>4. CASE t = u
  BY <1>1, <1>2, <1>3, <1>4, Bases DEF Tables
<1>5. CASE {t, u} # {T1, Idle} /\ t # u
  BY <1>1, <1>2, <1>3, <1>5, Bases DEF Tables
<1>6. CASE t = T1 /\ u = Idle
  BY <1>1, <1>2, <1>3, <1>6, Bases DEF Rows
<1>7. CASE t = Idle /\ u = T1
  BY <1>1, <1>2, <1>3, <1>7, Bases DEF Rows
<1> QED
  BY <1>4, <1>5, <1>6, <1>7

\* A page whose first-level entry is one of a page mapped.
LEMMA SameRow ==
    ASSUME NEW t \in Tables, NEW u \in Tables, NEW v \in Nat, NEW w \in Nat,
           L1Index(v) < 4096, L1Index(w) \in Rows, L1Word(t, v) = L1Word(u, w)
    PROVE  t = u /\ L1Index(v) = L1Index(w)
<1>1. L1Index(v) \in Nat /\ L1Index(w) \in Nat
  BY PageWord
<1>2. L1Index(w) <= 2063
  BY DEF Rows
<1>3. Base(t) * 1024 + L1Index(v) = Base(u) * 1024 + L1Index(w)
  BY PageWord
<1> QED
  BY <1>1, <1>2, <1>3, Bases DEF Tables

-----------------------------------------------------------------------------
(* The invariant.                                                          *)

\* Has board_init mapped what the j-th turn of the i-th loop of t maps?
Before(t, i, j) ==
    \/ pc # "boot"
    \/ t < ttbr0
    \/ t = ttbr0 /\ (i < loop \/ (i = loop /\ j < page))

IsDone(t, v) == \E i, j : Turn(t, i, j) /\ Before(t, i, j) /\ v = Virt(t, i, j)

\* Where the table t now maps page v: T2's stack, for a while, to the page
\* after T2's text.
Target(t, v) ==
    IF t = T2 /\ v = 466770 /\ pc = "boot" /\ ttbr0 = T2 /\ loop <= 4
    THEN 530257
    ELSE Translation(v)

TableEntry(t, v) == [kind |-> "table", at |-> L2Table(t, v)]
PageEntry(t, v) == [kind |-> "page", at |-> Target(t, v)]

MemInv ==
    /\ \A w \in DOMAIN mem :
          \E t \in Tables, v \in Nat :
             /\ IsDone(t, v)
             /\ \/ w = L1Word(t, v) /\ mem[w] = TableEntry(t, v)
                \/ w = L2Word(t, v) /\ mem[w] = PageEntry(t, v)
    /\ \A t \in Tables, v \in Nat :
          IsDone(t, v) =>
             /\ L1Word(t, v) \in DOMAIN mem /\ mem[L1Word(t, v)] = TableEntry(t, v)
             /\ L2Word(t, v) \in DOMAIN mem /\ mem[L2Word(t, v)] = PageEntry(t, v)

BootInv ==
    /\ ttbr0 \in Tables
    /\ loop \in Nat /\ 1 <= loop /\ loop <= 9
    /\ page \in Nat
    /\ pc = "boot" => /\ loop <= Len(Loops(ttbr0)) + 1
                      /\ loop <= Len(Loops(ttbr0)) => page < Loops(ttbr0)[loop].len
                      /\ tlb = {}
    /\ (pc = "boot" => loop > Len(Loops(ttbr0))) => page = 0

\* The accesses that may find no translation.
Strange(v) == (v = Rom /\ ttbr0 # Kernel) \/ (v = OwnStack(left) /\ ttbr0 # left)

CodeInv ==
    /\ pc \in {"boot", "run", "irq", "switch", "mcr", "back", "abort"}
    /\ touched \in Nat
    /\ pc \in {"boot", "run", "mcr"} => touched = 0
    /\ pc \in {"irq", "abort"} => touched <= 6
    /\ pc = "switch" => touched <= 2
    /\ pc = "back" => touched <= 5
    /\ left \in Tables
    /\ pc # "abort" => fault = NoPage
    /\ pc = "abort" => Strange(fault)

TlbInv ==
    /\ IsFiniteSet(tlb) /\ Cardinality(tlb) <= TlbSize
    /\ \A e \in tlb : /\ e.virt \in Nat /\ L1Index(e.virt) \in Rows
                      /\ e.phys = Translation(e.virt)

IInv == BootInv /\ MemInv /\ CodeInv /\ TlbInv

-----------------------------------------------------------------------------
(* What the tables translate.                                              *)

LEMMA LoopsOfTable ==
    ASSUME NEW t \in Tables
    PROVE  Len(Loops(t)) = IF t = Idle THEN 7 ELSE 8
<1>1. /\ Len(Loops(Kernel)) = 8 /\ Len(Loops(T1)) = 8 /\ Len(Loops(T2)) = 8
      /\ Len(Loops(Idle)) = 7
  BY KernelAreas, T1Areas, T2Areas, IdleAreas
<1> QED
  BY <1>1 DEF Tables, Kernel, T1, T2, Idle

LEMMA LoopLengths ==
    ASSUME NEW t \in Tables, NEW i \in 1 .. Len(Loops(t))
    PROVE  0 < Loops(t)[i].len /\ Loops(t)[i].len <= 49
<1> USE DEF IsLoop, Upto
<1>1. CASE t = Kernel
  BY <1>1, Lengths, KernelAreas
<1>2. CASE t = T1
  BY <1>2, Lengths, T1Areas
<1>3. CASE t = T2
  BY <1>3, Lengths, T2Areas
<1>4. CASE t = Idle
  BY <1>4, Lengths, IdleAreas
<1> QED
  BY <1>1, <1>2, <1>3, <1>4 DEF Tables

LEMMA DoneRow ==
    ASSUME NEW t \in Tables, NEW v, IsDone(t, v)
    PROVE  v \in Nat /\ L1Index(v) \in Rows /\ v <= 528178 /\ Listed(v)
BY TurnMaps DEF IsDone, TurnIsRight

LEMMA WalkFinds ==
    ASSUME MemInv, NEW t \in Tables, NEW v \in Nat, L1Index(v) < 4096
    PROVE  Walk(t, v) = IF IsDone(t, v) THEN Target(t, v) ELSE NoPage
<1> DEFINE l1 == L1Word(t, v)
           l2 == mem[l1].at + L2Index(v)
           found == /\ l1 \in DOMAIN mem /\ mem[l1].kind = "table"
                    /\ l2 \in DOMAIN mem /\ mem[l2].kind = "page"
<1>1. Walk(t, v) = IF found THEN mem[l2].at ELSE NoPage
  BY DEF Walk
<1>2. ASSUME IsDone(t, v)
      PROVE  found /\ mem[l2].at = Target(t, v)
  <2>1. /\ l1 \in DOMAIN mem /\ mem[l1] = TableEntry(t, v)
        /\ L2Word(t, v) \in DOMAIN mem /\ mem[L2Word(t, v)] = PageEntry(t, v)
    BY <1>2 DEF MemInv
  <2>2. l2 = L2Word(t, v)
    BY <2>1 DEF TableEntry, L2Word
  <2> QED
    BY <2>1, <2>2 DEF TableEntry, PageEntry
<1>3. ASSUME found
      PROVE  IsDone(t, v)
  <2>1. PICK u \in Tables, w \in Nat :
           /\ IsDone(u, w)
           /\ \/ l1 = L1Word(u, w) /\ mem[l1] = TableEntry(u, w)
              \/ l1 = L2Word(u, w) /\ mem[l1] = PageEntry(u, w)
    BY <1>3 DEF MemInv
  <2>2. l1 = L1Word(u, w) /\ mem[l1] = TableEntry(u, w)
    BY <1>3, <2>1 DEF PageEntry
  <2>3. L1Index(w) \in Rows
    BY <2>1, DoneRow
  <2>4. t = u /\ L1Index(v) = L1Index(w)
    BY <2>2, <2>3, SameRow
  <2>5. l2 = L2Word(t, v)
    BY <2>2, <2>4 DEF TableEntry, L2Word, L2Table
  <2>6. PICK y \in Tables, z \in Nat :
           /\ IsDone(y, z)
           /\ \/ l2 = L1Word(y, z) /\ mem[l2] = TableEntry(y, z)
              \/ l2 = L2Word(y, z) /\ mem[l2] = PageEntry(y, z)
    BY <1>3 DEF MemInv
  <2>7. l2 = L2Word(y, z)
    BY <1>3, <2>6 DEF TableEntry
  <2>8. L1Index(z) \in Rows
    BY <2>6, DoneRow
  <2>9. t = y /\ v = z
    BY <2>3, <2>4, <2>5, <2>7, <2>8, Distinct
  <2> QED
    BY <2>6, <2>9
<1> QED
  BY <1>1, <1>2, <1>3

-----------------------------------------------------------------------------
(* board_init: one page more.                                              *)

\* The page the present turn of the loop is about, and where it maps it.
Page == Virt(ttbr0, loop, page)
Frame == Phys(ttbr0, loop, page)

LEMMA MapEffect ==
    ASSUME BootInv, MapPage
    PROVE  /\ pc = "boot" /\ Turn(ttbr0, loop, page)
           /\ MapNewPage(Frame, Page)
           /\ UNCHANGED <<ttbr0, left, pc, touched, tlb, fault>>
           /\ \/ /\ page + 1 < Loops(ttbr0)[loop].len
                 /\ page' = page + 1 /\ loop' = loop
              \/ /\ page + 1 = Loops(ttbr0)[loop].len
                 /\ page' = 0 /\ loop' = loop + 1
<1>1. /\ pc = "boot" /\ loop <= Len(Loops(ttbr0))
      /\ UNCHANGED <<ttbr0, left, pc, touched, tlb, fault>>
  BY DEF MapPage
<1>2. Turn(ttbr0, loop, page)
  BY <1>1, LoopsOfTable DEF BootInv, Turn
<1>3. /\ MapNewPage(Frame, Page)
      /\ IF page + 1 < Loops(ttbr0)[loop].len
         THEN page' = page + 1 /\ UNCHANGED loop
         ELSE page' = 0 /\ loop' = loop + 1
  BY DEF MapPage, Frame, Page, Virt, Phys
<1>4. Upto(Loops(ttbr0)[loop].len, 49)
  BY <1>2, TurnMaps DEF BootInv, TurnIsRight
<1>5. page + 1 < Loops(ttbr0)[loop].len \/ page + 1 = Loops(ttbr0)[loop].len
  BY <1>2, <1>4 DEF Turn, Upto
<1> QED
  BY <1>1, <1>2, <1>3, <1>5, <1>4 DEF Upto, Turn

LEMMA MapWords ==
    ASSUME NEW p, NEW v \in Nat, ttbr0 \in Tables, L1Index(v) \in Rows,
           MapNewPage(p, v)
    PROVE  /\ DOMAIN mem' = DOMAIN mem \cup {L1Word(ttbr0, v), L2Word(ttbr0, v)}
           /\ mem'[L1Word(ttbr0, v)] = TableEntry(ttbr0, v)
           /\ mem'[L2Word(ttbr0, v)] = [kind |-> "page", at |-> p]
           /\ \A w \in DOMAIN mem :
                 w \notin {L1Word(ttbr0, v), L2Word(ttbr0, v)} => mem'[w] = mem[w]
<1> DEFINE l1 == L1Word(ttbr0, v)
           l2 == L2Word(ttbr0, v)
           entry(w) == CASE w = l2 -> [kind |-> "page", at |-> p]
                         [] w = l1 /\ w # l2 -> TableEntry(ttbr0, v)
                         [] OTHER -> mem[w]
<1>1. mem' = [w \in DOMAIN mem \cup {l1, l2} |-> entry(w)]
  BY DEF MapNewPage, TableEntry, L2Word
<1>2. l1 # l2
  BY Distinct
<1>3. /\ entry(l2) = [kind |-> "page", at |-> p]
      /\ entry(l1) = TableEntry(ttbr0, v)
      /\ \A w : w # l1 /\ w # l2 => entry(w) = mem[w]
  BY <1>2
<1> HIDE DEF l1, l2, entry
<1>4. /\ DOMAIN mem' = DOMAIN mem \cup {l1, l2}
      /\ \A w \in DOMAIN mem \cup {l1, l2} : mem'[w] = entry(w)
  BY <1>1
<1> QED
  BY <1>3, <1>4 DEF l1, l2

\* One more page is mapped, and the others as before.
LEMMA MapDone ==
    ASSUME BootInv, MapPage
    PROVE  /\ Page \in Nat /\ L1Index(Page) \in Rows
           /\ \A t \in Tables : \A v :
                 IsDone(t, v)' <=> IsDone(t, v) \/ (t = ttbr0 /\ v = Page)
           /\ \A t \in Tables : \A v :
                 Target(t, v)' = IF t = ttbr0 /\ v = Page THEN Frame ELSE Target(t, v)
<1>1. /\ pc = "boot" /\ Turn(ttbr0, loop, page) /\ ttbr0 \in Tables
      /\ UNCHANGED <<ttbr0, pc>>
      /\ \/ page + 1 < Loops(ttbr0)[loop].len /\ page' = page + 1 /\ loop' = loop
         \/ page + 1 = Loops(ttbr0)[loop].len /\ page' = 0 /\ loop' = loop + 1
  BY MapEffect DEF BootInv
<1>2. TurnIsRight(ttbr0, loop, page)
  BY <1>1, TurnMaps
<1>3. Page \in Nat /\ L1Index(Page) \in Rows
  BY <1>2 DEF TurnIsRight, Page
<1>4. ASSUME NEW t \in Tables, NEW v
      PROVE  IsDone(t, v)' <=> IsDone(t, v) \/ (t = ttbr0 /\ v = Page)
  <2>1. ASSUME NEW i, NEW j, Turn(t, i, j)
        PROVE  Before(t, i, j)' <=> Before(t, i, j) \/ (t = ttbr0 /\ i = loop /\ j = page)
    <3>1. i \in Nat /\ j \in Nat /\ loop \in Nat /\ page \in Nat
      BY <2>1, TurnMaps DEF TurnIsRight, BootInv
    <3>2. t = ttbr0 /\ i = loop => j < Loops(ttbr0)[loop].len
      BY <2>1 DEF Turn
    <3>3. Upto(Loops(ttbr0)[loop].len, 49)
      BY <1>2 DEF TurnIsRight
    <3> QED
      BY <1>1, <3>1, <3>2, <3>3 DEF Before, Upto
  <2>2. /\ IsDone(t, v) <=> \E i, j : Turn(t, i, j) /\ Before(t, i, j) /\ v = Virt(t, i, j)
        /\ IsDone(t, v)' <=> \E i, j : Turn(t, i, j) /\ Before(t, i, j)' /\ v = Virt(t, i, j)
    BY DEF IsDone, Turn, Virt
  <2> QED
    BY <1>1, <2>1, <2>2 DEF Page
<1>5. loop \in Nat /\ loop' \in Nat
  BY <1>1 DEF BootInv
<1>6. ASSUME NEW t \in Tables, NEW v, t = ttbr0, v = Page
      PROVE  Target(t, v)' = Frame
  <2>1. CASE ttbr0 = T2 /\ loop = 3 /\ page = 1
    <3>1. v = 466770 /\ Frame = 530257
      BY <1>2, <1>6, <2>1 DEF TurnIsRight, Page, Frame
    <3>2. loop' <= 4
      BY <1>1, <2>1
    <3> QED
      BY <1>1, <1>6, <2>1, <3>1, <3>2 DEF Target
  <2>2. CASE ~(ttbr0 = T2 /\ loop = 3 /\ page = 1)
    <3>1. Frame = Translation(v)
      BY <1>2, <1>6, <2>2 DEF TurnIsRight, Page, Frame
    <3>2. ttbr0 = T2 /\ v = 466770 => loop = 4
      BY <1>2, <1>6, <2>2 DEF TurnIsRight, Page
    <3>3. loop = 4 /\ ttbr0 = T2 => loop' = 5
      BY <1>1, T2Areas DEF IsLoop, BootInv
    <3> QED
      BY <1>1, <1>6, <3>1, <3>2, <3>3 DEF Target
  <2> QED
    BY <2>1, <2>2
<1>7. ASSUME NEW t \in Tables, NEW v, ~(t = ttbr0 /\ v = Page)
      PROVE  Target(t, v)' = Target(t, v)
  <2>1. CASE t = T2 /\ v = 466770 /\ ttbr0 = T2
    <3>1. loop # 4
      <4>1. loop = 4 => page = 0 /\ Page = 466770
        BY <1>1, <2>1, T2Areas DEF Turn, IsLoop, Page, Virt
      <4> QED
        BY <1>7, <2>1, <4>1
    <3>2. loop <= 4 <=> loop' <= 4
      BY <1>1, <1>5, <3>1
    <3> QED
      BY <1>1, <3>2 DEF Target
  <2>2. CASE ~(t = T2 /\ v = 466770 /\ ttbr0 = T2)
    BY <1>1, <2>2 DEF Target
  <2> QED
    BY <2>1, <2>2
<1> QED
  BY <1>3, <1>4, <1>6, <1>7

LEMMA MapMemory ==
    ASSUME BootInv, MemInv, MapPage
    PROVE  MemInv'
<1> DEFINE l1 == L1Word(ttbr0, Page)
           l2 == L2Word(ttbr0, Page)
<1>1. /\ Page \in Nat /\ L1Index(Page) \in Rows /\ ttbr0 \in Tables
      /\ \A t \in Tables : \A v :
            IsDone(t, v)' <=> IsDone(t, v) \/ (t = ttbr0 /\ v = Page)
      /\ \A t \in Tables : \A v :
            Target(t, v)' = IF t = ttbr0 /\ v = Page THEN Frame ELSE Target(t, v)
  BY MapDone DEF BootInv
<1>2. /\ DOMAIN mem' = DOMAIN mem \cup {l1, l2}
      /\ mem'[l1] = TableEntry(ttbr0, Page)
      /\ mem'[l2] = [kind |-> "page", at |-> Frame]
      /\ \A w \in DOMAIN mem : w \notin {l1, l2} => mem'[w] = mem[w]
  <2>1. MapNewPage(Frame, Page)
    BY MapEffect
  <2> QED
    BY <1>1, <2>1, MapWords
<1>3. \A t \in Tables : \A v :
         /\ PageEntry(t, v)' = IF t = ttbr0 /\ v = Page
                               THEN [kind |-> "page", at |-> Frame]
                               ELSE PageEntry(t, v)
         /\ TableEntry(t, v)' = TableEntry(t, v)
         /\ L1Word(t, v)' = L1Word(t, v) /\ L2Word(t, v)' = L2Word(t, v)
  BY <1>1 DEF PageEntry, TableEntry, L2Table, L1Word, L2Word
<1>4. ASSUME NEW w \in DOMAIN mem'
      PROVE  \E t \in Tables, v \in Nat :
                /\ IsDone(t, v)'
                /\ \/ w = L1Word(t, v) /\ mem'[w] = TableEntry(t, v)
                   \/ w = L2Word(t, v) /\ mem'[w] = PageEntry(t, v)'
  <2>1. CASE w \in {l1, l2}
    BY <1>1, <1>2, <1>3, <2>1
  <2>2. CASE w \notin {l1, l2}
    <3>1. w \in DOMAIN mem /\ mem'[w] = mem[w]
      BY <1>2, <2>2
    <3>2. PICK t \in Tables, v \in Nat :
             /\ IsDone(t, v)
             /\ \/ w = L1Word(t, v) /\ mem[w] = TableEntry(t, v)
                \/ w = L2Word(t, v) /\ mem[w] = PageEntry(t, v)
      BY <3>1 DEF MemInv
    <3>3. IsDone(t, v)'
      BY <1>1, <3>2
    <3>4. ~(t = ttbr0 /\ v = Page) => PageEntry(t, v)' = PageEntry(t, v)
      BY <1>3
    <3>5. t = ttbr0 /\ v = Page => w = L1Word(t, v) \/ w = L2Word(t, v)
      BY <3>2
    <3> QED
      BY <2>2, <3>1, <3>2, <3>3, <3>4, <3>5
  <2> QED
    BY <2>1, <2>2
<1>5. ASSUME NEW t \in Tables, NEW v \in Nat, IsDone(t, v)'
      PROVE  /\ L1Word(t, v) \in DOMAIN mem' /\ mem'[L1Word(t, v)] = TableEntry(t, v)
             /\ L2Word(t, v) \in DOMAIN mem' /\ mem'[L2Word(t, v)] = PageEntry(t, v)'
  <2>1. CASE t = ttbr0 /\ v = Page
    BY <1>2, <1>3, <2>1
  <2>2. CASE ~(t = ttbr0 /\ v = Page)
    <3>1. /\ IsDone(t, v) /\ L1Index(v) \in Rows
          /\ PageEntry(t, v)' = PageEntry(t, v)
      BY <1>1, <1>3, <1>5, <2>2, DoneRow
    <3>2. /\ L1Word(t, v) \in DOMAIN mem /\ mem[L1Word(t, v)] = TableEntry(t, v)
          /\ L2Word(t, v) \in DOMAIN mem /\ mem[L2Word(t, v)] = PageEntry(t, v)
      BY <3>1 DEF MemInv
    <3>3. L2Word(t, v) # l2 /\ L2Word(t, v) # l1 /\ L1Word(t, v) # l2
      BY <1>1, <2>2, <3>1, Distinct
    <3>4. L1Word(t, v) = l1 => TableEntry(t, v) = TableEntry(ttbr0, Page)
      <4>1. L1Word(t, v) = l1 => t = ttbr0 /\ L1Index(v) = L1Index(Page)
        BY <1>1, <3>1, Distinct
      <4> QED
        BY <4>1 DEF TableEntry, L2Table
    <3> HIDE DEF l1, l2
    <3>5. mem'[L1Word(t, v)] = TableEntry(t, v)
      BY <1>2, <3>2, <3>3, <3>4
    <3>6. mem'[L2Word(t, v)] = PageEntry(t, v)
      BY <1>2, <3>2, <3>3
    <3> QED
      BY <1>2, <3>1, <3>2, <3>5, <3>6
  <2> QED
    BY <2>1, <2>2
<1> HIDE DEF l1, l2
<1> QED
  BY <1>3, <1>4, <1>5 DEF MemInv

\* A step that maps no page.
SameMap ==
    /\ \A t \in Tables : \A v : IsDone(t, v)' <=> IsDone(t, v)
    /\ \A t \in Tables : \A v : IsDone(t, v) => Target(t, v)' = Target(t, v)

LEMMA SameMemory ==
    ASSUME MemInv, UNCHANGED mem, SameMap
    PROVE  MemInv'
<1>1. \A t \in Tables, v \in Nat :
         /\ IsDone(t, v) => PageEntry(t, v)' = PageEntry(t, v)
         /\ TableEntry(t, v)' = TableEntry(t, v)
         /\ L1Word(t, v)' = L1Word(t, v) /\ L2Word(t, v)' = L2Word(t, v)
  BY DEF SameMap, PageEntry, TableEntry, L2Table, L1Word, L2Word
<1> QED
  BY <1>1 DEF SameMap, MemInv

\* The last turn of a table's last loop has been taken.
LEMMA AllDone ==
    ASSUME BootInv, pc = "boot", loop > Len(Loops(ttbr0)),
           NEW t \in Tables, NEW i, NEW j, Turn(t, i, j)
    PROVE  Before(t, i, j) <=> t <= ttbr0
<1>1. (i \in Nat /\ loop \in Nat /\ i < loop) \/ t # ttbr0
  BY TurnMaps, LoopsOfTable DEF Turn, TurnIsRight, BootInv
<1> QED
  BY <1>1 DEF Before, BootInv, Tables, Kernel, T1, T2, Idle

LEMMA NextTableMap ==
    ASSUME BootInv, NextTable
    PROVE  SameMap
<1>1. /\ pc = "boot" /\ loop > Len(Loops(ttbr0)) /\ ttbr0 \in Tables /\ ttbr0 # Idle
      /\ ttbr0' = ttbr0 + 1 /\ loop' = 1 /\ page' = 0 /\ UNCHANGED <<mem, pc>>
  BY DEF NextTable, BootInv
<1>2. ASSUME NEW t \in Tables, NEW v
      PROVE  IsDone(t, v)' <=> IsDone(t, v)
  <2>1. ASSUME NEW i, NEW j, Turn(t, i, j)
        PROVE  Before(t, i, j)' <=> Before(t, i, j)
    <3>1. i \in Nat /\ j \in Nat /\ i >= 1
      BY <2>1, TurnMaps DEF TurnIsRight
    <3>2. Before(t, i, j) <=> t <= ttbr0
      BY <1>1, <2>1, AllDone
    <3>3. Before(t, i, j)' <=> t < ttbr0 + 1
      BY <1>1, <3>1 DEF Before
    <3> QED
      BY <1>1, <3>2, <3>3 DEF Tables, Kernel, T1, T2, Idle
  <2> QED
    BY <2>1 DEF IsDone, Turn, Virt
<1>3. ASSUME NEW t \in Tables, NEW v, IsDone(t, v)
      PROVE  Target(t, v)' = Target(t, v)
  <2>1. t <= ttbr0
    BY <1>1, <1>3, AllDone DEF IsDone
  <2>2. ttbr0 = T2 => loop > 4
    <3>1. Len(Loops(T2)) = 8
      BY T2Areas
    <3>2. loop \in Nat /\ loop > Len(Loops(ttbr0))
      BY <1>1 DEF BootInv
    <3> QED
      BY <3>1, <3>2
  <2>3. t = T2 => ttbr0' # T2
    BY <1>1, <2>1 DEF Tables, Kernel, T1, T2, Idle
  <2> QED
    BY <1>1, <2>2, <2>3 DEF Target, BootInv
<1> QED
  BY <1>2, <1>3 DEF SameMap

LEMMA MmuOnMap ==
    ASSUME BootInv, MmuOn
    PROVE  SameMap
<1>1. /\ pc = "boot" /\ loop > Len(Loops(ttbr0)) /\ ttbr0 = Idle
      /\ pc' = "run" /\ UNCHANGED mem
  BY DEF MmuOn
<1>2. ASSUME NEW t \in Tables, NEW v
      PROVE  IsDone(t, v)' <=> IsDone(t, v)
  <2>1. ASSUME NEW i, NEW j, Turn(t, i, j)
        PROVE  Before(t, i, j)' <=> Before(t, i, j)
    <3>1. Before(t, i, j)
      BY <1>1, <2>1, AllDone DEF Tables, Kernel, T1, T2, Idle
    <3> QED
      BY <1>1, <3>1 DEF Before
  <2> QED
    BY <2>1 DEF IsDone, Turn, Virt
<1>3. ASSUME NEW t, NEW v
      PROVE  Target(t, v)' = Target(t, v)
  BY <1>1 DEF Target, T2, Idle
<1> QED
  BY <1>2, <1>3 DEF SameMap

\* From then on.
LEMMA RunMap ==
    ASSUME pc # "boot", pc' # "boot"
    PROVE  SameMap
BY DEF SameMap, IsDone, Before, Turn, Virt, Target

-----------------------------------------------------------------------------
(* What the code uses once the tables are built.                           *)

LEMMA LoopDone ==
    ASSUME pc # "boot", NEW t, NEW i \in 1 .. Len(Loops(t)), NEW j \in Nat,
           NEW p, NEW v, NEW n, IsLoop(t, i, p, v, n), j < n
    PROVE  IsDone(t, v + j)
BY DEF IsDone, Turn, Before, Virt, IsLoop

LEMMA LoopStarts ==
    ASSUME pc # "boot", NEW t, NEW i \in 1 .. Len(Loops(t)),
           NEW p, NEW v \in Nat, NEW n, IsLoop(t, i, p, v, n), 0 < n
    PROVE  IsDone(t, v)
<1>1. IsDone(t, v + 0)
  BY LoopDone
<1> QED
  BY <1>1

LEMMA KernelUses ==
    ASSUME pc # "boot"
    PROVE  \A v \in {0, 65553, 122880, 458768, 458784, 458786, 458800, 458801} :
              IsDone(Kernel, v)
<1>1. 0 < RomLen /\ 0 < GicLen /\ 0 < TimerLen
  BY Lengths DEF Upto
<1>2. IsDone(Kernel, 0)
  <2>1. IsLoop(Kernel, 1, 0, 0, 1) /\ 1 \in 1 .. Len(Loops(Kernel))
    BY KernelAreas
  <2> QED
    BY <1>1, <2>1, LoopStarts
<1>3. IsDone(Kernel, 458768)
  <2>1. IsLoop(Kernel, 2, 458768, 458768, RomLen) /\ 2 \in 1 .. Len(Loops(Kernel))
    BY KernelAreas
  <2> QED
    BY <1>1, <2>1, LoopStarts
<1>4. IsDone(Kernel, 458800)
  <2>1. IsLoop(Kernel, 3, 458800, 458800, 2) /\ 3 \in 1 .. Len(Loops(Kernel))
    BY KernelAreas
  <2> QED
    BY <1>1, <2>1, LoopStarts
<1>5. IsDone(Kernel, 458784)
  <2>1. IsLoop(Kernel, 4, 458784, 458784, 2) /\ 4 \in 1 .. Len(Loops(Kernel))
    BY KernelAreas
  <2> QED
    BY <1>1, <2>1, LoopStarts
<1>6. IsDone(Kernel, 458786)
  <2>1. IsLoop(Kernel, 5, 458786, 458786, 1) /\ 5 \in 1 .. Len(Loops(Kernel))
    BY KernelAreas
  <2> QED
    BY <1>1, <2>1, LoopStarts
<1>7. IsDone(Kernel, 458801)
  <2>1. IsLoop(Kernel, 6, 458801, 458801, 1) /\ 6 \in 1 .. Len(Loops(Kernel))
    BY KernelAreas
  <2> QED
    BY <1>1, <2>1, LoopStarts
<1>8. IsDone(Kernel, 122880)
  <2>1. IsLoop(Kernel, 7, 122880, 122880, GicLen) /\ 7 \in 1 .. Len(Loops(Kernel))
    BY KernelAreas
  <2> QED
    BY <1>1, <2>1, LoopStarts
<1>9. IsDone(Kernel, 65553)
  <2>1. IsLoop(Kernel, 8, 65553, 65553, TimerLen) /\ 8 \in 1 .. Len(Loops(Kernel))
    BY KernelAreas
  <2> QED
    BY <1>1, <2>1, LoopStarts
<1> QED
  BY <1>2, <1>3, <1>4, <1>5, <1>6, <1>7, <1>8, <1>9

LEMMA TasksUse ==
    ASSUME pc # "boot", NEW t \in {T1, T2, Idle}
    PROVE  \A v \in {0, 65553, 122880, 458786, 458800, 458801} : IsDone(t, v)
<1>0. /\ 1 \in 1 .. Len(Loops(t)) /\ 2 \in 1 .. Len(Loops(t))
      /\ 5 \in 1 .. Len(Loops(t)) /\ 6 \in 1 .. Len(Loops(t))
      /\ 7 \in 1 .. Len(Loops(t))
      /\ IsLoop(t, 1, 0, 0, 1) /\ IsLoop(t, 2, 458800, 458800, 2)
      /\ IsLoop(t, 5, 122880, 122880, GicLen) /\ IsLoop(t, 6, 65553, 65553, TimerLen)
      /\ IsLoop(t, 7, 458786, 458786, 1)
  <2>1. CASE t = T1
    BY <2>1, T1Areas
  <2>2. CASE t = T2
    BY <2>2, T2Areas
  <2>3. CASE t = Idle
    BY <2>3, IdleAreas
  <2> QED
    BY <2>1, <2>2, <2>3
<1>1. 0 < RomLen /\ 0 < GicLen /\ 0 < TimerLen
  BY Lengths DEF Upto
<1>2. IsDone(t, 0)
  <2>1. IsLoop(t, 1, 0, 0, 1) /\ 1 \in 1 .. Len(Loops(t))
    BY <1>0
  <2> QED
    BY <1>1, <2>1, LoopStarts
<1>3. IsDone(t, 458800)
  <2>1. IsLoop(t, 2, 458800, 458800, 2) /\ 2 \in 1 .. Len(Loops(t))
    BY <1>0
  <2> QED
    BY <1>1, <2>1, LoopStarts
<1>4. IsDone(t, 122880)
  <2>1. IsLoop(t, 5, 122880, 122880, GicLen) /\ 5 \in 1 .. Len(Loops(t))
    BY <1>0
  <2> QED
    BY <1>1, <2>1, LoopStarts
<1>5. IsDone(t, 65553)
  <2>1. IsLoop(t, 6, 65553, 65553, TimerLen) /\ 6 \in 1 .. Len(Loops(t))
    BY <1>0
  <2> QED
    BY <1>1, <2>1, LoopStarts
<1>6. IsDone(t, 458786)
  <2>1. IsLoop(t, 7, 458786, 458786, 1) /\ 7 \in 1 .. Len(Loops(t))
    BY <1>0
  <2> QED
    BY <1>1, <2>1, LoopStarts
<1>7. IsDone(t, 458801)
  <2>1. IsLoop(t, 2, 458800, 458800, 2) /\ 2 \in 1 .. Len(Loops(t))
    BY <1>0
  <2>2. IsDone(t, 458800 + 1)
    BY <2>1, LoopDone
  <2> QED
    BY <2>2
<1> QED
  BY <1>2, <1>3, <1>4, <1>5, <1>6, <1>7

LEMMA T1Uses ==
    ASSUME pc # "boot"
    PROVE  \A v \in {462672, 462674, 461312} : IsDone(T1, v)
<1>1. IsDone(T1, 462672)
  <2>1. IsLoop(T1, 3, 526160, 462672, 2) /\ 3 \in 1 .. Len(Loops(T1))
    BY T1Areas
  <2> QED
    BY <2>1, LoopStarts
<1>2. IsDone(T1, 462674)
  <2>1. IsLoop(T1, 4, 526162, 462674, 1) /\ 4 \in 1 .. Len(Loops(T1))
    BY T1Areas
  <2> QED
    BY <2>1, LoopStarts
<1>3. IsDone(T1, 461312)
  <2>1. IsLoop(T1, 8, 524288, 461312, 1) /\ 8 \in 1 .. Len(Loops(T1))
    BY T1Areas
  <2> QED
    BY <2>1, LoopStarts
<1> QED
  BY <1>1, <1>2, <1>3

LEMMA T2Uses ==
    ASSUME pc # "boot"
    PROVE  \A v \in {466769, 466770, 466768} : IsDone(T2, v)
<1>1. IsDone(T2, 466769)
  <2>1. IsLoop(T2, 3, 530256, 466769, 2) /\ 3 \in 1 .. Len(Loops(T2))
    BY T2Areas
  <2> QED
    BY <2>1, LoopStarts
<1>2. IsDone(T2, 466770)
  <2>1. IsLoop(T2, 4, 530258, 466770, 1) /\ 4 \in 1 .. Len(Loops(T2))
    BY T2Areas
  <2> QED
    BY <2>1, LoopStarts
<1>3. IsDone(T2, 466768)
  <2>1. IsLoop(T2, 8, 528384, 466768, 1) /\ 8 \in 1 .. Len(Loops(T2))
    BY T2Areas
  <2> QED
    BY <2>1, LoopStarts
<1> QED
  BY <1>1, <1>2, <1>3

LEMMA IdleUses ==
    ASSUME pc # "boot"
    PROVE  \A v \in {528176, 528178} : IsDone(Idle, v)
<1>1. IsDone(Idle, 528176)
  <2>1. IsLoop(Idle, 3, 528176, 528176, 2) /\ 3 \in 1 .. Len(Loops(Idle))
    BY IdleAreas
  <2> QED
    BY <2>1, LoopStarts
<1>2. IsDone(Idle, 528178)
  <2>1. IsLoop(Idle, 4, 528178, 528178, 1) /\ 4 \in 1 .. Len(Loops(Idle))
    BY IdleAreas
  <2> QED
    BY <2>1, LoopStarts
<1> QED
  BY <1>1, <1>2

\* All the code uses under table t, but for what MMU_Set_TTBR0_task uses:
\* the ROM, and the stack of the code it was called from.
Needed(t) ==
    {Vectors, KernelRam, OwnStack(t), Data, Bss, GicRegs, TimerRegs} \cup OwnPages(t)

LEMMA NeededDone ==
    ASSUME pc # "boot", NEW t \in Tables
    PROVE  /\ \A v \in Needed(t) : IsDone(t, v)
           /\ t = Kernel => IsDone(t, Rom)
<1> USE DEF Vectors, KernelRam, Data, Bss, GicRegs, TimerRegs, Rom, KernelStack
<1>1. CASE t = Kernel
  <2>1. /\ OwnStack(t) = 458784 /\ OwnPages(t) = {458768, 458800, 458784}
    BY <1>1 DEF OwnStack, OwnPages, Kernel, T1, T2, Idle
  <2>2. /\ IsDone(t, 0) /\ IsDone(t, 65553) /\ IsDone(t, 122880)
        /\ IsDone(t, 458768) /\ IsDone(t, 458784) /\ IsDone(t, 458786)
        /\ IsDone(t, 458800) /\ IsDone(t, 458801)
    BY <1>1, KernelUses
  <2> QED
    BY <2>1, <2>2 DEF Needed
<1>2. ASSUME t \in {T1, T2, Idle}
      PROVE  /\ IsDone(t, 0) /\ IsDone(t, 65553) /\ IsDone(t, 122880)
             /\ IsDone(t, 458786) /\ IsDone(t, 458800) /\ IsDone(t, 458801)
  BY <1>2, TasksUse
<1>3. CASE t = T1
  <2>1. /\ OwnStack(t) = 462674 /\ OwnPages(t) = {462672, 462674, 461312}
    BY <1>3 DEF OwnStack, OwnPages, StackVir, TextVir, ReadingVir, Kernel, T1, T2, Idle
  <2>2. IsDone(t, 462672) /\ IsDone(t, 462674) /\ IsDone(t, 461312)
    BY <1>3, T1Uses
  <2> QED
    BY <1>2, <1>3, <2>1, <2>2 DEF Needed, Kernel, T1
<1>4. CASE t = T2
  <2>1. /\ OwnStack(t) = 466770 /\ OwnPages(t) = {466769, 466770, 466768}
    BY <1>4 DEF OwnStack, OwnPages, StackVir, TextVir, ReadingVir, Kernel, T1, T2, Idle
  <2>2. IsDone(t, 466769) /\ IsDone(t, 466770) /\ IsDone(t, 466768)
    BY <1>4, T2Uses
  <2> QED
    BY <1>2, <1>4, <2>1, <2>2 DEF Needed, Kernel, T2
<1>5. CASE t = Idle
  <2>1. Text[Idle] = 528176 /\ TextVir[Idle] = 528176
    BY DEF Text, TextVir, T1, T2, Idle
  <2>2. OwnStack(t) = 528178 /\ OwnPages(t) = {528176, 528178}
    BY <1>5, <2>1 DEF OwnStack, OwnPages, StackVir, Stack, Kernel, T1, T2, Idle
  <2>3. IsDone(t, 528176) /\ IsDone(t, 528178)
    BY <1>5, IdleUses
  <2> QED
    BY <1>2, <1>5, <2>2, <2>3 DEF Needed, Kernel, Idle
<1> QED
  BY <1>1, <1>3, <1>4, <1>5 DEF Tables

\* Where a mapped page is mapped to.
LEMMA Frames ==
    ASSUME NEW v \in Nat, Listed(v)
    PROVE  /\ L1Index(v) \in Rows
           /\ \/ Plain(v) /\ Translation(v) = v
              \/ Translation(v) \in {524288, 526160, 526161, 526162, 528384, 530256,
                                     530258}
<1>1. CASE Plain(v)
  BY <1>1, PlainPages
<1>2. CASE v \in Moved
  BY <1>2, TaskPages DEF Moved
<1> QED
  BY <1>1, <1>2 DEF Listed

LEMMA Mapped ==
    ASSUME MemInv, BootInv, pc # "boot", NEW t \in Tables, NEW v, IsDone(t, v)
    PROVE  /\ v \in Nat /\ L1Index(v) \in Rows
           /\ Walk(t, v) = Translation(v) /\ Translation(v) # NoPage
<1>1. v \in Nat /\ L1Index(v) \in Rows /\ Listed(v)
  BY DoneRow
<1>2. L1Index(v) < 4096
  BY <1>1 DEF Rows
<1>3. Walk(t, v) = Target(t, v)
  BY <1>1, <1>2, WalkFinds
<1>4. Target(t, v) = Translation(v)
  BY DEF Target
<1>5. Translation(v) # NoPage
  BY <1>1, Frames DEF NoPage
<1> QED
  BY <1>1, <1>3, <1>4, <1>5

-----------------------------------------------------------------------------
(* The TLB.                                                                *)

LEMMA TouchTlb ==
    ASSUME MemInv, BootInv, TlbInv, pc # "boot", NEW v \in Nat, L1Index(v) \in Rows,
           Reachable(v), Touch(v)
    PROVE  TlbInv'
<1>1. CASE Hit(v)
  BY <1>1 DEF Touch, TlbInv, Translation
<1>2. CASE ~Hit(v)
  <2>1. Walk(ttbr0, v) # NoPage /\ tlb' \in Loaded(v)
    BY <1>2 DEF Reachable, Touch
  <2>2. IsDone(ttbr0, v)
    <3>1. L1Index(v) < 4096
      BY DEF Rows
    <3> QED
      BY <2>1, <3>1, WalkFinds DEF BootInv
  <2>3. Entry(v).virt = v /\ Entry(v).phys = Translation(v)
    BY <2>2, Mapped DEF Entry, BootInv
  <2>4. IsFiniteSet(tlb) /\ Cardinality(tlb) \in Nat /\ Cardinality(tlb) <= TlbSize
    BY FS_CardinalityType DEF TlbInv
  <2>5. TlbSize \in Nat /\ TlbSize >= 1
    BY TlbAssumption
  <2> DEFINE new == Entry(v)
  <2> HIDE DEF new
  <2>6. CASE Cardinality(tlb) < TlbSize /\ tlb' = tlb \cup {new}
    <3>1. /\ IsFiniteSet(tlb')
          /\ Cardinality(tlb') \in {Cardinality(tlb), Cardinality(tlb) + 1}
      BY <2>4, <2>6, FS_AddElement
    <3>2. Cardinality(tlb') <= TlbSize
      BY <2>4, <2>5, <2>6, <3>1
    <3>3. \A e \in tlb' : e \in tlb \/ e = new
      BY <2>6
    <3> QED
      BY <2>3, <3>1, <3>2, <3>3 DEF TlbInv, new
  <2>7. ASSUME NEW e \in tlb, tlb' = (tlb \ {e}) \cup {new}
        PROVE  TlbInv'
    <3>1. /\ IsFiniteSet(tlb \ {e}) /\ Cardinality(tlb \ {e}) = Cardinality(tlb) - 1
      BY <2>4, FS_RemoveElement
    <3>2. /\ IsFiniteSet(tlb')
          /\ Cardinality(tlb') \in {Cardinality(tlb) - 1, Cardinality(tlb) - 1 + 1}
      BY <2>7, <3>1, FS_AddElement
    <3>3. Cardinality(tlb') <= TlbSize
      BY <2>4, <2>5, <3>2
    <3>4. \A x \in tlb' : x \in tlb \/ x = new
      BY <2>7
    <3> QED
      BY <2>3, <3>2, <3>3, <3>4 DEF TlbInv, new
  <2>8. \/ Cardinality(tlb) < TlbSize /\ tlb' = tlb \cup {new}
        \/ \E e \in tlb : tlb' = (tlb \ {e}) \cup {new}
    BY <2>1 DEF Loaded, new
  <2> QED
    BY <2>6, <2>7, <2>8
<1> QED
  BY <1>1, <1>2

-----------------------------------------------------------------------------
(* The invariant holds.                                                    *)

LEMMA NothingDone ==
    ASSUME Init
    PROVE  \A t \in Tables : \A v : ~IsDone(t, v)
<1>1. ASSUME NEW t \in Tables, NEW i, NEW j, Turn(t, i, j), Before(t, i, j)
      PROVE  FALSE
  <2>1. i \in Nat /\ i >= 1 /\ j \in Nat
    BY <1>1, TurnMaps DEF TurnIsRight
  <2>2. ttbr0 = 0 /\ pc = "boot" /\ loop = 1 /\ page = 0 /\ t >= 0 /\ t \in Int
    BY DEF Init, Tables, Kernel, T1, T2, Idle
  <2> QED
    BY <1>1, <2>1, <2>2 DEF Before
<1> QED
  BY <1>1 DEF IsDone

LEMMA InitInv == Init => IInv
<1> SUFFICES ASSUME Init PROVE IInv
  OBVIOUS
<1>0. Len(Loops(Kernel)) = 8 /\ Loops(Kernel)[1].len = 1
  BY KernelAreas DEF IsLoop
<1>1. BootInv
  BY <1>0 DEF Init, BootInv, Tables
<1>2. MemInv
  <2>1. \A t \in Tables : \A v : ~IsDone(t, v)
    BY NothingDone
  <2>2. DOMAIN mem = {}
    BY DEF Init
  <2> QED
    BY <2>1, <2>2 DEF MemInv
<1>3. CodeInv
  BY DEF Init, CodeInv, Tables
<1>4. TlbInv
  BY FS_EmptySet, TlbAssumption DEF Init, TlbInv
<1> QED
  BY <1>1, <1>2, <1>3, <1>4 DEF IInv

LEMMA MapInv ==
    ASSUME IInv, MapPage
    PROVE  IInv'
<1>1. BootInv /\ CodeInv /\ TlbInv /\ MemInv
  BY DEF IInv
<1>2. /\ pc = "boot" /\ Turn(ttbr0, loop, page)
      /\ UNCHANGED <<ttbr0, left, pc, touched, tlb, fault>>
      /\ \/ page + 1 < Loops(ttbr0)[loop].len /\ page' = page + 1 /\ loop' = loop
         \/ page + 1 = Loops(ttbr0)[loop].len /\ page' = 0 /\ loop' = loop + 1
  BY <1>1, MapEffect
<1>3. MemInv'
  BY <1>1, MapMemory
<1>4. /\ ttbr0 \in Tables /\ loop \in Nat /\ 1 <= loop /\ page \in Nat /\ tlb = {}
      /\ loop <= Len(Loops(ttbr0)) /\ Len(Loops(ttbr0)) \in {7, 8}
  BY <1>1, <1>2, LoopsOfTable DEF BootInv, Turn
<1>5. ASSUME NEW t \in Tables, NEW i \in 1 .. Len(Loops(t))
      PROVE  0 < Loops(t)[i].len
  BY <1>5, LoopLengths
<1>6. BootInv'
  <2>1. CASE page' = page + 1 /\ loop' = loop /\ page + 1 < Loops(ttbr0)[loop].len
    BY <1>2, <1>4, <2>1 DEF BootInv
  <2>2. CASE page' = 0 /\ loop' = loop + 1
    <3>1. loop + 1 <= Len(Loops(ttbr0)) => 0 < Loops(ttbr0)[loop + 1].len
      BY <1>4, <1>5
    <3> QED
      BY <1>2, <1>4, <2>2, <3>1 DEF BootInv
  <2> QED
    BY <1>2, <2>1, <2>2
<1>7. CodeInv' /\ TlbInv'
  BY <1>1, <1>2 DEF CodeInv, TlbInv, Translation
<1> QED
  BY <1>3, <1>6, <1>7 DEF IInv

LEMMA TableInv ==
    ASSUME IInv, NextTable \/ MmuOn
    PROVE  IInv'
<1>1. BootInv /\ CodeInv /\ TlbInv /\ MemInv
  BY DEF IInv
<1>2. MemInv'
  <2>1. UNCHANGED mem /\ SameMap
    BY <1>1, NextTableMap, MmuOnMap DEF NextTable, MmuOn
  <2> QED
    BY <1>1, <2>1, SameMemory
<1>3. TlbInv'
  <2>1. tlb' = {}
    BY DEF NextTable, MmuOn
  <2> QED
    BY <2>1, FS_EmptySet, TlbAssumption DEF TlbInv
<1>4. CodeInv'
  BY <1>1 DEF CodeInv, NextTable, MmuOn
<1>5. CASE NextTable
  <2>1. ttbr0' \in Tables
    BY <1>1, <1>5 DEF NextTable, BootInv, Tables, Kernel, T1, T2, Idle
  <2>2. /\ pc' = "boot" /\ loop' = 1 /\ page' = 0 /\ tlb' = {}
    BY <1>1, <1>5 DEF NextTable, BootInv
  <2>3. Len(Loops(ttbr0')) \in {7, 8} /\ 1 \in 1 .. Len(Loops(ttbr0'))
    BY <2>1, LoopsOfTable
  <2>4. 0 < Loops(ttbr0')[1].len
    BY <2>1, <2>3, LoopLengths
  <2>5. BootInv'
    BY <2>1, <2>2, <2>3, <2>4 DEF BootInv
  <2> QED
    BY <1>2, <1>3, <1>4, <2>5 DEF IInv
<1>6. CASE MmuOn
  <2>1. BootInv'
    BY <1>1, <1>6 DEF MmuOn, BootInv, Tables
  <2> QED
    BY <1>2, <1>3, <1>4, <2>1 DEF IInv
<1> QED
  BY <1>5, <1>6

\* An access of the code that is running: it is translated, or it is one of
\* the two of MMU_Set_TTBR0_task.
LEMMA Access ==
    ASSUME IInv, pc # "boot", NEW v,
           v \in Needed(ttbr0) \/ v = Rom \/ v = OwnStack(left)
    PROVE  /\ Touch(v) /\ Reachable(v) => TlbInv'
           /\ Abort(v) => Strange(v)
<1>1. /\ BootInv /\ CodeInv /\ TlbInv /\ MemInv /\ ttbr0 \in Tables
      /\ left \in Tables
  BY DEF IInv, BootInv, CodeInv
<1>2. OwnStack(left) \in Needed(left)
  BY DEF Needed
<1>3. IsDone(left, OwnStack(left))
  BY <1>1, <1>2, NeededDone
<1>4. IsDone(ttbr0, v) \/ Strange(v)
  BY <1>1, <1>3, NeededDone DEF Strange
<1>5. v \in Nat /\ L1Index(v) \in Rows
  <2>1. CASE IsDone(ttbr0, v)
    BY <1>1, <2>1, DoneRow
  <2>2. CASE v = Rom
    BY <2>2 DEF Rom, L1Index, Rows
  <2>3. CASE v = OwnStack(left)
    BY <1>1, <1>3, <2>3, DoneRow
  <2> QED
    BY <1>4, <2>1, <2>2, <2>3 DEF Strange
<1>6. Touch(v) /\ Reachable(v) => TlbInv'
  BY <1>1, <1>5, TouchTlb
<1>7. IsDone(ttbr0, v) => Reachable(v)
  BY <1>1, Mapped DEF Reachable
<1> QED
  BY <1>4, <1>6, <1>7 DEF Abort

\* An access that aborts.
LEMMA AbortInv ==
    ASSUME IInv, pc # "boot", NEW v, UNCHANGED left,
           v \in Needed(ttbr0) \/ v = Rom \/ v = OwnStack(left),
           Abort(v), touched <= 6
    PROVE  TlbInv' /\ CodeInv'
<1>1. /\ Strange(v) /\ pc' = "abort" /\ fault' = v
      /\ UNCHANGED <<bootVars, ttbr0, left, touched, tlb>>
  BY Access DEF Abort
<1>2. TlbInv'
  BY <1>1 DEF IInv, TlbInv, Translation
<1>3. touched \in Nat /\ left \in Tables
  BY DEF IInv, CodeInv
<1>4. Strange(fault)'
  BY <1>1 DEF Strange
<1> QED
  BY <1>1, <1>2, <1>3, <1>4 DEF CodeInv

\* What running changes.
LEMMA Running ==
    ASSUME IInv, pc # "boot", pc' # "boot", UNCHANGED bootVars, ttbr0' \in Tables,
           TlbInv', CodeInv'
    PROVE  IInv'
<1>1. BootInv /\ MemInv /\ UNCHANGED <<mem, loop, page>>
  BY DEF IInv, bootVars
<1>2. MemInv'
  BY <1>1, RunMap, SameMemory
<1>3. BootInv'
  BY <1>1 DEF BootInv
<1> QED
  BY <1>2, <1>3 DEF IInv

LEMMA RunInv ==
    ASSUME IInv, RunStep
    PROVE  IInv'
<1>1. PICK v \in OwnPages(ttbr0) :
         \/ Abort(v)
         \/ Reachable(v) /\ Touch(v) /\ UNCHANGED <<bootVars, ttbr0, pc, touched, fault>>
  BY DEF RunStep
<1>2. /\ pc = "run" /\ v \in Needed(ttbr0) /\ ttbr0 \in Tables /\ UNCHANGED left
      /\ touched = 0
  BY DEF RunStep, Needed, IInv, BootInv, CodeInv
<1>3. CASE Abort(v)
  <2>1. TlbInv' /\ CodeInv'
    BY <1>2, <1>3, AbortInv
  <2>2. pc' = "abort" /\ UNCHANGED <<bootVars, ttbr0>>
    BY <1>3 DEF Abort
  <2> QED
    BY <1>2, <2>1, <2>2, Running
<1>4. CASE Reachable(v) /\ Touch(v) /\ UNCHANGED <<bootVars, ttbr0, pc, touched, fault>>
  <2>1. TlbInv'
    BY <1>2, <1>4, Access
  <2>2. CodeInv'
    BY <1>2, <1>4 DEF IInv, CodeInv
  <2> QED
    BY <1>2, <1>4, <2>1, <2>2, Running
<1> QED
  BY <1>1, <1>3, <1>4

LEMMA IrqInv ==
    ASSUME IInv, Irq
    PROVE  IInv'
<1>1. /\ pc = "run" /\ pc' = "irq" /\ ttbr0' \in Tables
      /\ UNCHANGED <<bootVars, ttbr0, left, touched, tlb, fault>>
  BY DEF Irq, IInv, BootInv
<1>2. TlbInv' /\ CodeInv'
  BY <1>1 DEF IInv, TlbInv, Translation, CodeInv
<1> QED
  BY <1>1, <1>2, Running

\* An access of the handler, of MMU_Set_TTBR0_task, or of the way back.
LEMMA CodeStepInv ==
    ASSUME IInv, NEW at \in {"irq", "switch", "back"}, NEW pages, NEW next,
           CodeStep(at, pages, next), left' \in Tables, pc' = "abort" => left' = left,
           \/ pages[touched + 1] \in Needed(ttbr0)
           \/ pages[touched + 1] = Rom
           \/ pages[touched + 1] = OwnStack(left),
           at = "irq" => Len(pages) = 7 /\ next = "switch",
           at = "switch" => Len(pages) = 3 /\ next = "mcr",
           at = "back" => Len(pages) = 6 /\ next = "run"
    PROVE  IInv'
<1> DEFINE v == pages[touched + 1]
<1>1. /\ pc = at
      /\ \/ Abort(v)
         \/ /\ Reachable(v) /\ Touch(v)
            /\ IF touched + 1 < Len(pages)
               THEN touched' = touched + 1 /\ UNCHANGED pc
               ELSE touched' = 0 /\ pc' = next
            /\ UNCHANGED <<bootVars, ttbr0, fault>>
  BY DEF CodeStep
<1>2. /\ pc # "boot" /\ ttbr0 \in Tables
      /\ v \in Needed(ttbr0) \/ v = Rom \/ v = OwnStack(left)
  BY <1>1 DEF IInv, BootInv
<1> HIDE DEF v
<1>3. /\ touched \in Nat /\ (pc = "irq" => touched <= 6)
      /\ (pc = "switch" => touched <= 2) /\ (pc = "back" => touched <= 5)
  BY DEF IInv, CodeInv
<1>4. CASE Abort(v)
  <2>1. pc' = "abort" /\ UNCHANGED <<bootVars, ttbr0>> /\ left' = left
    BY <1>4 DEF Abort
  <2>2. touched <= 6
    BY <1>1, <1>3
  <2>3. TlbInv' /\ CodeInv'
    BY <1>2, <1>4, <2>1, <2>2, AbortInv
  <2> QED
    BY <1>2, <2>1, <2>3, Running
<1>5. CASE /\ Reachable(v) /\ Touch(v)
           /\ IF touched + 1 < Len(pages)
              THEN touched' = touched + 1 /\ UNCHANGED pc
              ELSE touched' = 0 /\ pc' = next
           /\ UNCHANGED <<bootVars, ttbr0, fault>>
  <2>1. TlbInv'
    BY <1>2, <1>5, Access
  <2>2. CodeInv'
    <3>1. fault' = NoPage
      BY <1>1, <1>5 DEF IInv, CodeInv
    <3>2. CASE touched + 1 < Len(pages)
      <4>1. touched' = touched + 1 /\ pc' = at
        BY <1>1, <1>5, <3>2
      <4>2. CASE at = "irq"
        <5>0. Len(pages) = 7
          BY <4>2
        <5>1. touched' \in Nat /\ touched' <= 6
          <6>1. touched + 1 < 7
            BY <3>2, <5>0
          <6> QED
            BY <1>3, <4>1, <6>1
        <5> QED
          BY <3>1, <4>1, <4>2, <5>1 DEF CodeInv
      <4>3. CASE at = "switch"
        <5>0. Len(pages) = 3
          BY <4>3
        <5>1. touched' \in Nat /\ touched' <= 2
          <6>1. touched + 1 < 3
            BY <3>2, <5>0
          <6> QED
            BY <1>3, <4>1, <6>1
        <5> QED
          BY <3>1, <4>1, <4>3, <5>1 DEF CodeInv
      <4>4. CASE at = "back"
        <5>0. Len(pages) = 6
          BY <4>4
        <5>1. touched' \in Nat /\ touched' <= 5
          <6>1. touched + 1 < 6
            BY <3>2, <5>0
          <6> QED
            BY <1>3, <4>1, <6>1
        <5> QED
          BY <3>1, <4>1, <4>4, <5>1 DEF CodeInv
      <4> QED
        BY <4>2, <4>3, <4>4
    <3>3. CASE ~(touched + 1 < Len(pages))
      <4>1. touched' = 0 /\ pc' = next /\ next \in {"switch", "mcr", "run"}
        BY <1>5, <3>3
      <4> QED
        BY <3>1, <4>1 DEF CodeInv
    <3> QED
      BY <3>2, <3>3
  <2>3. pc' # "boot" /\ UNCHANGED bootVars /\ ttbr0' \in Tables
    BY <1>1, <1>2, <1>5
  <2> QED
    BY <1>2, <2>1, <2>2, <2>3, Running
<1> QED
  BY <1>1, <1>4, <1>5

LEMMA HandlerInv ==
    ASSUME IInv, HandlerStep
    PROVE  IInv'
<1> DEFINE pages == HandlerPages(ttbr0)
<1>1. touched \in Nat /\ touched <= 6 /\ left' = left /\ left' \in Tables
  BY DEF HandlerStep, CodeStep, IInv, CodeInv
<1>2. /\ Len(pages) = 7 /\ pages[1] = Vectors /\ pages[2] = KernelRam
      /\ pages[3] = OwnStack(ttbr0) /\ pages[4] = Data /\ pages[5] = Bss
      /\ pages[6] = GicRegs /\ pages[7] = TimerRegs
  BY DEF HandlerPages
<1> HIDE DEF pages
<1>3. pages[touched + 1] \in Needed(ttbr0)
  <2>1. touched + 1 \in {1, 2, 3, 4, 5, 6, 7}
    BY <1>1
  <2> QED
    BY <1>2, <2>1 DEF Needed
<1>4. CodeStep("irq", pages, "switch")
  BY DEF HandlerStep, pages
<1> QED
  BY <1>1, <1>2, <1>3, <1>4, CodeStepInv

LEMMA SwitchInv ==
    ASSUME IInv, SwitchStep
    PROVE  IInv'
<1> DEFINE pages == SwitchPages(ttbr0)
<1>1. touched \in Nat /\ touched <= 2 /\ left' = left /\ left' \in Tables
  BY DEF SwitchStep, CodeStep, IInv, CodeInv
<1>2. /\ Len(pages) = 3 /\ pages[1] = Rom /\ pages[2] = OwnStack(ttbr0)
      /\ pages[3] = Rom
  BY DEF SwitchPages
<1> HIDE DEF pages
<1>3. pages[touched + 1] \in Needed(ttbr0) \/ pages[touched + 1] = Rom
  <2>1. touched + 1 \in {1, 2, 3}
    BY <1>1
  <2> QED
    BY <1>2, <2>1 DEF Needed
<1>4. CodeStep("switch", pages, "mcr")
  BY DEF SwitchStep, pages
<1> QED
  BY <1>1, <1>2, <1>3, <1>4, CodeStepInv

LEMMA ReturnInv ==
    ASSUME IInv, ReturnStep
    PROVE  IInv'
<1> DEFINE pages == ReturnPages(left, ttbr0)
<1>1. touched \in Nat /\ touched <= 5
  BY DEF ReturnStep, CodeStep, IInv, CodeInv
<1>2. left' \in Tables /\ (pc' = "abort" => left' = left)
  BY DEF ReturnStep, IInv, CodeInv, BootInv
<1>3. /\ Len(pages) = 6 /\ pages[1] = Rom /\ pages[2] = OwnStack(left)
      /\ pages[3] = Rom /\ pages[4] = KernelRam /\ pages[5] = Bss
      /\ pages[6] = OwnStack(ttbr0)
  BY DEF ReturnPages
<1> HIDE DEF pages
<1>4. \/ pages[touched + 1] \in Needed(ttbr0)
      \/ pages[touched + 1] = Rom
      \/ pages[touched + 1] = OwnStack(left)
  <2>1. touched + 1 \in {1, 2, 3, 4, 5, 6}
    BY <1>1
  <2> QED
    BY <1>3, <2>1 DEF Needed
<1>5. CodeStep("back", pages, "run")
  BY DEF ReturnStep, pages
<1> QED
  BY <1>2, <1>3, <1>4, <1>5, CodeStepInv

LEMMA McrInv ==
    ASSUME IInv, SetTtbr0
    PROVE  IInv'
<1>1. /\ pc = "mcr" /\ ttbr0 \in Tables /\ left' = ttbr0 /\ pc' = "back"
      /\ ttbr0' \in Scheduled(ttbr0) /\ UNCHANGED <<bootVars, touched, tlb, fault>>
  BY DEF SetTtbr0, IInv, BootInv
<1>2. ttbr0' \in Tables
  BY <1>1 DEF Scheduled, Tables, Kernel, T1, T2, Idle
<1>3. TlbInv' /\ CodeInv'
  BY <1>1 DEF IInv, TlbInv, Translation, CodeInv
<1> QED
  BY <1>1, <1>2, <1>3, Running

LEMMA Invariant == Spec => []IInv
<1>1. IInv /\ [Next]_vars => IInv'
  <2> SUFFICES ASSUME IInv, [Next]_vars PROVE IInv'
    OBVIOUS
  <2>1. CASE UNCHANGED vars
    <3>1. UNCHANGED <<mem, loop, page, ttbr0, left, pc, touched, tlb, fault>>
      BY <2>1 DEF vars, bootVars
    <3>2. BootInv' /\ CodeInv' /\ TlbInv'
      BY <3>1 DEF IInv, BootInv, CodeInv, Strange, TlbInv, Translation
    <3>3. MemInv'
      <4>1. SameMap
        BY <3>1 DEF SameMap, IsDone, Before, Turn, Virt, Target
      <4> QED
        BY <3>1, <4>1, SameMemory DEF IInv
    <3> QED
      BY <3>2, <3>3 DEF IInv
  <2> QED
    BY <2>1, MapInv, TableInv, RunInv, IrqInv, HandlerInv, SwitchInv, McrInv,
       ReturnInv
       DEF Next
<1> QED
  BY InitInv, <1>1, PTL DEF Spec

-----------------------------------------------------------------------------
(* The theorems.                                                           *)

\* Where a table maps a page is a page.
LEMMA TargetIsPage ==
    ASSUME NEW t \in Tables, NEW v, IsDone(t, v)
    PROVE  /\ v \in Nat /\ Target(t, v) \in Nat
           /\ \/ Plain(Target(t, v))
              \/ Target(t, v) \in {524288, 526160, 526161, 526162, 528384, 530256,
                                   530257, 530258}
<1>1. v \in Nat /\ Listed(v)
  BY DoneRow
<1>2. CASE Target(t, v) = 530257
  BY <1>1, <1>2
<1>3. CASE Target(t, v) = Translation(v)
  BY <1>1, <1>3, Frames
<1> QED
  BY <1>2, <1>3 DEF Target

\* The variables of board_init, of the running code and of the TLB keep
\* their types, and the TLB never holds more than its size: for areas of
\* any length td3_memmap.ld leaves room for, and a TLB of any size.
THEOREM TypeCorrect == Spec => []TypeOK
<1>1. IInv => TypeOK
  <2> SUFFICES ASSUME IInv PROVE TypeOK
    OBVIOUS
  <2>1. ASSUME NEW w \in DOMAIN mem
        PROVE  mem[w].kind \in {"table", "page"} /\ mem[w].at \in Nat
    <3>1. PICK t \in Tables, v \in Nat :
             /\ IsDone(t, v)
             /\ mem[w] = TableEntry(t, v) \/ mem[w] = PageEntry(t, v)
      BY DEF IInv, MemInv
    <3>2. CASE mem[w] = TableEntry(t, v)
      <4>1. L2Table(t, v) \in Nat
        <5>1. Base(t) \in Nat
          BY Bases DEF Tables
        <5>2. L1Index(v) \in Nat
          BY PageWord
        <5> QED
          BY <5>1, <5>2 DEF L2Table, WordsPerPage, L1Words, L2Words
      <4> QED
        BY <3>2, <4>1 DEF TableEntry
    <3>3. CASE mem[w] = PageEntry(t, v)
      BY <3>1, <3>3, TargetIsPage DEF PageEntry
    <3> QED
      BY <3>1, <3>2, <3>3
  <2>2. ttbr0 \in Tables /\ loop \in 1 .. 9 /\ page \in Nat
    BY DEF IInv, BootInv
  <2>3. page \in 0 .. 49
    <3>1. CASE pc = "boot" /\ loop <= Len(Loops(ttbr0))
      <4>1. page < Loops(ttbr0)[loop].len /\ loop \in 1 .. Len(Loops(ttbr0))
        BY <2>2, <3>1, LoopsOfTable DEF IInv, BootInv
      <4>2. Upto(Loops(ttbr0)[loop].len, 49)
        <5>1. Turn(ttbr0, loop, page)
          BY <2>2, <4>1 DEF Turn
        <5> QED
          BY <2>2, <5>1, TurnMaps DEF TurnIsRight
      <4> QED
        BY <2>2, <4>1, <4>2 DEF Upto
    <3>2. CASE pc = "boot" => loop > Len(Loops(ttbr0))
      BY <3>2 DEF IInv, BootInv
    <3> QED
      BY <2>2, <3>1, <3>2, LoopsOfTable
  <2>4. /\ pc \in {"boot", "run", "irq", "switch", "mcr", "back", "abort"}
        /\ touched \in 0 .. 6 /\ left \in Tables
    BY DEF IInv, CodeInv
  <2>5. OwnStack(left) # NoPage /\ Rom # NoPage
    BY <2>4 DEF OwnStack, StackVir, Stack, Text, KernelStack, Rom, NoPage, Tables,
                Kernel, T1, T2, Idle
  <2>6. fault = NoPage <=> pc # "abort"
    BY <2>5 DEF IInv, CodeInv, Strange
  <2> QED
    BY <2>1, <2>2, <2>3, <2>4, <2>6 DEF TypeOK, IInv, TlbInv
<1> QED
  BY <1>1, Invariant, PTL

\* cargar_contexto changes table with its call of MMU_Invalidate_TLB
\* commented out.  It does no harm: whatever tasks and handler have loaded
\* under other tables, every entry agrees with the present table or is for
\* a page that one does not map.
THEOREM SwitchesAreHarmless == Spec => []NoStaleEntry
<1>1. IInv => NoStaleEntry
  <2> SUFFICES ASSUME IInv, NEW e \in tlb
               PROVE  Walk(ttbr0, e.virt) \in {e.phys, NoPage}
    BY DEF NoStaleEntry
  <2>1. pc # "boot" /\ ttbr0 \in Tables
    BY DEF IInv, BootInv
  <2>2. e.virt \in Nat /\ L1Index(e.virt) < 4096 /\ e.phys = Translation(e.virt)
    BY DEF IInv, TlbInv, Rows
  <2>3. Walk(ttbr0, e.virt) = IF IsDone(ttbr0, e.virt) THEN Target(ttbr0, e.virt)
                                                       ELSE NoPage
    BY <2>1, <2>2, WalkFinds DEF IInv
  <2>4. Target(ttbr0, e.virt) = Translation(e.virt)
    BY <2>1 DEF Target
  <2> QED
    BY <2>2, <2>3, <2>4
<1> QED
  BY <1>1, Invariant, PTL

\* Under every table all that the tasks, timer_handler and cargar_contexto
\* use is mapped, but for two pages of MMU_Set_TTBR0_task: its fetch from the
\* ROM under a task's table, and, after its MCR has put another table in
\* force, the stack of the interrupted code that its epilogue pops.  Only
\* these accesses can end in an abort.
THEOREM OnlyTheSwitchAborts == Spec => []OnlySwitchAborts
<1>1. IInv => OnlySwitchAborts
  BY DEF IInv, CodeInv, OnlySwitchAborts, Strange
<1> QED
  BY <1>1, Invariant, PTL

\* The pages the words of a table lie in.
LEMMA WordPages ==
    ASSUME NEW t \in Tables, NEW v \in Nat, Listed(v),
           NEW w \in {L1Word(t, v), L2Word(t, v)}
    PROVE  /\ w \in Nat
           /\ t = Kernel => 461056 <= w \div 1024 /\ w \div 1024 <= 461575
           /\ t \in {T1, Idle} => 524496 <= w \div 1024 /\ w \div 1024 <= 525031
           /\ t = T2 => \/ 528128 <= w \div 1024 /\ w \div 1024 <= 528132
                        \/ 528196 <= w \div 1024 /\ w \div 1024 <= 528252
                        \/ 528580 <= w \div 1024 /\ w \div 1024 <= 528647
<1>1. /\ L1Index(v) \in Nat /\ L2Word(t, v) = Base(t) * 1024 + 4096 + v
      /\ L1Word(t, v) = Base(t) * 1024 + L1Index(v)
  BY PageWord
<1>2. L1Index(v) <= 2063 /\ v <= 528178
  BY Frames, PlainPages, TaskPages DEF Listed, Rows
<1>3. v = 0 \/ (65553 <= v /\ v <= 122928) \/ 458768 <= v
  BY DEF Listed, Plain, Moved
<1>4. t = Kernel \/ t = T1 \/ t = T2 \/ t = Idle
  BY DEF Tables
<1>5. Kernel # T1 /\ Kernel # T2 /\ Kernel # Idle /\ T1 # T2 /\ T1 # Idle /\ T2 # Idle
  BY DEF Kernel, T1, T2, Idle
<1>6. CASE t = Kernel
  BY <1>1, <1>2, <1>5, <1>6, Bases
<1>7. CASE t \in {T1, Idle}
  BY <1>1, <1>2, <1>5, <1>7, Bases
<1>8. CASE t = T2 /\ w = L1Word(t, v)
  BY <1>1, <1>2, <1>5, <1>8, Bases
<1>9. CASE t = T2 /\ w = L2Word(t, v)
  BY <1>1, <1>2, <1>3, <1>5, <1>9, Bases
<1> QED
  BY <1>4, <1>6, <1>7, <1>8, <1>9

\* No word MMU_MapNewPage has written, in any of the four tables, lies in
\* a page that some table maps: no store of a task or of the handler can
\* change a translation.
THEOREM TablesAreSafe == Spec => []TablesOutOfReach
<1>1. IInv => TablesOutOfReach
  <2> SUFFICES ASSUME IInv, NEW w \in DOMAIN mem, NEW x \in DOMAIN mem,
                      mem[x].kind = "page", w \div 1024 = mem[x].at
               PROVE  FALSE
    BY DEF TablesOutOfReach, MappedPages, WordsPerPage
  <2>1. PICK t \in Tables, v \in Nat :
           IsDone(t, v) /\ w \in {L1Word(t, v), L2Word(t, v)}
    BY DEF IInv, MemInv
  <2>2. PICK u \in Tables, z \in Nat : IsDone(u, z) /\ mem[x].at = Target(u, z)
    BY DEF IInv, MemInv, TableEntry, PageEntry
  <2>3. Listed(v)
    BY <2>1, DoneRow
  <2> DEFINE g == w \div 1024
  <2>4. /\ t = Kernel => 461056 <= g /\ g <= 461575
        /\ t \in {T1, Idle} => 524496 <= g /\ g <= 525031
        /\ t = T2 => \/ 528128 <= g /\ g <= 528132
                     \/ 528196 <= g /\ g <= 528252
                     \/ 528580 <= g /\ g <= 528647
        /\ g \in Nat
    BY <2>1, <2>3, WordPages
  <2>5. \/ Plain(g)
        \/ g \in {524288, 526160, 526161, 526162, 528384, 530256, 530257, 530258}
    BY <2>2, TargetIsPage
  <2> HIDE DEF g
  <2> QED
    BY <2>4, <2>5 DEF Plain, Tables
<1> QED
  BY <1>1, Invariant, PTL

-----------------------------------------------------------------------------
(* The tables as address spaces.                                           *)

DonePages(t) == {v \in Nat : IsDone(t, v)}

\* The translation a table gives is that of the pages mapped so far.
SpacesInv == \A t \in Tables : Space(t) = [v \in DonePages(t) |-> Target(t, v)]

LEMMA SpaceFound ==
    ASSUME MemInv, NEW t \in Tables
    PROVE  Space(t) = [v \in DonePages(t) |-> Target(t, v)]
<1> DEFINE first == Base(t) * 1024
           l1 == {w \in DOMAIN mem : /\ w \in first .. first + 4096 - 1
                                     /\ mem[w].kind = "table"}
           row(w) == {256 * (w - first) + (x - mem[w].at) :
                         x \in {y \in DOMAIN mem : y - mem[w].at \in 0 .. 256 - 1}}
           mapped == UNION {row(w) : w \in l1}
           found == {u \in mapped : Walk(t, u) # NoPage}
<1>1. Space(t) = [v \in found |-> Walk(t, v)]
  BY DEF Space, WordsPerPage, L1Words, L2Words
<1>2. first \in Nat
  BY Bases DEF Tables
<1>3. ASSUME NEW w \in l1, NEW x \in DOMAIN mem, x - mem[w].at \in 0 .. 255,
             NEW u, u = 256 * (w - first) + (x - mem[w].at)
      PROVE  u \in Nat /\ L1Index(u) < 4096
  <2>1. w - first \in 0 .. 4095
    BY <1>2
  <2> DEFINE a == w - first
             b == x - mem[w].at
  <2>2. a \in 0 .. 4095 /\ b \in 0 .. 255 /\ u = 256 * a + b
    BY <1>3, <2>1
  <2> HIDE DEF a, b
  <2>3. u \in Nat /\ u < 1048576
    BY <2>2
  <2> QED
    BY <2>3 DEF L1Index
<1>4. ASSUME NEW u \in mapped
      PROVE  u \in Nat /\ L1Index(u) < 4096
  <2>1. PICK w \in l1 : u \in row(w)
    BY <1>4
  <2>2. PICK x \in DOMAIN mem : /\ x - mem[w].at \in 0 .. 255
                                /\ u = 256 * (w - first) + (x - mem[w].at)
    BY <2>1
  <2> HIDE DEF l1, mapped, first
  <2> QED
    BY <1>3, <2>2
<1>5. ASSUME NEW v \in Nat, IsDone(t, v)
      PROVE  v \in mapped /\ L1Index(v) < 4096
  <2> DEFINE w == L1Word(t, v)
             x == L2Word(t, v)
  <2>1. /\ L1Index(v) \in Nat /\ L2Index(v) \in Nat /\ L2Index(v) < 256
        /\ v = 256 * L1Index(v) + L2Index(v) /\ w = first + L1Index(v)
    BY PageWord
  <2>2. L1Index(v) < 4096
    BY <1>5, DoneRow DEF Rows
  <2>3. /\ w \in DOMAIN mem /\ mem[w] = TableEntry(t, v) /\ x \in DOMAIN mem
    BY <1>5 DEF MemInv
  <2>4. mem[w].kind = "table" /\ mem[w].at = L2Table(t, v)
    BY <2>3 DEF TableEntry
  <2>5. w \in l1
    BY <1>2, <2>1, <2>2, <2>3, <2>4
  <2>6. x - mem[w].at = L2Index(v)
    <3>1. x = L2Table(t, v) + L2Index(v) /\ L2Table(t, v) \in Nat
      BY <1>2, <2>1 DEF L2Word, L2Table, WordsPerPage, L1Words, L2Words
    <3> QED
      BY <2>1, <2>4, <3>1
  <2>7. w - first = L1Index(v)
    BY <1>2, <2>1
  <2>8. v = 256 * (w - first) + (x - mem[w].at) /\ x - mem[w].at \in 0 .. 256 - 1
    <3> DEFINE a == w - first
               b == x - mem[w].at
    <3>1. a = L1Index(v) /\ b = L2Index(v)
      BY <2>6, <2>7
    <3> HIDE DEF a, b
    <3>2. v = 256 * a + b /\ b \in 0 .. 256 - 1
      BY <2>1, <3>1
    <3> QED
      BY <3>2 DEF a, b
  <2>9. v \in row(w)
    BY <2>3, <2>8
  <2> QED
    BY <2>2, <2>5, <2>9
<1> HIDE DEF mapped
<1>6. found = DonePages(t)
  <2>1. ASSUME NEW u \in found
        PROVE  u \in Nat /\ IsDone(t, u)
    BY <1>4, <2>1, WalkFinds
  <2>2. ASSUME NEW v \in Nat, IsDone(t, v)
        PROVE  v \in found
    <3>1. Walk(t, v) = Target(t, v)
      BY <1>5, <2>2, WalkFinds
    <3>2. Target(t, v) # NoPage
      BY <2>2, TargetIsPage DEF NoPage
    <3> QED
      BY <1>5, <2>2, <3>1, <3>2
  <2> QED
    BY <2>1, <2>2 DEF DonePages
<1>7. \A v \in DonePages(t) : Walk(t, v) = Target(t, v)
  BY <1>5, WalkFinds DEF DonePages
<1> HIDE DEF found
<1> QED
  BY <1>1, <1>6, <1>7

\* v is one of the n pages from a on.
InArea(v, a, n) == \E j \in Nat : j < n /\ v = a + j

LEMMA AreaPages ==
    ASSUME NEW a \in Nat, NEW n \in Nat
    PROVE  \A v : v \in a .. a + n - 1 <=> InArea(v, a, n)
<1> SUFFICES ASSUME NEW v PROVE v \in a .. a + n - 1 <=> InArea(v, a, n)
  OBVIOUS
<1>1. ASSUME v \in a .. a + n - 1 PROVE InArea(v, a, n)
  <2>1. v - a \in Nat /\ v - a < n /\ v = a + (v - a)
    BY <1>1
  <2> QED
    BY <2>1 DEF InArea
<1>2. ASSUME InArea(v, a, n) PROVE v \in a .. a + n - 1
  BY <1>2 DEF InArea
<1> QED
  BY <1>1, <1>2

LEMMA ShortAreas ==
    ASSUME NEW a \in Nat, NEW v
    PROVE  /\ InArea(v, a, 1) <=> v = a
           /\ InArea(v, a, 2) <=> v \in {a, a + 1}
BY DEF InArea

\* The pages board_init maps in table t, all its loops together.
LoopPages(t) == {v \in Nat : \E i, j : Turn(t, i, j) /\ v = Virt(t, i, j)}

\* Those of one loop.
InLoop(t, i, v) == \E j : Turn(t, i, j) /\ v = Virt(t, i, j)

LEMMA PagesOfLoop ==
    ASSUME NEW t, NEW i \in 1 .. Len(Loops(t)), NEW v
    PROVE  InLoop(t, i, v) <=> InArea(v, Loops(t)[i].virt, Loops(t)[i].len)
BY DEF InLoop, Turn, Virt, InArea

LEMMA PagesOfLoops ==
    ASSUME NEW t \in Tables, NEW v
    PROVE  v \in LoopPages(t) <=> \E i \in 1 .. Len(Loops(t)) : InLoop(t, i, v)
<1>1. ASSUME NEW i, NEW j, Turn(t, i, j)
      PROVE  i \in 1 .. Len(Loops(t)) /\ Virt(t, i, j) \in Nat
  BY <1>1, TurnMaps DEF Turn, TurnIsRight
<1> QED
  BY <1>1 DEF LoopPages, InLoop

LEMMA KernelLoopPages ==
    ASSUME NEW v
    PROVE  v \in LoopPages(Kernel) <=>
              \/ v \in {0, 458800, 458801, 458784, 458785, 458786}
              \/ InArea(v, 458768, RomLen)
              \/ InArea(v, 122880, GicLen)
              \/ InArea(v, 65553, TimerLen)
<1>1. v \in LoopPages(Kernel) <=> \E i \in 1 .. 8 : InLoop(Kernel, i, v)
  <2>1. Len(Loops(Kernel)) = 8 /\ Kernel \in Tables
    BY KernelAreas DEF Tables
  <2> QED
    BY <2>1, PagesOfLoops
<1>2. /\ InLoop(Kernel, 1, v) <=> InArea(v, 0, 1)
      /\ InLoop(Kernel, 2, v) <=> InArea(v, 458768, RomLen)
      /\ InLoop(Kernel, 3, v) <=> InArea(v, 458800, 2)
      /\ InLoop(Kernel, 4, v) <=> InArea(v, 458784, 2)
      /\ InLoop(Kernel, 5, v) <=> InArea(v, 458786, 1)
      /\ InLoop(Kernel, 6, v) <=> InArea(v, 458801, 1)
      /\ InLoop(Kernel, 7, v) <=> InArea(v, 122880, GicLen)
      /\ InLoop(Kernel, 8, v) <=> InArea(v, 65553, TimerLen)
  <2>1. Len(Loops(Kernel)) = 8
    BY KernelAreas
  <2>2. \A i \in 1 .. 8 :
          InLoop(Kernel, i, v) <=> InArea(v, Loops(Kernel)[i].virt, Loops(Kernel)[i].len)
    BY <2>1, PagesOfLoop
  <2> QED
    BY <2>2, KernelAreas DEF IsLoop
<1>3. /\ InArea(v, 0, 1) <=> v = 0
      /\ InArea(v, 458800, 2) <=> v \in {458800, 458801}
      /\ InArea(v, 458784, 2) <=> v \in {458784, 458785}
      /\ InArea(v, 458786, 1) <=> v = 458786
      /\ InArea(v, 458801, 1) <=> v = 458801
  BY ShortAreas
<1>4. (\E i \in 1 .. 8 : InLoop(Kernel, i, v)) <=>
         \/ InLoop(Kernel, 1, v) \/ InLoop(Kernel, 2, v) \/ InLoop(Kernel, 3, v)
         \/ InLoop(Kernel, 4, v) \/ InLoop(Kernel, 5, v) \/ InLoop(Kernel, 6, v)
         \/ InLoop(Kernel, 7, v) \/ InLoop(Kernel, 8, v)
  OBVIOUS
<1> QED
  BY <1>1, <1>2, <1>3, <1>4

\* Those every task's table has.
LEMMA TaskLoopPages ==
    ASSUME NEW t \in {T1, T2, Idle}, NEW v
    PROVE  /\ Len(Loops(t)) = IF t = Idle THEN 7 ELSE 8
           /\ InLoop(t, 1, v) <=> v = 0
           /\ InLoop(t, 2, v) <=> v \in {458800, 458801}
           /\ InLoop(t, 3, v) <=> v \in {TextVir[t], TextVir[t] + 1}
           /\ InLoop(t, 4, v) <=> v = StackVir(t)
           /\ InLoop(t, 5, v) <=> InArea(v, 122880, GicLen)
           /\ InLoop(t, 6, v) <=> InArea(v, 65553, TimerLen)
           /\ InLoop(t, 7, v) <=> v = 458786
           /\ t # Idle => (InLoop(t, 8, v) <=> v = ReadingVir[t])
<1>1. CASE t = T1
  <2>1. Len(Loops(t)) = 8 /\ t # Idle
    BY <1>1, T1Areas DEF T1, Idle
  <2>2. TextVir[t] = 462672 /\ StackVir(t) = 462674 /\ ReadingVir[t] = 461312
    BY <1>1 DEF TextVir, StackVir, ReadingVir, T1, T2, Idle
  <2>3. /\ InLoop(t, 1, v) <=> InArea(v, 0, 1)
        /\ InLoop(t, 2, v) <=> InArea(v, 458800, 2)
        /\ InLoop(t, 3, v) <=> InArea(v, 462672, 2)
        /\ InLoop(t, 4, v) <=> InArea(v, 462674, 1)
        /\ InLoop(t, 5, v) <=> InArea(v, 122880, GicLen)
        /\ InLoop(t, 6, v) <=> InArea(v, 65553, TimerLen)
        /\ InLoop(t, 7, v) <=> InArea(v, 458786, 1)
        /\ InLoop(t, 8, v) <=> InArea(v, 461312, 1)
    <3>1. Len(Loops(t)) = 8
      BY <1>1, T1Areas
    <3>2. \A i \in 1 .. 8 :
            InLoop(t, i, v) <=> InArea(v, Loops(t)[i].virt, Loops(t)[i].len)
      BY <3>1, PagesOfLoop
    <3> QED
      BY <1>1, <3>2, T1Areas DEF IsLoop
  <2>4. /\ InArea(v, 0, 1) <=> v = 0
        /\ InArea(v, 458800, 2) <=> v \in {458800, 458801}
        /\ InArea(v, 458786, 1) <=> v = 458786
        /\ InArea(v, 462672, 2) <=> v \in {462672, 462673}
        /\ InArea(v, 462674, 1) <=> v = 462674
        /\ InArea(v, 461312, 1) <=> v = 461312
    BY ShortAreas
  <2> QED
    BY <2>1, <2>2, <2>3, <2>4
<1>2. CASE t = T2
  <2>1. Len(Loops(t)) = 8 /\ t # Idle
    BY <1>2, T2Areas DEF T2, Idle
  <2>2. TextVir[t] = 466769 /\ StackVir(t) = 466770 /\ ReadingVir[t] = 466768
    BY <1>2 DEF TextVir, StackVir, ReadingVir, T1, T2, Idle
  <2>3. /\ InLoop(t, 1, v) <=> InArea(v, 0, 1)
        /\ InLoop(t, 2, v) <=> InArea(v, 458800, 2)
        /\ InLoop(t, 3, v) <=> InArea(v, 466769, 2)
        /\ InLoop(t, 4, v) <=> InArea(v, 466770, 1)
        /\ InLoop(t, 5, v) <=> InArea(v, 122880, GicLen)
        /\ InLoop(t, 6, v) <=> InArea(v, 65553, TimerLen)
        /\ InLoop(t, 7, v) <=> InArea(v, 458786, 1)
        /\ InLoop(t, 8, v) <=> InArea(v, 466768, 1)
    <3>1. Len(Loops(t)) = 8
      BY <1>2, T2Areas
    <3>2. \A i \in 1 .. 8 :
            InLoop(t, i, v) <=> InArea(v, Loops(t)[i].virt, Loops(t)[i].len)
      BY <3>1, PagesOfLoop
    <3> QED
      BY <1>2, <3>2, T2Areas DEF IsLoop
  <2>4. /\ InArea(v, 0, 1) <=> v = 0
        /\ InArea(v, 458800, 2) <=> v \in {458800, 458801}
        /\ InArea(v, 458786, 1) <=> v = 458786
        /\ InArea(v, 466769, 2) <=> v \in {466769, 466770}
        /\ InArea(v, 466770, 1) <=> v = 466770
        /\ InArea(v, 466768, 1) <=> v = 466768
    BY ShortAreas
  <2> QED
    BY <2>1, <2>2, <2>3, <2>4
<1>3. CASE t = Idle
  <2>1. Len(Loops(t)) = 7
    BY <1>3, IdleAreas
  <2>2. TextVir[t] = 528176 /\ StackVir(t) = 528178
    BY <1>3 DEF TextVir, StackVir, Text, Stack, T1, T2, Idle
  <2>3. /\ InLoop(t, 1, v) <=> InArea(v, 0, 1)
        /\ InLoop(t, 2, v) <=> InArea(v, 458800, 2)
        /\ InLoop(t, 3, v) <=> InArea(v, 528176, 2)
        /\ InLoop(t, 4, v) <=> InArea(v, 528178, 1)
        /\ InLoop(t, 5, v) <=> InArea(v, 122880, GicLen)
        /\ InLoop(t, 6, v) <=> InArea(v, 65553, TimerLen)
        /\ InLoop(t, 7, v) <=> InArea(v, 458786, 1)
    <3>1. Len(Loops(t)) = 7
      BY <1>3, IdleAreas
    <3>2. \A i \in 1 .. 7 :
            InLoop(t, i, v) <=> InArea(v, Loops(t)[i].virt, Loops(t)[i].len)
      BY <3>1, PagesOfLoop
    <3> QED
      BY <1>3, <3>2, IdleAreas DEF IsLoop
  <2>4. /\ InArea(v, 0, 1) <=> v = 0
        /\ InArea(v, 458800, 2) <=> v \in {458800, 458801}
        /\ InArea(v, 458786, 1) <=> v = 458786
        /\ InArea(v, 528176, 2) <=> v \in {528176, 528177}
        /\ InArea(v, 528178, 1) <=> v = 528178
    BY ShortAreas
  <2> QED
    BY <1>3, <2>1, <2>2, <2>3, <2>4
<1> QED
  BY <1>1, <1>2, <1>3

LEMMA SharedPages ==
    ASSUME NEW v
    PROVE  /\ v \in Shared <=> \/ v \in {0, 458800, 458801, 458786}
                               \/ InArea(v, 122880, GicLen)
                               \/ InArea(v, 65553, TimerLen)
           /\ v \in Shared => v \in Nat /\ Plain(v) /\ v < 458802
<1>1. v \in Shared <=> \/ v \in {0, 458800, 458801, 458786}
                       \/ InArea(v, 122880, GicLen)
                       \/ InArea(v, 65553, TimerLen)
  <2>1. /\ v \in GicRegs .. GicRegs + GicLen - 1 <=> InArea(v, GicRegs, GicLen)
        /\ v \in TimerRegs .. TimerRegs + TimerLen - 1 <=> InArea(v, TimerRegs, TimerLen)
    BY AreaPages, Lengths DEF GicRegs, TimerRegs, Upto
  <2>2. v \in Shared <=> \/ v \in {Vectors, KernelRam, Data, Bss}
                         \/ InArea(v, GicRegs, GicLen)
                         \/ InArea(v, TimerRegs, TimerLen)
    BY <2>1 DEF Shared
  <2> QED
    BY <2>2 DEF Vectors, KernelRam, Data, Bss, GicRegs, TimerRegs
<1>2. CASE v \in {0, 458800, 458801, 458786}
  BY <1>1, <1>2 DEF Plain
<1>3. CASE InArea(v, 122880, GicLen)
  BY <1>1, <1>3, Lengths DEF InArea, Plain, Upto
<1>4. CASE InArea(v, 65553, TimerLen)
  BY <1>1, <1>4, Lengths DEF InArea, Plain, Upto
<1> QED
  BY <1>1, <1>2, <1>3, <1>4

\* The loops of a table map the pages intended for it, and no other.
IsIntended(t) == Intended[t] = [v \in LoopPages(t) |-> Translation(v)]

LEMMA KernelIntended == IsIntended(Kernel)
<1> DEFINE D == Shared \cup (Rom .. Rom + RomLen - 1) \cup {KernelStack, KernelStack + 1}
<1>1. Intended[Kernel] = [v \in D |-> v]
  BY DEF Intended, Tables
<1>2. ASSUME NEW v
      PROVE  v \in D <=> v \in LoopPages(Kernel)
  <2>1. v \in Rom .. Rom + RomLen - 1 <=> InArea(v, Rom, RomLen)
    BY AreaPages, Lengths DEF Rom, Upto
  <2>2. v \in D <=> \/ v \in Shared
                    \/ InArea(v, 458768, RomLen)
                    \/ v \in {458784, 458785}
    BY <2>1 DEF Rom, KernelStack
  <2> HIDE DEF D
  <2> QED
    BY <2>2, SharedPages, KernelLoopPages
<1>3. ASSUME NEW v \in D
      PROVE  Translation(v) = v
  <2>1. v \in LoopPages(Kernel)
    BY <1>2
  <2>2. PICK i, j : Turn(Kernel, i, j) /\ v = Virt(Kernel, i, j)
    BY <2>1 DEF LoopPages
  <2>3. \/ v \in {0, 458800, 458801, 458784, 458785, 458786}
        \/ InArea(v, 458768, RomLen)
        \/ InArea(v, 122880, GicLen)
        \/ InArea(v, 65553, TimerLen)
    BY <2>1, KernelLoopPages
  <2>4. v \in Int /\ Plain(v)
    BY <2>3, Lengths DEF InArea, Plain, Upto
  <2> QED
    BY <2>4, PlainPages
<1> HIDE DEF D
<1>4. D = LoopPages(Kernel)
  BY <1>2
<1> QED
  BY <1>1, <1>3, <1>4 DEF IsIntended

LEMMA TaskSpaceIs ==
    ASSUME NEW t \in {T1, T2, Idle},
           Shared \cap {TextVir[t], StackVir(t), TextVir[t] + 1} = {},
           t # Idle => ReadingVir[t] \notin
                          Shared \cup {TextVir[t], StackVir(t), TextVir[t] + 1}
    PROVE  LET own == {TextVir[t], StackVir(t)}
               after == TextVir[t] + 1
               reading == IF t = Idle THEN {} ELSE {ReadingVir[t]}
           IN  /\ DOMAIN TaskSpace(t) = Shared \cup own \cup {after} \cup reading
               /\ \A v \in Shared : TaskSpace(t)[v] = v
               /\ TaskSpace(t)[TextVir[t]] = Text[t]
               /\ StackVir(t) # TextVir[t] => TaskSpace(t)[StackVir(t)] = Stack(t)
               /\ after \notin own => TaskSpace(t)[after] = Text[t] + 1
               /\ t # Idle => TaskSpace(t)[ReadingVir[t]] = Reading[t]
<1> DEFINE own == [v \in {TextVir[t], StackVir(t)} |->
                     IF v = TextVir[t] THEN Text[t] ELSE Stack(t)]
           after == TextVir[t] + 1
           reading == IF t = Idle THEN {} ELSE {ReadingVir[t]}
           space(v) == CASE v \in Shared -> v
                         [] v \in DOMAIN own -> own[v]
                         [] v = after /\ v \notin DOMAIN own -> Text[t] + 1
                         [] v \in reading -> Reading[t]
           D == Shared \cup DOMAIN own \cup {after} \cup reading
<1>1. TaskSpace(t) = [v \in D |-> space(v)]
  BY DEF TaskSpace
<1>2. /\ DOMAIN own = {TextVir[t], StackVir(t)}
      /\ own[TextVir[t]] = Text[t]
      /\ StackVir(t) # TextVir[t] => own[StackVir(t)] = Stack(t)
  OBVIOUS
<1>3. /\ reading = IF t = Idle THEN {} ELSE {ReadingVir[t]}
      /\ D = Shared \cup DOMAIN own \cup {after} \cup reading
  OBVIOUS
<1> HIDE DEF own, reading, D
<1>4. /\ Shared \cap DOMAIN own = {} /\ after \notin Shared
      /\ reading \cap Shared = {} /\ reading \cap DOMAIN own = {} /\ after \notin reading
  BY <1>2, <1>3
<1> HIDE DEF after
<1>5. \A v \in Shared : space(v) = v
  BY <1>4
<1>6. \A v \in DOMAIN own : space(v) = own[v]
  BY <1>4
<1>7. after \notin DOMAIN own => space(after) = Text[t] + 1
  BY <1>4
<1>8. \A v \in reading : space(v) = Reading[t]
  BY <1>4
<1> HIDE DEF space
<1>9. DOMAIN TaskSpace(t) = D /\ \A v \in D : TaskSpace(t)[v] = space(v)
  BY <1>1
<1>10. /\ \A v \in Shared : TaskSpace(t)[v] = v
       /\ \A v \in DOMAIN own : TaskSpace(t)[v] = own[v]
       /\ after \notin DOMAIN own => TaskSpace(t)[after] = Text[t] + 1
       /\ \A v \in reading : TaskSpace(t)[v] = Reading[t]
  BY <1>3, <1>5, <1>6, <1>7, <1>8, <1>9
<1> QED
  BY <1>2, <1>3, <1>9, <1>10 DEF after

LEMMA TaskIntended ==
    ASSUME NEW t \in {T1, T2, Idle}
    PROVE  IsIntended(t)
<1>1. Intended[t] = TaskSpace(t)
  BY DEF Intended, Tables, Kernel, T1, T2, Idle
<1>2. t \in Tables /\ T1 # Idle /\ T2 # Idle
  BY DEF Tables, T1, T2, Idle
<1>3. ASSUME NEW v
      PROVE  v \in LoopPages(t) <=> \/ v \in Shared
                                    \/ v \in {TextVir[t], TextVir[t] + 1, StackVir(t)}
                                    \/ t # Idle /\ v = ReadingVir[t]
  <2>1. /\ Len(Loops(t)) = IF t = Idle THEN 7 ELSE 8
        /\ v \in LoopPages(t) <=> \E i \in 1 .. Len(Loops(t)) : InLoop(t, i, v)
    <3>1. Len(Loops(t)) = IF t = Idle THEN 7 ELSE 8
      BY <1>2, LoopsOfTable
    <3> QED
      BY <1>2, <3>1, PagesOfLoops
  <2>2. v \in LoopPages(t) <=>
           \/ InLoop(t, 1, v) \/ InLoop(t, 2, v) \/ InLoop(t, 3, v)
           \/ InLoop(t, 4, v) \/ InLoop(t, 5, v) \/ InLoop(t, 6, v)
           \/ InLoop(t, 7, v) \/ (t # Idle /\ InLoop(t, 8, v))
    BY <2>1
  <2>3. v \in Shared <=> \/ v \in {0, 458800, 458801, 458786}
                         \/ InArea(v, 122880, GicLen)
                         \/ InArea(v, 65553, TimerLen)
    BY SharedPages
  <2> QED
    BY <2>2, <2>3, TaskLoopPages
<1>4. /\ t = T1 => /\ TextVir[t] = 462672 /\ StackVir(t) = 462674
                    /\ ReadingVir[t] = 461312 /\ Text[t] = 526160
                    /\ Stack(t) = 526162 /\ Reading[t] = 524288
      /\ t = T2 => /\ TextVir[t] = 466769 /\ StackVir(t) = 466770
                    /\ ReadingVir[t] = 466768 /\ Text[t] = 530256
                    /\ Stack(t) = 530258 /\ Reading[t] = 528384
      /\ t = Idle => /\ TextVir[t] = 528176 /\ StackVir(t) = 528178
                      /\ Text[t] = 528176 /\ Stack(t) = 528178
  <2>1. CASE t = T1
    BY <2>1 DEF TextVir, StackVir, ReadingVir, Text, Stack, Reading, T1, T2, Idle
  <2>2. CASE t = T2
    BY <2>2 DEF TextVir, StackVir, ReadingVir, Text, Stack, Reading, T1, T2, Idle
  <2>3. CASE t = Idle
    BY <2>3 DEF TextVir, StackVir, Text, Stack, T1, T2, Idle
  <2> QED
    BY <2>1, <2>2, <2>3
<1>5. \A v \in Shared : v \in Nat /\ Translation(v) = v /\ v < 458802
  BY SharedPages, PlainPages
<1> DEFINE own == {TextVir[t], StackVir(t)}
           after == TextVir[t] + 1
           reading == IF t = Idle THEN {} ELSE {ReadingVir[t]}
<1>6. /\ DOMAIN TaskSpace(t) = Shared \cup own \cup {after} \cup reading
      /\ \A v \in Shared : TaskSpace(t)[v] = v
      /\ TaskSpace(t)[TextVir[t]] = Text[t]
      /\ StackVir(t) # TextVir[t] => TaskSpace(t)[StackVir(t)] = Stack(t)
      /\ after \notin own => TaskSpace(t)[after] = Text[t] + 1
      /\ t # Idle => TaskSpace(t)[ReadingVir[t]] = Reading[t]
  <2>1. /\ TextVir[t] \notin Shared /\ StackVir(t) \notin Shared /\ after \notin Shared
        /\ t # Idle => ReadingVir[t] \notin Shared \cup own \cup {after}
    BY <1>4, <1>5
  <2> QED
    BY <2>1, TaskSpaceIs
<1>7. DOMAIN TaskSpace(t) = LoopPages(t)
  <2> HIDE <1>4, <1>5
  <2> QED
    BY <1>3, <1>6
<1>8. ASSUME NEW v \in DOMAIN TaskSpace(t)
      PROVE  TaskSpace(t)[v] = Translation(v)
  <2>1. CASE v \in Shared
    BY <1>5, <1>6, <2>1
  <2>2. CASE v \notin Shared /\ t = T1
    <3>1. /\ v \in {462672, 462674, 462673, 461312}
          /\ TaskSpace(t)[462672] = 526160 /\ TaskSpace(t)[462674] = 526162
          /\ TaskSpace(t)[462673] = 526161 /\ TaskSpace(t)[461312] = 524288
      BY <1>2, <1>4, <1>6, <2>2
    <3> QED
      BY <3>1, TaskPages DEF Moved
  <2>3. CASE v \notin Shared /\ t = T2
    <3>1. /\ v \in {466769, 466770, 466768}
          /\ TaskSpace(t)[466769] = 530256 /\ TaskSpace(t)[466770] = 530258
          /\ TaskSpace(t)[466768] = 528384
      BY <1>2, <1>4, <1>6, <2>3
    <3> QED
      BY <3>1, TaskPages DEF Moved
  <2>4. CASE v \notin Shared /\ t = Idle
    <3>1. /\ v \in {528176, 528177, 528178}
          /\ TaskSpace(t)[528176] = 528176 /\ TaskSpace(t)[528178] = 528178
          /\ TaskSpace(t)[528177] = 528177
      BY <1>4, <1>6, <2>4
    <3>2. v \in Int /\ Plain(v) /\ TaskSpace(t)[v] = v
      BY <3>1 DEF Plain
    <3> QED
      BY <3>2, PlainPages
  <2> QED
    BY <2>1, <2>2, <2>3, <2>4
<1>9. TaskSpace(t) = [v \in DOMAIN TaskSpace(t) |-> TaskSpace(t)[v]]
  BY DEF TaskSpace
<1> QED
  BY <1>1, <1>7, <1>8, <1>9 DEF IsIntended

\* A turn of a loop maps an intended page to one, or to the page after
\* T2's text.
LEMMA TurnIntended ==
    ASSUME NEW t \in Tables, NEW i, NEW j, Turn(t, i, j)
    PROVE  Virt(t, i, j) \in IntendedPages /\ Phys(t, i, j) \in IntendedPages
<1> DEFINE v == Virt(t, i, j)
<1>1. TurnIsRight(t, i, j)
  BY TurnMaps
<1>2. Intended[t] = [x \in LoopPages(t) |-> Translation(x)]
  BY KernelIntended, TaskIntended DEF IsIntended, Tables
<1>3. v \in LoopPages(t)
  BY <1>1 DEF LoopPages, TurnIsRight
<1>4. v \in DOMAIN Intended[t] /\ Intended[t][v] = Translation(v)
  BY <1>2, <1>3
<1>5. Text[T2] + 1 = 530257
  BY DEF Text, T1, T2, Idle
<1>6. Phys(t, i, j) = Translation(v) \/ Phys(t, i, j) = Text[T2] + 1
  BY <1>1, <1>5 DEF TurnIsRight
<1>7. v \in IntendedPages /\ Intended[t][v] \in IntendedPages
      /\ Text[T2] + 1 \in IntendedPages
  <2> HIDE DEF v
  <2>1. v \in IntendedPages
    BY <1>4 DEF IntendedPages
  <2>2. Intended[t][v] \in IntendedPages
    BY <1>4 DEF IntendedPages
  <2>3. Text[T2] + 1 \in IntendedPages
    BY DEF IntendedPages
  <2> QED
    BY <2>1, <2>2, <2>3
<1> QED
  BY <1>4, <1>6, <1>7

spaces == [t \in Tables |-> Space(t)]

\* MMU_MapNewPage, as a change of one address space.
LEMMA MapSpaces ==
    ASSUME IInv, SpacesInv, SpacesInv', MapPage
    PROVE  Spaces!SpacesNext
<1>1. BootInv /\ ttbr0 \in Tables
  BY DEF IInv, BootInv
<1>2. pc = "boot" /\ Turn(ttbr0, loop, page) /\ UNCHANGED pc
  BY <1>1, MapEffect
<1>3. Page \in IntendedPages /\ Frame \in IntendedPages
  BY <1>1, <1>2, TurnIntended DEF Page, Frame
<1>4. /\ Page \in Nat
      /\ \A t \in Tables : \A v :
            IsDone(t, v)' <=> IsDone(t, v) \/ (t = ttbr0 /\ v = Page)
      /\ \A t \in Tables : \A v :
            Target(t, v)' = IF t = ttbr0 /\ v = Page THEN Frame ELSE Target(t, v)
  BY <1>1, MapDone
<1>5. ASSUME NEW t \in Tables, t # ttbr0
      PROVE  Space(t)' = Space(t)
  <2>1. DonePages(t)' = DonePages(t)
    BY <1>4, <1>5 DEF DonePages
  <2>2. Space(t)' = [v \in DonePages(t)' |-> Target(t, v)']
    BY DEF SpacesInv
  <2>3. \A v : Target(t, v)' = Target(t, v)
    BY <1>4, <1>5
  <2> QED
    BY <2>1, <2>2, <2>3 DEF SpacesInv
<1>6. ASSUME NEW t \in Tables, t = ttbr0
      PROVE  Space(t)' = [v \in DOMAIN Space(t) \cup {Page} |->
                            IF v = Page THEN Frame ELSE Space(t)[v]]
  <2>1. DonePages(t)' = DonePages(t) \cup {Page}
    BY <1>4, <1>6 DEF DonePages
  <2>2. Space(t)' = [v \in DonePages(t)' |-> Target(t, v)']
    BY DEF SpacesInv
  <2>3. \A v : Target(t, v)' = IF v = Page THEN Frame ELSE Target(t, v)
    BY <1>4, <1>6
  <2>4. Space(t) = [v \in DonePages(t) |-> Target(t, v)]
    BY DEF SpacesInv
  <2>5. /\ DOMAIN Space(t) = DonePages(t)
        /\ \A v \in DonePages(t) : Space(t)[v] = Target(t, v)
    BY <2>4
  <2> QED
    BY <2>1, <2>2, <2>3, <2>5
<1>7. spaces' = [spaces EXCEPT ![ttbr0] =
                   [v \in DOMAIN @ \cup {Page} |-> IF v = Page THEN Frame ELSE @[v]]]
  BY <1>1, <1>5, <1>6 DEF spaces
<1>8. Spaces!MapPage(ttbr0, Page, Frame)
  BY <1>2, <1>7 DEF Spaces!MapPage, spaces
<1> QED
  BY <1>1, <1>3, <1>8 DEF Spaces!SpacesNext

\* What maps no page changes no space.
LEMMA SameSpaces ==
    ASSUME SpacesInv, SpacesInv', SameMap
    PROVE  spaces' = spaces
<1>1. ASSUME NEW t \in Tables
      PROVE  Space(t)' = Space(t)
  <2>1. DonePages(t)' = DonePages(t)
    BY DEF DonePages, SameMap
  <2>2. Space(t)' = [v \in DonePages(t)' |-> Target(t, v)']
    BY DEF SpacesInv
  <2>3. \A v \in DonePages(t) : Target(t, v)' = Target(t, v)
    BY DEF DonePages, SameMap
  <2> QED
    BY <2>1, <2>2, <2>3 DEF SpacesInv
<1> QED
  BY <1>1 DEF spaces

\* The MMU is switched on over the intended spaces.
LEMMA SealSpaces ==
    ASSUME IInv, SpacesInv, SpacesInv', MmuOn
    PROVE  Spaces!SpacesNext
<1>1. BootInv /\ pc = "boot" /\ loop > Len(Loops(ttbr0)) /\ ttbr0 = Idle /\ pc' = "run"
  BY DEF IInv, MmuOn
<1>2. ASSUME NEW t \in Tables
      PROVE  Space(t) = Intended[t]
  <2>1. ASSUME NEW i, NEW j, Turn(t, i, j)
        PROVE  Before(t, i, j)
    BY <1>1, <2>1, AllDone DEF Tables, Kernel, T1, T2, Idle
  <2>2. DonePages(t) = LoopPages(t)
    BY <2>1 DEF DonePages, LoopPages, IsDone
  <2>3. \A v : Target(t, v) = Translation(v)
    BY <1>1 DEF Target, T2, Idle
  <2>4. Intended[t] = [v \in LoopPages(t) |-> Translation(v)]
    BY KernelIntended, TaskIntended DEF IsIntended, Tables
  <2> QED
    BY <2>2, <2>3, <2>4 DEF SpacesInv
<1>3. spaces = Intended
  <2>1. Intended = [t \in Tables |-> Intended[t]]
    BY DEF Intended
  <2> QED
    BY <1>2, <2>1 DEF spaces
<1>4. spaces' = spaces
  BY <1>1, MmuOnMap, SameSpaces
<1>5. Spaces!Seal
  BY <1>1, <1>3, <1>4 DEF Spaces!Seal, spaces
<1> QED
  BY <1>5 DEF Spaces!SpacesNext

\* board_init's loops, MMU_MapNewPage's descriptors and the four tables
\* spread over memory implement what AddressSpaces says of them: a call
\* changes the translation of its page in the table being built and of no
\* other, MMU_Enable finds the memory map of td3_memmap.ld complete in all
\* four, and no task, interrupt or switch changes a translation afterwards.
\* (That map is not the one the exercise's README proposes, see
\* SpacesRefinement.)
THEOREM BuildsTheSpaces == Spec => SpacesRefinement
<1>1. IInv => SpacesInv
  BY SpaceFound DEF IInv, SpacesInv
<1>2. Init => Spaces!SpacesInit
  <2> SUFFICES ASSUME Init PROVE Spaces!SpacesInit
    OBVIOUS
  <2>1. SpacesInv /\ pc = "boot"
    BY <1>1, InitInv DEF Init
  <2>2. ASSUME NEW t \in Tables
        PROVE  Space(t) = [v \in {} |-> v]
    <3>1. DonePages(t) = {}
      BY NothingDone DEF DonePages
    <3> QED
      BY <2>1, <3>1 DEF SpacesInv
  <2> QED
    BY <2>1, <2>2 DEF Spaces!SpacesInit
<1>3. IInv /\ SpacesInv /\ SpacesInv' /\ [Next]_vars
        => [Spaces!SpacesNext]_<<[t \in Tables |-> Space(t)], pc # "boot">>
  <2> SUFFICES ASSUME IInv, SpacesInv, SpacesInv', [Next]_vars
               PROVE  \/ Spaces!SpacesNext
                      \/ spaces' = spaces /\ (pc # "boot")' = (pc # "boot")
    BY DEF spaces
  <2>1. CASE MapPage
    BY <2>1, MapSpaces
  <2>2. CASE MmuOn
    BY <2>2, SealSpaces
  <2>3. CASE NextTable
    <3>1. SameMap /\ pc' = pc
      BY <2>3, NextTableMap DEF NextTable, IInv
    <3> QED
      BY <3>1, SameSpaces
  <2>4. CASE RunStep \/ Irq \/ HandlerStep \/ SwitchStep \/ SetTtbr0 \/ ReturnStep
    <3>1. pc # "boot" /\ pc' # "boot"
      BY <2>4 DEF RunStep, Irq, HandlerStep, SwitchStep, SetTtbr0, ReturnStep, CodeStep,
                  Abort
    <3> QED
      BY <3>1, RunMap, SameSpaces
  <2>5. CASE UNCHANGED vars
    <3>1. UNCHANGED <<mem, loop, page, ttbr0, pc>>
      BY <2>5 DEF vars
    <3>2. SameMap
      BY <3>1 DEF SameMap, IsDone, Before, Turn, Virt, Target
    <3> QED
      BY <3>1, <3>2, SameSpaces
  <2> QED
    BY <2>1, <2>2, <2>3, <2>4, <2>5 DEF Next
<1> QED
  BY <1>1, <1>2, <1>3, Invariant, PTL DEF Spec, SpacesRefinement, Spaces!SpacesSpec
=============================================================================
