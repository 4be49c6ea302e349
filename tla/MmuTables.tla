----------------------------- MODULE MmuTables -----------------------------
(***************************************************************************)
(* The translation tables of exercise 5 (01_cuat/tp_01_05): board_init     *)
(* builds one two-level table for the kernel and one per task with         *)
(* MMU_MapNewPage of mmu_tools.c, at the addresses of td3_memmap.ld; from  *)
(* then on kernel, tasks and the timer's interrupt handler run under them, *)
(* and cargar_contexto changes table without invalidating the TLB.         *)
(*                                                                         *)
(* A page is its number, the address divided by 4096.  Memory is a         *)
(* function on the 32-bit words the tables have been given so far; a word  *)
(* holds a reference to a second-level table or a page descriptor, told    *)
(* apart by the low bits of what the code writes (0x1 and 0x32).  The      *)
(* domains are managers of everything (DACR), so no permission is checked, *)
(* and no descriptor has the nG bit: every TLB entry is global.            *)
(***************************************************************************)
EXTENDS Integers, Sequences, FiniteSets

CONSTANTS
    RomLen,     \* pages of .text: __text_end__ - _PUBLIC_ROM_INIT
    GicLen,     \* pages of the GIC registers (49 in the linker script)
    TimerLen,   \* pages of the timer registers (8 in the linker script)
    TlbSize     \* entries of the TLB

ASSUME LengthsAssumption ==
    /\ RomLen \in 1 .. 3
    /\ GicLen \in 1 .. 49
    /\ TimerLen \in 1 .. 8
ASSUME TlbAssumption == TlbSize \in Nat \ {0}

Kernel == 0
T1 == 1
T2 == 2
Idle == 3
Tables == {Kernel, T1, T2, Idle}

\* The linker's areas: physical page, and virtual page where they differ.
Vectors == 0                    \* _PUBLIC_INT_INIT
TimerRegs == 65553              \* 0x10011, _REG_TIMER_ADDR
GicRegs == 122880               \* 0x1E000, _REG_GIC_ADDR
Rom == 458768                   \* 0x70010, _PUBLIC_ROM_INIT
KernelStack == 458784           \* 0x70020, _PUBLIC_STACK_INIT
Bss == 458786                   \* 0x70022, _PUBLIC_BSS_INIT
KernelRam == 458800             \* 0x70030, _PUBLIC_RAM_INIT
Data == 458801                  \* 0x70031, _PUBLIC_DATA_INIT

Reading == [t \in {T1, T2} |-> IF t = T1 THEN 524288 ELSE 528384]
                                \* 0x80000, 0x81000
Text == [t \in {T1, T2, Idle} |-> CASE t = T1 -> 526160
                                    [] t = T2 -> 530256
                                    [] t = Idle -> 528176]
                                \* 0x80750, 0x81750, 0x80F30
Stack(t) == Text[t] + 2         \* 0x80752, 0x81752, 0x80F32

ReadingVir == [t \in {T1, T2} |-> IF t = T1 THEN 461312 ELSE 466768]
                                \* 0x70A00, 0x71F50
TextVir == [t \in {T1, T2, Idle} |-> CASE t = T1 -> 462672
                                       [] t = T2 -> 466769
                                       [] t = Idle -> Text[Idle]]
                                \* 0x70F50, 0x71F51

\* Fault: T2 is linked at T1's virtual stack.
StackVir_Same(t) == IF t = Idle THEN Stack(Idle) ELSE 462674

StackVir(t) == CASE t = T1 -> 462674            \* 0x70F52
                 [] t = T2 -> 466770            \* 0x71F52
                 [] t = Idle -> Stack(Idle)

\* Fault: T2's tables are put where the idle task's text is linked.
Base_InIdleText(t) == CASE t = Kernel -> 461056 [] t = T1 -> 524496
                        [] t = T2 -> 528176 [] t = Idle -> 524512

\* First page of each table: _SYSTABLES_PHYSICAL.., Task.current_ttbr0.
Base(t) == CASE t = Kernel -> 461056            \* 0x70900
             [] t = T1 -> 524496                \* 0x800D0
             [] t = T2 -> 528128                \* 0x80F00
             [] t = Idle -> 524512              \* 0x800E0

VARIABLES
    mem,        \* the words the tables occupy, and what they hold
    ttbr0,      \* the table TTBR0 points to
    loop,       \* board_init: the loop it is in, of those of this table
    page,       \* board_init: pages that loop has mapped
    left,       \* the table of the code that was interrupted
    pc,         \* boot, run, irq, switch, mcr, back or abort
    touched,    \* accesses the interrupt code has done since pc changed
    tlb,        \* the TLB's entries
    fault       \* the page the aborted access wanted

bootVars == <<mem, loop, page>>
vars == <<mem, ttbr0, left, loop, page, pc, touched, tlb, fault>>

-----------------------------------------------------------------------------
(* The tables.                                                             *)

WordsPerPage == 1024
L1Words == 4096                 \* 0x4000 bytes
L2Words == 256                  \* 0x400 bytes

L1Index(v) == v \div 256        \* (virtualAddr >> 20) & 0xFFF
L2Index(v) == v % 256           \* (virtualAddr >> 12) & 0xFF
L1Word(t, v) == Base(t) * WordsPerPage + L1Index(v)

\* Fault: the second-level tables start where the first-level one does.
L2Table_NoSeparation(t, v) == Base(t) * WordsPerPage + L2Words * L1Index(v)

\* Where MMU_MapNewPage puts the second-level table for page v: after the
\* 16 KiB of the first-level one, by position in it.
L2Table(t, v) == Base(t) * WordsPerPage + L1Words + L2Words * L1Index(v)

NoPage == -1

\* The page v is translated to by the table t: what the hardware's walk finds.
Walk(t, v) ==
    LET l1 == L1Word(t, v)
        l2 == mem[l1].at + L2Index(v)
    IN  IF /\ l1 \in DOMAIN mem
           /\ mem[l1].kind = "table"
           /\ l2 \in DOMAIN mem
           /\ mem[l2].kind = "page"
        THEN mem[l2].at
        ELSE NoPage

\* MMU_MapNewPage(p, v): the first-level entry is cleared and made to refer
\* to its second-level table, then one entry of that is cleared and written.
\* No other entry of a second-level table is ever cleared.
MapNewPage(p, v) ==
    LET l1 == L1Word(ttbr0, v)
        table == L2Table(ttbr0, v)
        l2 == table + L2Index(v)
    IN  mem' = [w \in DOMAIN mem \cup {l1, l2} |->
                  CASE w = l2 -> [kind |-> "page", at |-> p]
                    [] w = l1 /\ w # l2 -> [kind |-> "table", at |-> table]
                    [] OTHER -> mem[w]]

-----------------------------------------------------------------------------
(* board_init: the loops over the areas of each table, in their order.  An *)
(* area is its physical page, its virtual page and its number of pages.    *)

Area(p, v, n) == [phys |-> p, virt |-> v, len |-> n]
Same(p, n) == Area(p, p, n)

\* Fault: the loop over the kernel's RAM stops at __kernel_ram_end__.
KernelRamArea_Exact == Same(KernelRam, 1)

\* .kernel takes less than a page, and the loop goes 0x1000 past its end:
\* what it maps there is .data.
KernelRamArea == Same(KernelRam, 2)

\* Both stacks end inside their last page, and so do .bss and .data.
KernelLoops ==
    <<Same(Vectors, 1), Same(Rom, RomLen), KernelRamArea, Same(KernelStack, 2),
      Same(Bss, 1), Same(Data, 1), Same(GicRegs, GicLen),
      Same(TimerRegs, TimerLen)>>

Peripherals == <<Same(GicRegs, GicLen), Same(TimerRegs, TimerLen), Same(Bss, 1)>>

\* The text of a task is less than a page and its loop goes one past it;
\* for T2 that page is the virtual one of its stack, mapped right after.
TextArea(t) == Area(Text[t], TextVir[t], 2)
StackArea(t) == Area(Stack(t), StackVir(t), 1)

TaskLoops(t) ==
    <<Same(Vectors, 1), KernelRamArea, TextArea(t), StackArea(t)>> \o Peripherals

T1Loops == TaskLoops(T1) \o <<Area(Reading[T1], ReadingVir[T1], 1)>>

\* Fault: the text of T2 is mapped after its stack.
T2Loops_TextLast ==
    <<Same(Vectors, 1), KernelRamArea, StackArea(T2), TextArea(T2)>>
        \o Peripherals \o <<Area(Reading[T2], ReadingVir[T2], 1)>>

T2Loops == TaskLoops(T2) \o <<Area(Reading[T2], ReadingVir[T2], 1)>>

IdleLoops == TaskLoops(Idle)

Loops(t) == CASE t = Kernel -> KernelLoops
              [] t = T1 -> T1Loops
              [] t = T2 -> T2Loops
              [] t = Idle -> IdleLoops

Init ==
    /\ mem = [w \in {} |-> [kind |-> "page", at |-> 0]]
    /\ ttbr0 = Kernel
    /\ left = Kernel
    /\ loop = 1
    /\ page = 0
    /\ pc = "boot"
    /\ touched = 0
    /\ tlb = {}
    /\ fault = NoPage

\* One turn of a loop.
MapPage ==
    /\ pc = "boot"
    /\ loop <= Len(Loops(ttbr0))
    /\ LET area == Loops(ttbr0)[loop]
       IN  /\ MapNewPage(area.phys + page, area.virt + page)
           /\ IF page + 1 < area.len
              THEN page' = page + 1 /\ UNCHANGED loop
              ELSE page' = 0 /\ loop' = loop + 1
    /\ UNCHANGED <<ttbr0, left, pc, touched, tlb, fault>>

\* MMU_Invalidate_TLB, then the next table:
\* MMU_Set_FirstLevelTranslationTable_PhysicalAddress.
NextTable ==
    /\ pc = "boot"
    /\ loop > Len(Loops(ttbr0))
    /\ ttbr0 # Idle
    /\ ttbr0' = ttbr0 + 1
    /\ tlb' = {}
    /\ loop' = 1
    /\ UNCHANGED <<mem, left, page, pc, touched, fault>>

\* Back to the kernel's table, the MMU on, the TLB invalidated.
MmuOn ==
    /\ pc = "boot"
    /\ loop > Len(Loops(ttbr0))
    /\ ttbr0 = Idle
    /\ ttbr0' = Kernel
    /\ tlb' = {}
    /\ pc' = "run"
    /\ UNCHANGED <<mem, left, loop, page, touched, fault>>

-----------------------------------------------------------------------------
(* Running: every access goes through the TLB or, failing that, the table. *)

Entry(v) == [virt |-> v, phys |-> Walk(ttbr0, v)]
Hit(v) == \E e \in tlb : e.virt = v

\* Fault: a full TLB takes one entry more.
Loaded_NoVictim(v) == {tlb \cup {Entry(v)}}

\* The TLBs that may result from a miss on v: a full one gives up an entry.
Loaded(v) ==
    IF Cardinality(tlb) < TlbSize
    THEN {tlb \cup {Entry(v)}}
    ELSE {(tlb \ {e}) \cup {Entry(v)} : e \in tlb}

Reachable(v) == Hit(v) \/ Walk(ttbr0, v) # NoPage
Touch(v) == IF Hit(v) THEN UNCHANGED tlb ELSE tlb' \in Loaded(v)

\* _pabt_handler and _dabt_handler loop for ever.
Abort(v) ==
    /\ ~Reachable(v)
    /\ pc' = "abort"
    /\ fault' = v
    /\ UNCHANGED <<bootVars, ttbr0, touched, tlb>>

OwnStack(t) == IF t = Kernel THEN KernelStack ELSE StackVir(t)

\* The pages the interrupted code uses: after board_init returns to the ROM
\* the kernel waits in its RAM, and the tasks walk their reading areas.
OwnPages(t) ==
    CASE t = Kernel -> {Rom, KernelRam, KernelStack}
      [] t \in {T1, T2} -> {TextVir[t], StackVir(t), ReadingVir[t]}
      [] t = Idle -> {TextVir[t], StackVir(t)}

RunStep ==
    /\ pc = "run"
    /\ \E v \in OwnPages(ttbr0) :
          \/ Abort(v)
          \/ /\ Reachable(v)
             /\ Touch(v)
             /\ UNCHANGED <<bootVars, ttbr0, pc, touched, fault>>
    /\ UNCHANGED left

Irq ==
    /\ pc = "run"
    /\ pc' = "irq"
    /\ UNCHANGED <<bootVars, ttbr0, left, touched, tlb, fault>>

\* What the handler uses on its way to cargar_contexto, in order: the
\* vector, handler.s, its stack, dirty, the task structures, the GIC, the
\* timer.  All of it under the table of the interrupted code.
HandlerPages(t) ==
    <<Vectors, KernelRam, OwnStack(t), Data, Bss, GicRegs, TimerRegs>>

\* MMU_Set_TTBR0_task up to its MCR: fetched from the ROM, it saves fp and its
\* parameter on the stack of the interrupted code and is fetched on.
SwitchPages(t) == <<Rom, OwnStack(t), Rom>>

\* From the MCR on, under the new table: the function's epilogue takes fp back
\* from the stack it was saved on (the code is compiled without optimisation)
\* and returns; cargar_contexto goes on, reads the task structure and leaves
\* by the new task's IRQ stack.
ReturnPages(old, new) ==
    <<Rom, OwnStack(old), Rom, KernelRam, Bss, OwnStack(new)>>

\* One access of those in pages; after the last one the code is at next.
CodeStep(at, pages, next) ==
    /\ pc = at
    /\ LET v == pages[touched + 1]
       IN  \/ Abort(v)
           \/ /\ Reachable(v)
              /\ Touch(v)
              /\ IF touched + 1 < Len(pages)
                 THEN touched' = touched + 1 /\ UNCHANGED pc
                 ELSE touched' = 0 /\ pc' = next
              /\ UNCHANGED <<bootVars, ttbr0, fault>>

HandlerStep ==
    /\ CodeStep("irq", HandlerPages(ttbr0), "switch")
    /\ UNCHANGED left

\* cargar_contexto calls MMU_Set_TTBR0_task; the call of MMU_Invalidate_TLB
\* before it is commented out.
SwitchStep ==
    /\ CodeStep("switch", SwitchPages(ttbr0), "mcr")
    /\ UNCHANGED left

\* The task scheduler() left in current_task: T1 at the first interrupt.
Scheduled(t) == CASE t = Kernel -> {T1}
                  [] t = T1 -> {T1, T2}
                  [] t = T2 -> {T2, Idle}
                  [] t = Idle -> {Idle, T1}

\* The MCR.
SetTtbr0 ==
    /\ pc = "mcr"
    /\ left' = ttbr0
    /\ ttbr0' \in Scheduled(ttbr0)
    /\ pc' = "back"
    /\ UNCHANGED <<bootVars, touched, tlb, fault>>

ReturnStep ==
    /\ CodeStep("back", ReturnPages(left, ttbr0), "run")
    /\ left' = IF pc' = "run" THEN ttbr0 ELSE left

Next ==
    \/ MapPage
    \/ NextTable
    \/ MmuOn
    \/ RunStep
    \/ Irq
    \/ HandlerStep
    \/ SwitchStep
    \/ SetTtbr0
    \/ ReturnStep

Spec == Init /\ [][Next]_vars

-----------------------------------------------------------------------------
(* Properties.                                                             *)

\* The variables keep their types, and the TLB its size.
TypeOK ==
    /\ \A w \in DOMAIN mem : /\ mem[w].kind \in {"table", "page"}
                             /\ mem[w].at \in Nat
    /\ ttbr0 \in Tables /\ left \in Tables
    /\ loop \in 1 .. 9
    /\ page \in 0 .. 49
    /\ pc \in {"boot", "run", "irq", "switch", "mcr", "back", "abort"}
    /\ touched \in 0 .. 6
    /\ Cardinality(tlb) <= TlbSize
    /\ fault = NoPage <=> pc # "abort"

\* The physical pages somebody can reach through a table.
MappedPages == {mem[w].at : w \in {x \in DOMAIN mem : mem[x].kind = "page"}}

\* The four tables are scattered over memory, each second-level table at a
\* distance its index gives: none of their words lies in a page some table
\* maps, so no task's store can change a translation.
TablesOutOfReach == \A w \in DOMAIN mem : w \div WordsPerPage \notin MappedPages

\* No switch invalidates the TLB and all its entries are global: an entry
\* loaded under an earlier table still agrees with the present one wherever
\* that maps the page.
NoStaleEntry ==
    \A e \in tlb : Walk(ttbr0, e.virt) \in {e.phys, NoPage}

\* Everything the tasks and the handler use is in the table in force, but
\* for two pages of MMU_Set_TTBR0_task: its own in the ROM, under a task's
\* table, and after the MCR the stack of the code it was called from.  These
\* are the only accesses that can abort, and do without an entry left from
\* the time of the other table.
OnlySwitchAborts ==
    pc = "abort" => \/ fault = Rom /\ ttbr0 # Kernel
                    \/ fault = OwnStack(left) /\ ttbr0 # left

\* The translation the table t gives, page by page.
Space(t) ==
    LET first == Base(t) * WordsPerPage
        l1 == {w \in DOMAIN mem : /\ w \in first .. first + L1Words - 1
                                  /\ mem[w].kind = "table"}
        mapped == UNION {{256 * (w - first) + (x - mem[w].at) :
                             x \in {y \in DOMAIN mem :
                                       y - mem[w].at \in 0 .. L2Words - 1}} :
                             w \in l1}
    IN  [v \in {u \in mapped : Walk(t, u) # NoPage} |-> Walk(t, v)]

\* The memory map of td3_memmap.ld.  What every task shares is mapped to
\* itself: vectors, kernel RAM and .data, .bss, the peripherals.
Shared == {Vectors, KernelRam, Data, Bss}
             \cup (GicRegs .. GicRegs + GicLen - 1)
             \cup (TimerRegs .. TimerRegs + TimerLen - 1)

TaskSpace(t) ==
    LET own == [v \in {TextVir[t], StackVir(t)} |->
                   IF v = TextVir[t] THEN Text[t] ELSE Stack(t)]
        after == TextVir[t] + 1         \* the page after the text
        reading == IF t = Idle THEN {} ELSE {ReadingVir[t]}
    IN  [v \in Shared \cup DOMAIN own \cup {after} \cup reading |->
            CASE v \in Shared -> v
              [] v \in DOMAIN own -> own[v]
              [] v = after /\ v \notin DOMAIN own -> Text[t] + 1
              [] v \in reading -> Reading[t]]

Intended ==
    [t \in Tables |->
        IF t = Kernel
        THEN [v \in Shared \cup (Rom .. Rom + RomLen - 1)
                        \cup {KernelStack, KernelStack + 1} |-> v]
        ELSE TaskSpace(t)]

IntendedPages ==
    {Text[T2] + 1} \cup
    (UNION {DOMAIN Intended[t] \cup {Intended[t][v] : v \in DOMAIN Intended[t]} :
               t \in Tables})

Spaces == INSTANCE AddressSpaces
             WITH Pages <- IntendedPages,
                  space <- [t \in Tables |-> Space(t)],
                  sealed <- pc # "boot"

\* Writing descriptors into memory builds the four address spaces of the
\* linker script, one page at a time, and nothing disturbs them afterwards.
\* The map is the script's, which the code follows; it is not the one that the
\* exercise proposes (tp_01_05/README.md:28-39) and tareas.c:7,30 repeat, where
\* T2 is elsewhere and the reading areas have 64 KiB: this does not hold of the
\* code.
SpacesRefinement == Spaces!SpacesSpec
=============================================================================
