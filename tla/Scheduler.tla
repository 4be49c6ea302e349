----------------------------- MODULE Scheduler -----------------------------
(***************************************************************************)
(* The preemptive scheduler of 01_cuat/tp_01_05: the IRQ entry code of     *)
(* handler.s, kernel_handler_irq() of kernel_handlers.c, scheduler() and   *)
(* cargar_contexto() of scheduler.c, over the stacks and task structures   *)
(* that startup.s and tasks_init() build.                                  *)
(*                                                                         *)
(* Time is a sequence of expirations of TIMER0.  An IRQ goes through three *)
(* steps, because the timer keeps counting while the handler runs:         *)
(* IrqEntry (handler.s), KernelHandler (the switch on the interrupt's id)  *)
(* and CargarContexto (which ends in the return to a task).  Between two   *)
(* IRQs the code the registers belong to takes steps.                      *)
(*                                                                         *)
(* Data abstraction: r0-r12 and the program counter are one value, the     *)
(* point of the program its owner is at; a stack pointer is the stack it   *)
(* points into and how much of it is in use; CPSR's condition flags are a  *)
(* value of Flags.  All code, the kernel's and the tasks', runs in SVC     *)
(* mode: the first task is entered with the mode the kernel was            *)
(* interrupted in, and so on.                                              *)
(***************************************************************************)
EXTENDS Naturals

CONSTANTS
    Slice,          \* Task.time_slice of each task, in ticks
    Points,         \* program points (abstract r0-r12 and pc)
    Flags,          \* values of the condition flags
    MaxSvcDepth,    \* bound on what a task keeps on its SVC stack
    Spurious        \* may the GIC acknowledge an id other than TIMER0's

Task == 1 .. 3                  \* Task.ident of T1, T2 and idle
Kernel == 0                     \* startup code and the kernel's idle loop
Owners == Task \cup {Kernel}

RUNING == "RUNING"
READY == "READY"

\* The banked stack pointers a task structure holds, but for IRQ's.
Modes == {"fiq", "svc", "abt", "und", "sys"}

TickWidth == 256                \* ticks is a uint8_t
IrqFrames == 2                  \* frames of 14 words a 128-byte stack holds

ASSUME SliceAssumption == Slice \in [Task -> 1 .. TickWidth - 1]
ASSUME PointsAssumption == Points # {}
ASSUME DepthAssumption == MaxSvcDepth \in Nat
ASSUME SpuriousAssumption == Spurious \in BOOLEAN

Depth == 0 .. MaxSvcDepth
Regs == [own : Owners, point : Points]
StackPointer == [own : Owners, depth : Depth]
Bank == [Modes -> StackPointer]
IrqStackPointer == [own : Owners, frames : 0 .. IrqFrames]
NoFlags == "none"               \* a task that never ran has none to keep
Context == [regs : Regs, flags : Flags \cup {NoFlags}, sp : Bank]

VARIABLES
    \* kernel memory
    ticks,          \* kernel_handlers.c:9
    dirty,          \* kernel_handlers.c:11
    current_task,   \* scheduler.c:5
    next_task,      \* scheduler.c:6
    state,          \* Task.state
    tcbSp,          \* Task.stack_pointer_fiq .. stack_pointer_sys
    frame,          \* the frames of r0-r12 and lr on each IRQ stack
    \* the processor
    pc,             \* which of the three steps of an IRQ comes next
    regs,           \* r0-r12 and the program counter
    flags,          \* condition flags: CPSR, and SPSR_irq while in an IRQ
    sp,             \* the banked stack pointers
    irqSp,          \* the stack pointer of IRQ mode
    ttbr0,          \* whose translation tables are in use
    \* the environment
    timer,          \* TIMER0's interrupt status
    \* history
    saved           \* the context each task was in when last interrupted

kernelVars == <<ticks, dirty, current_task, next_task, state>>
vars == <<ticks, dirty, current_task, next_task, state, tcbSp, frame, pc,
          regs, flags, sp, irqSp, ttbr0, timer, saved>>

-----------------------------------------------------------------------------
(* Startup: startup.s builds the stacks and one frame per task, board_init *)
(* calls tasks_init, then interrupts are enabled in the kernel's loop.     *)
(* Nobody copies .data to where it is linked, so dirty starts with what    *)
(* RAM holds, 0, and not with the 1 of its initialiser.                    *)

\* The stack pointers startup.s stores in the task structures.  Line 315
\* loads the SYS one of the idle task from __sys_stack_top__t2__.
StartupSp(t) ==
    [m \in Modes |-> [own |-> IF t = 3 /\ m = "sys" THEN 2 ELSE t, depth |-> 0]]

StartPoint == CHOOSE p \in Points : TRUE

StartContext(t) ==
    [regs |-> [own |-> t, point |-> StartPoint],
     flags |-> NoFlags,
     sp |-> StartupSp(t)]

KernelSp == [m \in Modes |-> [own |-> Kernel, depth |-> 0]]

Init ==
    /\ ticks = 0
    /\ dirty = 0
    /\ current_task = 1
    /\ next_task = 2
    /\ state = [t \in Task |-> READY]
    /\ tcbSp = [t \in Task |-> StartupSp(t)]
    /\ frame = [o \in Owners |->
                  [i \in 1 .. IrqFrames |-> [own |-> o, point |-> StartPoint]]]
    /\ pc = "run"
    /\ regs = [own |-> Kernel, point |-> StartPoint]
    /\ flags \in Flags
    /\ sp = KernelSp
    /\ irqSp = [own |-> Kernel, frames |-> 0]
    /\ ttbr0 = Kernel
    /\ timer = FALSE
    /\ saved = [t \in Task |-> StartContext(t)]

-----------------------------------------------------------------------------
(* The environment and the interrupted code.                               *)

\* TIMER0 is periodic: it reaches zero, reloads and raises its status,
\* whatever the processor is doing.
TimerExpires ==
    /\ ~timer
    /\ timer' = TRUE
    /\ UNCHANGED <<kernelVars, tcbSp, frame, pc, regs, flags, sp, irqSp, ttbr0,
                   saved>>

\* One step of the code that has the processor: it moves on in its program,
\* may change the flags and may use its SVC stack.
TaskStep ==
    /\ pc = "run"
    /\ \E p \in Points, f \in Flags, d \in Depth :
          /\ regs' = [regs EXCEPT !.point = p]
          /\ flags' = f
          /\ sp' = [sp EXCEPT !["svc"] = [@ EXCEPT !.depth = d]]
    /\ UNCHANGED <<kernelVars, tcbSp, frame, pc, irqSp, ttbr0, timer, saved>>

-----------------------------------------------------------------------------
(* The interrupt.                                                          *)

\* stmfd sp!, {r0-r12, lr} in IRQ mode.
PushFrame ==
    /\ irqSp.frames < IrqFrames
    /\ irqSp' = [irqSp EXCEPT !.frames = @ + 1]
    /\ frame' = [frame EXCEPT ![irqSp.own] = [@ EXCEPT ![irqSp.frames + 1] = regs]]

\* _irq_handler: push the registers; unless this is the first interrupt,
\* store the other modes' stack pointers in *current_task.
IrqEntry ==
    /\ pc = "run"
    /\ timer \/ Spurious
    /\ PushFrame
    /\ tcbSp' = IF dirty = 0 THEN tcbSp ELSE [tcbSp EXCEPT ![current_task] = sp]
    /\ saved' = IF regs.own = Kernel THEN saved
                ELSE [saved EXCEPT ![regs.own] =
                         [regs |-> regs, flags |-> flags, sp |-> sp]]
    /\ pc' = "irq"
    /\ UNCHANGED <<kernelVars, regs, flags, sp, ttbr0, timer>>

\* Two faults: the third task has no case of its own; T2 is skipped.
Successor_NoWrap(t) == t + 1
Successor_SkipsT2(t) == CASE t = 1 -> 3 [] t = 2 -> 3 [] t = 3 -> 1

\* The task after t in the frame: scheduler()'s switch on the ident.
Successor(t) == CASE t = 1 -> 2 [] t = 2 -> 3 [] t = 3 -> 1

\* Faults: the slice is compared with the ticks before this one; it is
\* compared with one more.
SliceExpired_Late(k) == Slice[current_task] + 1 = k
SliceExpired_Early(k) == Slice[current_task] = k \/ Slice[current_task] = k + 1

SliceExpired(k) == Slice[current_task] = k

\* scheduler() with ticks equal to k: switch when the slice is used up.
SchedulerCall(k) ==
    IF SliceExpired(k)
    THEN /\ ticks' = 0
         /\ state' = [state EXCEPT ![current_task] = READY, ![next_task] = RUNING]
         /\ current_task' = Successor(current_task)
         /\ next_task' = Successor(Successor(current_task))
    ELSE /\ ticks' = k
         /\ UNCHANGED <<state, current_task, next_task>>

\* case GIC_SOURCE_TIMER0 of kernel_handler_irq.
KernelHandlerTimer ==
    /\ pc = "irq"
    /\ timer
    /\ timer' = FALSE
    /\ IF dirty = 0
       THEN /\ dirty' = 1
            /\ ticks' = 0
            /\ UNCHANGED <<current_task, next_task, state>>
       ELSE /\ SchedulerCall((ticks + 1) % TickWidth)
            /\ UNCHANGED dirty
    /\ pc' = "load"
    /\ UNCHANGED <<tcbSp, frame, regs, flags, sp, irqSp, ttbr0, saved>>

\* default of kernel_handler_irq: it returns to handler.s:140, which pops
\* two words nobody pushed and takes the first, r0 of the interrupted code,
\* for a stack pointer: the processor is lost.
KernelHandlerOther ==
    /\ pc = "irq"
    /\ Spurious
    /\ pc' = "lost"
    /\ UNCHANGED <<kernelVars, tcbSp, frame, regs, flags, sp, irqSp, ttbr0,
                   timer, saved>>

\* Faults: the translation tables are not changed; nor is the SVC pointer.
RestoredTables_Kept == ttbr0
RestoredSp_KeepsSvc == [tcbSp[current_task] EXCEPT !["svc"] = sp["svc"]]

RestoredTables == current_task
RestoredSp == tcbSp[current_task]

\* cargar_contexto: the tables and stack pointers of *current_task, then
\* ldmfd sp!, {r0-r12, pc}^ from its IRQ stack.  The structure's
\* stack_pointer_irq is written by startup.s only: it always says one frame
\* below the top.  The flags are those SPSR_irq got at the entry.
CargarContexto ==
    /\ pc = "load"
    /\ ttbr0' = RestoredTables
    /\ sp' = RestoredSp
    /\ regs' = frame[current_task][1]
    /\ irqSp' = [own |-> current_task, frames |-> 0]
    /\ pc' = "run"
    /\ UNCHANGED <<kernelVars, tcbSp, frame, flags, timer, saved>>

Next ==
    \/ TimerExpires
    \/ TaskStep
    \/ IrqEntry
    \/ KernelHandlerTimer
    \/ KernelHandlerOther
    \/ CargarContexto

Spec == Init /\ [][Next]_vars

\* The timer runs forever, and the processor takes a pending interrupt and
\* finishes its handler.  The tasks owe nothing.
Fairness ==
    /\ WF_vars(TimerExpires)
    /\ WF_vars(IrqEntry)
    /\ WF_vars(KernelHandlerTimer)
    /\ WF_vars(CargarContexto)

FairSpec == Spec /\ Fairness

-----------------------------------------------------------------------------
(* Properties.                                                             *)

\* The variables keep their types; ticks never leaves its byte and the
\* pointers current_task and next_task always point to a task.
TypeOK ==
    /\ ticks \in 0 .. TickWidth - 1
    /\ dirty \in {0, 1}
    /\ current_task \in Task
    /\ next_task \in Task
    /\ state \in [Task -> {RUNING, READY}]
    /\ tcbSp \in [Task -> Bank]
    /\ frame \in [Owners -> [1 .. IrqFrames -> Regs]]
    /\ pc \in {"run", "irq", "load", "lost"}
    /\ regs \in Regs
    /\ flags \in Flags
    /\ sp \in Bank
    /\ irqSp \in IrqStackPointer
    /\ ttbr0 \in Owners
    /\ timer \in BOOLEAN
    /\ saved \in [Task -> Context]

\* scheduler() asks for equality of ticks and the slice, so a count that
\* once got past it would give the task the processor until the byte wraps:
\* between interrupts the ticks are always short of the slice of the
\* scheduled task, and next_task is the one the frame puts after it.
SliceNotOverrun ==
    /\ ticks < Slice[current_task]
    /\ next_task = Successor(current_task)

\* While code runs after the first interrupt it is the scheduled task's, in
\* the scheduled task's address space and on its stacks, and the IRQ stack
\* is empty: the next frame lands where cargar_contexto looks for it, though
\* no code saves the IRQ stack pointer.  SYS is left out: the idle task gets
\* T2's stack there (startup.s:315), which no code uses.
RunsInOwnContext ==
    pc = "run" /\ dirty = 1 =>
        /\ regs.own = current_task
        /\ ttbr0 = current_task
        /\ \A m \in Modes \ {"sys"} : sp[m].own = current_task
        /\ irqSp = [own |-> current_task, frames |-> 0]

\* A return from the IRQ enters a task at the point, and with the stack
\* pointers, it had when it was last interrupted.
ContextRestored ==
    [][pc = "load" /\ pc' = "run" =>
          /\ regs' = saved[current_task].regs
          /\ sp' = saved[current_task].sp]_vars

\* handler.s:66 says the entry stores the context, and handler.s:144-145 that
\* the return copies SPSR to CPSR: so a task goes on with the condition
\* flags it was interrupted with.
FlagsRestored ==
    [][pc = "load" /\ pc' = "run" =>
          flags' = saved[current_task].flags \/ saved[current_task].flags = NoFlags]_vars

\* Every task gets the processor again and again, unless an interrupt of
\* another id sends the processor astray.
EveryTaskRuns ==
    \/ <>(pc = "lost")
    \/ \A t \in Task : []<>(pc = "run" /\ regs.own = t)

FrameLen == Slice[1] + Slice[2] + Slice[3]
Offset(t) == CASE t = 1 -> 0 [] t = 2 -> Slice[1] [] t = 3 -> Slice[1] + Slice[2]
Owner == [k \in 0 .. FrameLen - 1 |->
            IF k < Slice[1] THEN 1 ELSE IF k < Slice[1] + Slice[2] THEN 2 ELSE 3]

Frame == INSTANCE FrameSchedule
            WITH started <- dirty = 1,
                 tick <- Offset(current_task) + ticks,
                 running <- current_task

\* Counting ticks against slices divides time into the frames of
\* FrameSchedule: each task owns its fixed positions of every frame.
FrameRefinement == Frame!FrameSpec
=============================================================================
