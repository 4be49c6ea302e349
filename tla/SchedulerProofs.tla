-------------------------- MODULE SchedulerProofs --------------------------
(***************************************************************************)
(* Scheduler proved for all slices a byte can count, all sets of program   *)
(* points and flags, with and without interrupts of unknown ids.           *)
(*                                                                         *)
(* RunsInOwnContext is not inductive: what a task is given back when it is *)
(* next scheduled lies in its frame and in its task structure meanwhile.   *)
(* Stored says that these hold the context of the last interrupt for every *)
(* task that does not have the processor, and OwnContexts that this is a   *)
(* context of the task itself.                                             *)
(***************************************************************************)
EXTENDS Scheduler, TLAPS

\* Until the first tick the kernel's own context is the interrupted one.
BootInv ==
    dirty = 0 =>
        /\ current_task = 1
        /\ ticks = 0
        /\ pc # "load"
        /\ regs.own = Kernel
        /\ pc = "run" => irqSp = [own |-> Kernel, frames |-> 0]

Stored ==
    \A t \in Task :
        dirty = 0 \/ pc # "run" \/ t # current_task =>
            /\ frame[t][1] = saved[t].regs
            /\ tcbSp[t] = saved[t].sp

OwnContexts ==
    \A t \in Task :
        /\ saved[t].regs.own = t
        /\ \A m \in Modes \ {"sys"} : saved[t].sp[m].own = t

IInv ==
    /\ TypeOK
    /\ SliceNotOverrun
    /\ BootInv
    /\ RunsInOwnContext
    /\ Stored
    /\ OwnContexts

-----------------------------------------------------------------------------
\* A slice is a positive number of ticks that a byte can count.
LEMMA SliceType ==
    /\ \A t \in Task : Slice[t] \in Nat /\ 0 < Slice[t] /\ Slice[t] < TickWidth
    /\ 1 \in Task /\ 2 \in Task /\ 3 \in Task
<1>1. \A i \in 1 .. TickWidth - 1 : i \in Nat /\ 0 < i /\ i < TickWidth
  BY DEF TickWidth
<1>2. \A t \in Task : Slice[t] \in 1 .. TickWidth - 1
  BY SliceAssumption
<1> QED
  BY <1>1, <1>2 DEF Task

\* A number below the modulus is its own remainder.
LEMMA SmallMod == \A n \in Nat : \A a \in Nat : a < n => a % n = a
OBVIOUS

\* The frame's order stays within the tasks.
LEMMA SuccessorType == \A t \in Task : Successor(t) \in Task
BY DEF Successor, Task

\* scheduler.c:53-54: T1 is first, and T2 after it.
LEMMA StartType ==
    /\ StartPoint \in Points
    /\ \A t \in Task : StartupSp(t) \in Bank /\ StartContext(t) \in Context
<1>1. StartPoint \in Points
  BY PointsAssumption DEF StartPoint
<1>2. \A t \in Task : StartupSp(t) \in Bank
  BY DepthAssumption
  DEF StartupSp, Bank, StackPointer, Owners, Task, Kernel, Depth
<1>3. \A t \in Task : StartContext(t) \in Context
  BY <1>1, <1>2 DEF StartContext, Context, Regs, Owners, NoFlags
<1> QED
  BY <1>1, <1>2, <1>3

\* A register set at another point of the program is still a register set,
\* and a bank with another SVC depth still a bank.
LEMMA StepType ==
    ASSUME NEW r \in Regs, NEW b \in Bank, NEW p \in Points, NEW d \in Depth
    PROVE  /\ [r EXCEPT !.point = p] \in Regs
           /\ [b EXCEPT !["svc"] = [@ EXCEPT !.depth = d]] \in Bank
<1>1. [r EXCEPT !.point = p] \in Regs
  BY DEF Regs
<1>2. [b EXCEPT !["svc"] = [@ EXCEPT !.depth = d]] \in Bank
  <2>1. [b["svc"] EXCEPT !.depth = d] \in StackPointer
    BY DEF Bank, Modes, StackPointer
  <2> QED
    BY <2>1 DEF Bank, Modes
<1> QED
  BY <1>1, <1>2

LEMMA InitTypeOK == Init => TypeOK
<1> SUFFICES ASSUME Init PROVE TypeOK
  OBVIOUS
<1> USE DEF Init
<1>1. ticks \in 0 .. TickWidth - 1 /\ dirty \in {0, 1}
  BY DEF TickWidth
<1>2. current_task \in Task /\ next_task \in Task /\ state \in [Task -> {RUNING, READY}]
  BY DEF Task
<1>3. tcbSp \in [Task -> Bank] /\ saved \in [Task -> Context]
  BY StartType
<1>4. frame \in [Owners -> [1 .. IrqFrames -> Regs]] /\ regs \in Regs
  BY StartType DEF Regs, Owners, Kernel
<1>5. pc \in {"run", "irq", "load", "lost"} /\ flags \in Flags /\ timer \in BOOLEAN
  OBVIOUS
<1>6. sp \in Bank
  BY DepthAssumption DEF KernelSp, Bank, StackPointer, Owners, Kernel, Depth
<1>7. irqSp \in IrqStackPointer /\ ttbr0 \in Owners
  BY DEF IrqStackPointer, Owners, Kernel, IrqFrames
<1> QED
  BY <1>1, <1>2, <1>3, <1>4, <1>5, <1>6, <1>7 DEF TypeOK

LEMMA NextTypeOK == TypeOK /\ [Next]_vars => TypeOK'
<1> SUFFICES ASSUME TypeOK, [Next]_vars PROVE TypeOK'
  OBVIOUS
<1> USE DEF TypeOK
<1>1. CASE TimerExpires
  BY <1>1 DEF TimerExpires, kernelVars
<1>2. CASE TaskStep
  <2>1. PICK p \in Points, f \in Flags, d \in Depth :
          /\ regs' = [regs EXCEPT !.point = p]
          /\ flags' = f
          /\ sp' = [sp EXCEPT !["svc"] = [@ EXCEPT !.depth = d]]
    BY <1>2 DEF TaskStep
  <2>2. regs' \in Regs /\ sp' \in Bank
    BY <2>1, StepType
  <2> QED
    BY <1>2, <2>1, <2>2 DEF TaskStep, kernelVars
<1>3. CASE IrqEntry
  <2>1. irqSp' \in IrqStackPointer
    BY <1>3 DEF IrqEntry, PushFrame, IrqStackPointer, IrqFrames
  <2>2. frame' \in [Owners -> [1 .. IrqFrames -> Regs]]
    BY <1>3 DEF IrqEntry, PushFrame, IrqStackPointer, IrqFrames
  <2>3. tcbSp' \in [Task -> Bank]
    BY <1>3 DEF IrqEntry
  <2>4. saved' \in [Task -> Context]
    <3>1. [regs |-> regs, flags |-> flags, sp |-> sp] \in Context
      BY DEF Context
    <3> QED
      BY <1>3, <3>1 DEF IrqEntry
  <2> QED
    BY <1>3, <2>1, <2>2, <2>3, <2>4 DEF IrqEntry, kernelVars
<1>4. CASE KernelHandlerTimer
  <2>1. ticks' \in 0 .. TickWidth - 1 /\ dirty' \in {0, 1}
    <3>1. ticks' \in {0, (ticks + 1) % TickWidth} /\ dirty' \in {dirty, 1}
      BY <1>4 DEF KernelHandlerTimer, SchedulerCall
    <3> QED
      BY <3>1 DEF TickWidth
  <2>2. current_task' \in Task /\ next_task' \in Task
    BY <1>4, SuccessorType DEF KernelHandlerTimer, SchedulerCall
  <2>3. state' \in [Task -> {RUNING, READY}]
    BY <1>4 DEF KernelHandlerTimer, SchedulerCall
  <2> QED
    BY <1>4, <2>1, <2>2, <2>3 DEF KernelHandlerTimer
<1>5. CASE KernelHandlerOther
  BY <1>5 DEF KernelHandlerOther, kernelVars
<1>6. CASE CargarContexto
  <2>1. sp' \in Bank /\ regs' \in Regs
    BY <1>6 DEF CargarContexto, RestoredSp, Owners, IrqFrames
  <2>2. irqSp' \in IrqStackPointer /\ ttbr0' \in Owners
    BY <1>6 DEF CargarContexto, RestoredTables, IrqStackPointer, Owners, IrqFrames
  <2> QED
    BY <1>6, <2>1, <2>2 DEF CargarContexto, kernelVars
<1>7. CASE UNCHANGED vars
  BY <1>7 DEF vars
<1> QED
  BY <1>1, <1>2, <1>3, <1>4, <1>5, <1>6, <1>7 DEF Next

\* Every variable keeps its type: ticks its byte, the task pointers a task.
THEOREM TypeCorrect == Spec => []TypeOK
BY InitTypeOK, NextTypeOK, PTL DEF Spec

-----------------------------------------------------------------------------
LEMMA InitIInv == Init => IInv
<1> SUFFICES ASSUME Init PROVE IInv
  OBVIOUS
<1>1. TypeOK
  BY InitTypeOK
<1>2. SliceNotOverrun
  BY SliceType DEF Init, SliceNotOverrun, Successor, Task, TickWidth
<1>3. BootInv /\ RunsInOwnContext
  BY DEF Init, BootInv, RunsInOwnContext
<1>4. Stored
  BY DEF Init, Stored, StartContext, Owners, IrqFrames
<1>5. OwnContexts
  BY DEF Init, OwnContexts, StartContext, StartupSp, Modes
<1> QED
  BY <1>1, <1>2, <1>3, <1>4, <1>5 DEF IInv

\* The timer touches none of what the invariant speaks of.
LEMMA TimerExpiresIInv == IInv /\ TimerExpires => IInv'
<1> SUFFICES ASSUME IInv, TimerExpires PROVE IInv'
  OBVIOUS
<1>1. TypeOK'
  BY NextTypeOK DEF IInv, Next
<1> QED
  BY <1>1
  DEF IInv, TimerExpires, kernelVars, SliceNotOverrun, BootInv,
      RunsInOwnContext, Stored, OwnContexts

\* A step of the running code leaves the owners of its registers and stacks.
LEMMA TaskStepIInv == IInv /\ TaskStep => IInv'
<1> SUFFICES ASSUME IInv, TaskStep PROVE IInv'
  OBVIOUS
<1>1. TypeOK'
  BY NextTypeOK DEF IInv, Next
<1>2. PICK p \in Points, d \in Depth :
         /\ regs' = [regs EXCEPT !.point = p]
         /\ sp' = [sp EXCEPT !["svc"] = [@ EXCEPT !.depth = d]]
  BY DEF TaskStep
<1>3. regs'.own = regs.own /\ \A m \in Modes : sp'[m].own = sp[m].own
  BY <1>2 DEF IInv, TypeOK, Regs, Bank, StackPointer, Modes
<1>4. SliceNotOverrun' /\ Stored' /\ OwnContexts'
  BY DEF IInv, TaskStep, kernelVars, SliceNotOverrun, Stored, OwnContexts
<1>5. BootInv' /\ RunsInOwnContext'
  BY <1>3 DEF IInv, TaskStep, kernelVars, BootInv, RunsInOwnContext
<1> QED
  BY <1>1, <1>4, <1>5 DEF IInv

\* The entry stores the running task's context where Stored wants it.
LEMMA IrqEntryIInv == IInv /\ IrqEntry => IInv'
<1> SUFFICES ASSUME IInv, IrqEntry PROVE IInv'
  OBVIOUS
<1> USE DEF IInv
<1>1. TypeOK'
  BY NextTypeOK DEF Next
<1>2. SliceNotOverrun' /\ BootInv' /\ RunsInOwnContext'
  BY DEF IrqEntry, kernelVars, SliceNotOverrun, BootInv, RunsInOwnContext
<1>3. CASE dirty = 0
  <2>1. regs.own = Kernel /\ irqSp.own = Kernel
    BY <1>3 DEF IrqEntry, BootInv
  <2>2. tcbSp' = tcbSp /\ saved' = saved
    BY <1>3, <2>1 DEF IrqEntry
  <2>3. \A t \in Task : frame'[t] = frame[t]
    BY <2>1 DEF IrqEntry, PushFrame, TypeOK, Task, Kernel, Owners
  <2> QED
    BY <1>1, <1>2, <1>3, <2>2, <2>3 DEF Stored, OwnContexts
<1>4. CASE dirty = 1
  <2>1. /\ regs.own = current_task /\ current_task # Kernel
        /\ irqSp = [own |-> current_task, frames |-> 0]
        /\ \A m \in Modes \ {"sys"} : sp[m].own = current_task
    BY <1>4 DEF IrqEntry, RunsInOwnContext, TypeOK, Task, Kernel
  <2>2. /\ tcbSp' = [tcbSp EXCEPT ![current_task] = sp]
        /\ saved' = [saved EXCEPT ![current_task] =
                        [regs |-> regs, flags |-> flags, sp |-> sp]]
    BY <1>4, <2>1 DEF IrqEntry
  <2>3. /\ frame'[current_task][1] = regs
        /\ \A t \in Task : t # current_task => frame'[t] = frame[t]
    BY <2>1 DEF IrqEntry, PushFrame, TypeOK, Owners, IrqFrames
  <2>4. Stored'
    BY <1>4, <2>2, <2>3 DEF Stored, TypeOK, IrqEntry, kernelVars
  <2>5. OwnContexts'
    BY <2>1, <2>2 DEF OwnContexts, TypeOK
  <2> QED
    BY <1>1, <1>2, <2>4, <2>5
<1> QED
  BY <1>3, <1>4 DEF TypeOK

\* The byte that counts ticks does not wrap.
LEMMA NoWrap ==
    ASSUME IInv
    PROVE  /\ ticks + 1 <= Slice[current_task]
           /\ (ticks + 1) % TickWidth = ticks + 1
<1>1. ticks \in Nat /\ ticks < Slice[current_task] /\ Slice[current_task] \in Nat
  BY SliceType DEF IInv, TypeOK, SliceNotOverrun, TickWidth
<1>2. Slice[current_task] < TickWidth /\ TickWidth \in Nat
  BY SliceType DEF IInv, TypeOK, TickWidth
<1> QED
  BY <1>1, <1>2, SmallMod

\* The tick keeps the count short of the slice: it either stays short or
\* reaches the slice, which is when scheduler() resets it.
LEMMA KernelHandlerTimerIInv == IInv /\ KernelHandlerTimer => IInv'
<1> SUFFICES ASSUME IInv, KernelHandlerTimer PROVE IInv'
  OBVIOUS
<1> USE DEF IInv
<1>1. TypeOK'
  BY NextTypeOK DEF Next
<1>2. SliceNotOverrun'
  <2>1. CASE dirty = 0
    BY <2>1, SliceType
    DEF KernelHandlerTimer, SliceNotOverrun, BootInv, Task, TickWidth
  <2>2. CASE dirty # 0
    <3>1. (ticks + 1) % TickWidth = ticks + 1
      BY NoWrap
    <3>2. SchedulerCall(ticks + 1)
      BY <2>2, <3>1 DEF KernelHandlerTimer
    <3>3. CASE Slice[current_task] = ticks + 1
      <4>1. /\ ticks' = 0
            /\ current_task' = Successor(current_task)
            /\ next_task' = Successor(current_task')
        BY <3>2, <3>3 DEF SchedulerCall, SliceExpired
      <4> QED
        BY <4>1, <1>1, SliceType DEF SliceNotOverrun, TypeOK, TickWidth
    <3>4. CASE Slice[current_task] # ticks + 1
      <4>1. ticks' = ticks + 1 /\ UNCHANGED <<current_task, next_task>>
        BY <3>2, <3>4 DEF SchedulerCall, SliceExpired
      <4> QED
        BY <3>4, <4>1, SliceType DEF SliceNotOverrun, TypeOK, TickWidth
    <3> QED
      BY <3>3, <3>4
  <2> QED
    BY <2>1, <2>2
<1>3. BootInv' /\ RunsInOwnContext'
  BY DEF KernelHandlerTimer, SchedulerCall, BootInv, RunsInOwnContext, TypeOK
<1>4. Stored' /\ OwnContexts'
  BY DEF KernelHandlerTimer, Stored, OwnContexts
<1> QED
  BY <1>1, <1>2, <1>3, <1>4

\* A processor that went astray keeps the memory as it is.
LEMMA KernelHandlerOtherIInv == IInv /\ KernelHandlerOther => IInv'
<1> SUFFICES ASSUME IInv, KernelHandlerOther PROVE IInv'
  OBVIOUS
<1>1. TypeOK'
  BY NextTypeOK DEF IInv, Next
<1> QED
  BY <1>1
  DEF IInv, KernelHandlerOther, kernelVars, SliceNotOverrun, BootInv,
      RunsInOwnContext, Stored, OwnContexts

\* What the return loads: the context saved[current_task].
LEMMA Restores ==
    ASSUME IInv, CargarContexto
    PROVE  /\ dirty = 1
           /\ regs' = saved[current_task].regs
           /\ sp' = saved[current_task].sp
<1>1. pc = "load" /\ dirty = 1
  BY DEF IInv, TypeOK, BootInv, CargarContexto
<1> QED
  BY <1>1 DEF IInv, TypeOK, Stored, CargarContexto, RestoredSp

LEMMA CargarContextoIInv == IInv /\ CargarContexto => IInv'
<1> SUFFICES ASSUME IInv, CargarContexto PROVE IInv'
  OBVIOUS
<1>1. TypeOK'
  BY NextTypeOK DEF IInv, Next
<1>2. SliceNotOverrun' /\ BootInv' /\ OwnContexts'
  BY Restores
  DEF IInv, CargarContexto, kernelVars, SliceNotOverrun, BootInv, OwnContexts
<1>3. RunsInOwnContext'
  BY Restores
  DEF IInv, TypeOK, CargarContexto, RestoredTables, kernelVars,
      RunsInOwnContext, OwnContexts
<1>4. Stored'
  BY DEF IInv, CargarContexto, kernelVars, Stored
<1> QED
  BY <1>1, <1>2, <1>3, <1>4 DEF IInv

LEMMA NextIInv == IInv /\ [Next]_vars => IInv'
<1> SUFFICES ASSUME IInv, [Next]_vars PROVE IInv'
  OBVIOUS
<1>1. CASE UNCHANGED vars
  BY <1>1
  DEF vars, IInv, TypeOK, SliceNotOverrun, BootInv, RunsInOwnContext, Stored,
      OwnContexts
<1> QED
  BY <1>1, TimerExpiresIInv, TaskStepIInv, IrqEntryIInv,
     KernelHandlerTimerIInv, KernelHandlerOtherIInv, CargarContextoIInv
  DEF Next

THEOREM Invariance == Spec => []IInv
BY InitIInv, NextIInv, PTL DEF Spec

\* Whatever the slices, the count of ticks stays short of the slice of the
\* scheduled task, so scheduler()'s test for equality never misses it.
THEOREM SliceNeverOverrun == Spec => []SliceNotOverrun
<1>1. IInv => SliceNotOverrun
  BY DEF IInv
<1> QED
  BY <1>1, Invariance, PTL

\* Code always runs with its own registers, stacks and translation tables.
THEOREM OwnContext == Spec => []RunsInOwnContext
<1>1. IInv => RunsInOwnContext
  BY DEF IInv
<1> QED
  BY <1>1, Invariance, PTL

\* Every return from an interrupt gives the scheduled task back the point of
\* its program and the stack pointers it was interrupted with.
THEOREM ContextAlwaysRestored == Spec => ContextRestored
<1> DEFINE Restoring ==
        pc = "load" /\ pc' = "run" =>
            /\ regs' = saved[current_task].regs
            /\ sp' = saved[current_task].sp
<1>1. IInv /\ [Next]_vars => [Restoring]_vars
  <2> SUFFICES ASSUME IInv, Next, pc = "load", pc' = "run"
               PROVE  /\ regs' = saved[current_task].regs
                      /\ sp' = saved[current_task].sp
    OBVIOUS
  <2>1. CASE CargarContexto
    BY <2>1, Restores
  <2>2. CASE ~CargarContexto
    BY <2>2
    DEF Next, TimerExpires, TaskStep, IrqEntry, KernelHandlerTimer,
        KernelHandlerOther
  <2> QED
    BY <2>1, <2>2
<1> QED
  BY <1>1, Invariance, PTL DEF Spec, ContextRestored

-----------------------------------------------------------------------------
(* The frame.                                                              *)

LEMMA InitFrame == Init => Frame!FrameInit
BY SliceType
DEF Init, Frame!FrameInit, Offset, Owner, FrameLen, Task, TickWidth

\* Where a task's ticks lie in the frame.
LEMMA OwnerOfTick ==
    ASSUME NEW t \in Task, NEW k \in 0 .. Slice[t] - 1
    PROVE  /\ Offset(t) + k \in 0 .. FrameLen - 1
           /\ Owner[Offset(t) + k] = t
<1>1. \A i \in {1, 2, 3} : Slice[i] \in Nat /\ 0 < Slice[i]
  BY SliceType
<1>2. CASE t = 1
  BY <1>1, <1>2 DEF Offset, Owner, FrameLen
<1>3. CASE t = 2
  BY <1>1, <1>3 DEF Offset, Owner, FrameLen
<1>4. CASE t = 3
  BY <1>1, <1>4 DEF Offset, Owner, FrameLen
<1> QED
  BY <1>2, <1>3, <1>4 DEF Task

\* The tick after the last one of a slice is the first one of the next.
LEMMA SliceEnd ==
    ASSUME NEW t \in Task
    PROVE  (Offset(t) + Slice[t]) % FrameLen = Offset(Successor(t))
<1>1. \A i \in {1, 2, 3} : Slice[i] \in Nat /\ 0 < Slice[i]
  BY SliceType
<1>2. FrameLen \in Nat
  BY <1>1 DEF FrameLen
<1>3. \A n \in Nat \ {0} : n % n = 0
  OBVIOUS
<1>4. CASE t = 1
  <2>1. Slice[1] < FrameLen
    BY <1>1 DEF FrameLen
  <2> QED
    BY <1>1, <1>2, <1>4, <2>1, SmallMod DEF Offset, Successor
<1>5. CASE t = 2
  <2>1. Slice[1] + Slice[2] < FrameLen
    BY <1>1 DEF FrameLen
  <2> QED
    BY <1>1, <1>2, <1>5, <2>1, SmallMod DEF Offset, Successor
<1>6. CASE t = 3
  BY <1>1, <1>3, <1>6 DEF Offset, Successor, FrameLen
<1> QED
  BY <1>4, <1>5, <1>6 DEF Task

\* One timer interrupt is one tick of the frame.
LEMMA TickFrame ==
    ASSUME IInv, KernelHandlerTimer
    PROVE  Frame!FirstTick \/ Frame!NextTick
<1> USE DEF IInv
<1>1. CASE dirty = 0
  BY <1>1 DEF KernelHandlerTimer, BootInv, Frame!FirstTick
<1>2. CASE dirty # 0
  <2>1. dirty = 1 /\ dirty' = 1
    BY <1>2 DEF KernelHandlerTimer, TypeOK
  <2>2. IInv'
    BY KernelHandlerTimerIInv
  <2>3. ticks + 1 <= Slice[current_task] /\ (ticks + 1) % TickWidth = ticks + 1
    BY NoWrap
  <2>4. SchedulerCall(ticks + 1)
    BY <1>2, <2>3 DEF KernelHandlerTimer
  <2>5. ticks' \in 0 .. Slice[current_task'] - 1
    BY <2>2, SliceType DEF SliceNotOverrun, TypeOK, TickWidth
  <2>6. (Offset(current_task) + ticks + 1) % FrameLen = Offset(current_task') + ticks'
    <3>1. Offset(current_task) \in Nat /\ FrameLen \in Nat
      BY SliceType DEF TypeOK, Offset, FrameLen, Task, TickWidth
    <3>2. CASE Slice[current_task] = ticks + 1
      <4>1. ticks' = 0 /\ current_task' = Successor(current_task)
        BY <2>4, <3>2 DEF SchedulerCall, SliceExpired
      <4>2. Offset(current_task') \in Nat
        BY <2>2, SliceType DEF TypeOK, Offset, Task, TickWidth
      <4>3. Offset(current_task) + ticks + 1 = Offset(current_task) + Slice[current_task]
        BY <3>1, <3>2 DEF TypeOK
      <4> QED
        BY <4>1, <4>2, <4>3, SliceEnd DEF TypeOK
    <3>3. CASE Slice[current_task] # ticks + 1
      <4>1. ticks' = ticks + 1 /\ current_task' = current_task
        BY <2>4, <3>3 DEF SchedulerCall, SliceExpired
      <4>2. Offset(current_task) + ticks + 1 \in 0 .. FrameLen - 1
        BY <4>1, <2>5, OwnerOfTick, <3>1 DEF TypeOK
      <4> QED
        BY <4>1, <4>2, <3>1, SmallMod DEF TypeOK
    <3> QED
      BY <3>2, <3>3
  <2>7. Owner[Offset(current_task') + ticks'] = current_task'
    BY <2>2, <2>5, OwnerOfTick DEF TypeOK
  <2> QED
    BY <2>1, <2>6, <2>7 DEF Frame!NextTick
<1> QED
  BY <1>1, <1>2

\* Counting ticks against slices implements the frame: every step is a tick
\* of FrameSchedule or leaves its variables alone.
THEOREM ImplementsFrame == Spec => FrameRefinement
<1>1. IInv /\ [Next]_vars => [Frame!FirstTick \/ Frame!NextTick]_Frame!frameVars
  <2> SUFFICES ASSUME IInv, [Next]_vars
               PROVE  \/ Frame!FirstTick \/ Frame!NextTick
                      \/ UNCHANGED Frame!frameVars
    OBVIOUS
  <2>1. CASE KernelHandlerTimer
    BY <2>1, TickFrame
  <2>2. CASE ~KernelHandlerTimer
    <3>1. UNCHANGED <<dirty, ticks, current_task>>
      BY <2>2
      DEF Next, vars, kernelVars, TimerExpires, TaskStep, IrqEntry,
          KernelHandlerOther, CargarContexto
    <3> QED
      BY <3>1 DEF Frame!frameVars
  <2> QED
    BY <2>1, <2>2
<1> QED
  BY <1>1, InitFrame, Invariance, PTL DEF Spec, FrameRefinement, Frame!FrameSpec
=============================================================================
