---------------------------- MODULE SharedMemory ----------------------------
(***************************************************************************)
(* shared_memory.c of 02_cuat/01_server: the segment with client_count and *)
(* data, the System V semaphore around it, and the processes that use it.  *)
(*                                                                         *)
(* Each process has a main flow and may be interrupted by a signal handler *)
(* that uses the segment too (sigusr1_handler writes data, sigchld_handler *)
(* decrements client_count).  The handler runs on top of the main flow,    *)
(* which stands still meanwhile, and both use the one sembuf `sb' of the   *)
(* process.  A semop that blocks when the signal comes fails with EINTR    *)
(* (SA_RESTART never restarts semop) and is tried again with whatever      *)
(* sb.sem_op then holds.                                                   *)
(*                                                                         *)
(* my_exit first detaches the segment and only then removes the semaphore: *)
(* a handler that comes in between works on an address that is no longer   *)
(* mapped, and a process that dies of that, or of the SIGTERM sent to the  *)
(* driver, keeps the unit it had.                                          *)
(*                                                                         *)
(* The string of 1024 bytes is two halves, copied one after the other;     *)
(* client_count++ is a load and a store.                                   *)
(***************************************************************************)
EXTENDS Integers

CONSTANTS
    Proc,           \* processes attached to the segment
    Value,          \* strings a producer may write
    MainOps,        \* operations the main flow of a process performs
    HandlerOps,     \* operations its signal handlers perform
    SigintProcs,    \* processes that do not ignore SIGINT
    Kills,          \* processes that an ending process terminates by a signal
    MaxSignals,     \* bound: signals delivered in a behaviour
    MaxCount        \* bound: the count is not incremented beyond it

Op == {"write", "read", "increment", "decrement", "get"}
Flow == {"main", "handler"}
Activity == Proc \X Flow
MAX_RETRIES_SEMAPHORE == 3      \* shared_memory.h:21

ASSUME ValueAssumption == Value # {}
ASSUME OpsAssumption == /\ MainOps \in [Proc -> SUBSET Op]
                        /\ HandlerOps \in [Proc -> SUBSET Op]
                        /\ SigintProcs \subseteq Proc
                        /\ Kills \in [Proc -> SUBSET Proc]
ASSUME BoundsAssumption == MaxSignals \in Nat /\ MaxCount \in Nat

VARIABLES
    sem,        \* value of the semaphore
    removed,    \* has cleanup_shm_sem removed it
    count,      \* shm_ptr->client_count
    data,       \* shm_ptr->data, in two halves
    sem_op,     \* sb.sem_op of each process
    pc,         \* where each flow of each process is
    op,         \* the operation it performs
    arg,        \* the string it writes
    seen,       \* the client_count it loaded
    copy,       \* the string it copied, in two halves
    retries,    \* retries of lock_semaphore or unlock_semaphore
    exiting,    \* the flow of each process that has called my_exit
    attached,   \* processes that have the segment mapped
    sigint,     \* processes inside sigint_handler, where SIGINT is blocked
    \* history and bounds
    signals,    \* signals delivered so far
    net,        \* increments minus decrements completed
    misfired,   \* has a lock_semaphore added to the semaphore
    orphaned    \* has a process died between its lock and its unlock

memory == <<count, data, net>>
locals == <<op, arg, seen, copy>>
ending == <<exiting, attached, sigint, orphaned>>
vars == <<sem, removed, memory, sem_op, pc, locals, retries, ending, signals,
          misfired>>

PcValues == {"idle",        \* no operation in progress
             "lock",        \* lock_semaphore is about to call semop
             "wait",        \* blocked in that semop
             "failed",      \* that semop returned -1
             "first",       \* inside the lock, first half of the access
             "second",      \* inside the lock, second half of the access
             "unlock",      \* unlock_semaphore is about to call semop
             "ufailed",     \* that semop returned -1
             "dead"}        \* the process has exited
Holding == {"first", "second", "unlock", "ufailed"}

\* What a flow holds in its own variables when it is in no operation.
NoString == CHOOSE v \in Value : TRUE

\* A fault: the semaphore is born with two units.
InitialSem_Two == 2

\* semctl SETVAL, line 46.
InitialSem == 1

Init ==
    /\ sem = InitialSem
    /\ removed = FALSE
    /\ count = 0                    \* line 34
    /\ data = <<NoString, NoString>>
    /\ arg = [a \in Activity |-> NoString]
    /\ copy = [a \in Activity |-> <<NoString, NoString>>]
    /\ sem_op = [p \in Proc |-> 1]
    /\ pc = [a \in Activity |-> "idle"]
    /\ op = [a \in Activity |-> "get"]
    /\ seen = [a \in Activity |-> 0]
    /\ retries = [a \in Activity |-> 0]
    /\ exiting = [p \in Proc |-> "no"]
    /\ attached = Proc
    /\ sigint = {}
    /\ signals = 0
    /\ net = 0
    /\ misfired = FALSE
    /\ orphaned = FALSE

Holds(a) == pc[a] \in Holding

\* A flow takes steps unless the handler of its process runs on top of it or
\* it is in my_exit, which does not return.
Runs(a) ==
    /\ exiting[a[1]] # a[2]
    /\ a[2] = "main" => pc[<<a[1], "handler">>] = "idle"

At(a, where) == pc[a] = where /\ Runs(a)
Goto(a, where) == pc' = [pc EXCEPT ![a] = where]

-----------------------------------------------------------------------------
\* Entry of an operation up to lock_semaphore's first two lines.
StartLock(a, o) ==
    /\ op' = [op EXCEPT ![a] = o]
    /\ IF o = "write" THEN \E v \in Value : arg' = [arg EXCEPT ![a] = v]
                      ELSE arg' = arg
    /\ o = "increment" => net < MaxCount
    /\ o = "decrement" => net > -MaxCount
    /\ sem_op' = [sem_op EXCEPT ![a[1]] = -1]

\* The main flow calls one of its operations.
Call(p) ==
    LET a == <<p, "main">>
    IN  /\ At(a, "idle")
        /\ \E o \in MainOps[p] : StartLock(a, o)
        /\ Goto(a, "lock")
        /\ UNCHANGED <<sem, removed, memory, seen, copy, retries, ending, signals,
                       misfired>>

\* A signal interrupts the main flow wherever it is; a semop it is blocked in
\* will return EINTR.  (sigchld_handler may decrement for several children:
\* that is as if the signals came one after the other.)
Signal(p) ==
    LET a == <<p, "handler">>
        m == <<p, "main">>
    IN  /\ signals < MaxSignals
        /\ signals' = signals + 1
        /\ pc[a] = "idle"
        /\ \E o \in HandlerOps[p] : StartLock(a, o)
        /\ pc' = [pc EXCEPT ![a] = "lock",
                            ![m] = IF @ = "wait" THEN "failed" ELSE @]
        /\ UNCHANGED <<sem, removed, memory, seen, copy, retries, ending, misfired>>

\* A fault: lock_semaphore goes on where it should have blocked.
Blocks_Never(a) == FALSE

Blocks(a) == sem + sem_op[a[1]] < 0

\* semop with the sembuf of the process, as lock_semaphore calls it.
SemopLock(a) ==
    /\ At(a, "lock")
    /\ \/ /\ removed
          /\ Goto(a, "failed")
          /\ UNCHANGED <<sem, retries, misfired>>
       \/ /\ ~removed
          /\ Blocks(a)
          /\ Goto(a, "wait")
          /\ UNCHANGED <<sem, retries, misfired>>
       \/ /\ ~removed
          /\ ~Blocks(a)
          /\ sem' = sem + sem_op[a[1]]
          /\ misfired' = (misfired \/ sem_op[a[1]] = 1)
          /\ retries' = [retries EXCEPT ![a] = 0]
          /\ Goto(a, "first")
    /\ UNCHANGED <<removed, memory, sem_op, locals, ending, signals>>

\* A blocked semop takes the semaphore.
WakeUp(a) ==
    /\ At(a, "wait")
    /\ ~removed
    /\ sem > 0
    /\ sem' = sem - 1
    /\ retries' = [retries EXCEPT ![a] = 0]
    /\ Goto(a, "first")
    /\ UNCHANGED <<removed, memory, sem_op, locals, ending, signals, misfired>>

\* A blocked semop fails when the semaphore is removed (EIDRM).
WakeRemoved(a) ==
    /\ At(a, "wait")
    /\ removed
    /\ Goto(a, "failed")
    /\ UNCHANGED <<sem, removed, memory, sem_op, locals, retries, ending, signals,
                   misfired>>

\* A flow calls my_exit and goes no further; a handler may still run on top.
MyExit(a) ==
    /\ exiting' = [exiting EXCEPT ![a[1]] = a[2]]
    /\ UNCHANGED <<sem, removed, memory, sem_op, locals, retries, attached, signals,
                   misfired>>

\* Some processes die; a unit one of them had stays taken.
Die(procs) ==
    /\ pc' = [a \in Activity |-> IF a[1] \in procs THEN "dead" ELSE pc[a]]
    /\ orphaned' = (orphaned \/ \E a \in Activity : a[1] \in procs /\ Holds(a))

\* Faults: retries++ is missing; a lock that failed once is taken for one that
\* succeeded.
Counted_Not(n) == n
RetryTarget_Ignored(a) == IF pc[a] = "failed" THEN "first" ELSE "unlock"

Counted(n) == n + 1
RetryTarget(a) == IF pc[a] = "failed" THEN "lock" ELSE "unlock"

\* semop returned -1: sleep and try again, at most MAX_RETRIES times.
Retry(a) ==
    /\ At(a, "failed") \/ At(a, "ufailed")
    /\ IF retries[a] >= MAX_RETRIES_SEMAPHORE
       THEN /\ MyExit(a)
            /\ UNCHANGED <<pc, sigint, orphaned>>
       ELSE /\ retries' = [retries EXCEPT ![a] = Counted(@)]
            /\ Goto(a, RetryTarget(a))
            /\ UNCHANGED <<sem, removed, memory, sem_op, locals, ending, signals,
                           misfired>>

\* First half of the access.
First(a) ==
    /\ At(a, "first")
    /\ a[1] \in attached
    /\ data' = IF op[a] = "write" THEN <<arg[a], data[2]>> ELSE data
    /\ copy' = IF op[a] = "read" THEN [copy EXCEPT ![a] = <<data[1], @[2]>>]
               ELSE copy
    /\ seen' = IF op[a] \in {"increment", "decrement", "get"}
               THEN [seen EXCEPT ![a] = count] ELSE seen
    /\ Goto(a, "second")
    /\ UNCHANGED <<sem, removed, count, net, sem_op, op, arg, retries, ending,
                   signals, misfired>>

\* What an operation adds to the count.
Delta(o) == CASE o = "increment" -> 1 [] o = "decrement" -> -1 [] OTHER -> 0

\* A fault: unlock_semaphore adds nothing.
UnlockOp_Nothing == 0

\* sb.sem_op of unlock_semaphore, line 145.
UnlockOp == 1

\* Second half of the access, then the first two lines of unlock_semaphore.
Second(a) ==
    /\ At(a, "second")
    /\ a[1] \in attached
    /\ data' = IF op[a] = "write" THEN <<data[1], arg[a]>> ELSE data
    /\ copy' = IF op[a] = "read" THEN [copy EXCEPT ![a] = <<@[1], data[2]>>]
               ELSE copy
    /\ count' = IF op[a] \in {"increment", "decrement"}
                THEN seen[a] + Delta(op[a]) ELSE count
    /\ net' = net + Delta(op[a])
    /\ sem_op' = [sem_op EXCEPT ![a[1]] = UnlockOp]
    /\ Goto(a, "unlock")
    /\ UNCHANGED <<sem, removed, op, arg, seen, retries, ending, signals, misfired>>

\* The operation returns, and with it a handler: its variables are gone.
Return(a) ==
    /\ Goto(a, "idle")
    /\ op' = [op EXCEPT ![a] = "get"]
    /\ arg' = [arg EXCEPT ![a] = NoString]
    /\ seen' = [seen EXCEPT ![a] = 0]
    /\ copy' = [copy EXCEPT ![a] = <<NoString, NoString>>]
    /\ retries' = [retries EXCEPT ![a] = 0]

\* semop as unlock_semaphore calls it.
SemopUnlock(a) ==
    /\ At(a, "unlock")
    /\ \/ /\ removed
          /\ Goto(a, "ufailed")
          /\ UNCHANGED <<sem, locals, retries>>
       \/ /\ ~removed
          /\ sem' = sem + sem_op[a[1]]
          /\ Return(a)
    /\ UNCHANGED <<removed, memory, sem_op, ending, signals, misfired>>

\* The access of a handler that interrupted my_exit after its shmdt.
Segfault(a) ==
    /\ At(a, "first") \/ At(a, "second")
    /\ a[1] \notin attached
    /\ Die({a[1]})
    /\ UNCHANGED <<sem, removed, memory, sem_op, locals, retries, exiting, attached,
                   sigint, signals, misfired>>

\* A process ends for a reason of its own: accept or fork fails, the server's
\* loop is over, the driver's reading has ended.
Quit(p) ==
    /\ At(<<p, "main">>, "idle")
    /\ MyExit(<<p, "main">>)
    /\ UNCHANGED <<pc, sigint, orphaned>>

\* SIGINT: sigint_handler terminates the driver and calls my_exit on top of
\* whatever it interrupts.
Interrupt(p) ==
    /\ p \in SigintProcs \ sigint
    /\ pc[<<p, "main">>] # "dead"
    /\ sigint' = sigint \cup {p}
    /\ MyExit(<<p, IF pc[<<p, "handler">>] = "idle" THEN "main" ELSE "handler">>)
    /\ Die(Kills[p])

\* my_exit of a process goes on unless a handler runs on top of it.
Exits(p) ==
    /\ pc[<<p, "main">>] # "dead"
    /\ \/ exiting[p] = "main" /\ pc[<<p, "handler">>] = "idle"
       \/ exiting[p] = "handler"

\* cleanup_shm_sem's first line.
Detach(p) ==
    /\ Exits(p)
    /\ p \in attached
    /\ attached' = attached \ {p}
    /\ UNCHANGED <<sem, removed, memory, sem_op, pc, locals, retries, exiting, sigint,
                   orphaned, signals, misfired>>

\* The rest of my_exit: the segment and the semaphore are removed for
\* everybody, the driver is signalled, and the process ends.
Leave(p) ==
    /\ Exits(p)
    /\ p \notin attached
    /\ removed' = TRUE
    /\ Die(Kills[p] \cup {p})
    /\ UNCHANGED <<sem, memory, sem_op, locals, retries, exiting, attached, sigint,
                   signals, misfired>>

\* A flow goes on with the operation it is in.
Continue(a) ==
    \/ SemopLock(a) \/ WakeUp(a) \/ WakeRemoved(a) \/ Retry(a)
    \/ First(a) \/ Second(a) \/ SemopUnlock(a) \/ Segfault(a)

Next ==
    \/ \E p \in Proc : Call(p) \/ Signal(p) \/ Interrupt(p) \/ Quit(p)
    \/ \E p \in Proc : Detach(p) \/ Leave(p)
    \/ \E a \in Activity : Continue(a)

Spec == Init /\ [][Next]_vars

\* A flow goes on with what it began, my_exit too; calls and signals need not
\* come.  The kernel serves blocked semops first come, first served, so one that could
\* take the semaphore again and again does.
Fairness ==
    /\ \A a \in Proc \X Flow : WF_vars(Continue(a)) /\ SF_vars(WakeUp(a))
    /\ \A p \in Proc : WF_vars(Detach(p) \/ Leave(p))

FairSpec == Spec /\ Fairness

-----------------------------------------------------------------------------
(* Properties.                                                             *)

\* The variables keep their types; the semaphore is never negative.
TypeOK ==
    /\ sem \in Nat
    /\ removed \in BOOLEAN
    /\ count \in Int
    /\ data \in Value \X Value
    /\ sem_op \in [Proc -> {-1, 1}]
    /\ pc \in [Activity -> PcValues]
    /\ op \in [Activity -> Op]
    /\ arg \in [Activity -> Value]
    /\ seen \in [Activity -> Int]
    /\ copy \in [Activity -> Value \X Value]
    /\ retries \in [Activity -> 0 .. MAX_RETRIES_SEMAPHORE]
    /\ exiting \in [Proc -> {"no"} \cup Flow]
    /\ attached \subseteq Proc
    /\ sigint \subseteq SigintProcs
    /\ signals \in 0 .. MaxSignals
    /\ net \in Int
    /\ misfired \in BOOLEAN
    /\ orphaned \in BOOLEAN

\* At most one flow is between its lock and its unlock.
MutualExclusion == \A a, b \in Activity : Holds(a) /\ Holds(b) => a = b

\* As long as no lock_semaphore ran with the +1 a handler left in sb.sem_op,
\* which takes a signal, the lock excludes and, until somebody removes it,
\* the semaphore is 1 exactly when nobody holds it and nobody died holding
\* it: a failed or interrupted semop that is tried again neither loses nor
\* doubles a unit.
Exclusion ==
    signals = 0 \/ ~misfired =>
        /\ MutualExclusion
        /\ ~removed =>
              /\ sem \in {0, 1}
              /\ sem = 1 <=> ~orphaned /\ \A a \in Activity : ~Holds(a)

\* Under the same condition a reader gets a string as one producer wrote it,
\* never the beginning of one and the end of another.
ReadsWhole ==
    ~misfired =>
        \A a \in Activity :
            pc[a] = "unlock" /\ op[a] = "read" => copy[a][1] = copy[a][2]

\* Under the same condition no update of client_count is lost, though it is
\* a load and a store and the handler decrements behind the main flow's back.
CountExact == ~misfired => count = net

\* Once some process has removed the semaphore, each flow that was using it or
\* tries to ends with its process, after MAX_RETRIES failures at most.
RemovedMeansExit ==
    \A a \in Activity :
        removed /\ pc[a] \notin {"idle", "dead"} ~> pc[a] = "dead"

\* A handler that waits for the lock its own process holds.
SelfBlocked ==
    \E p \in Proc : pc[<<p, "handler">>] = "wait" /\ Holds(<<p, "main">>)

\* Whoever calls lock_semaphore gets in or exits.  The two ways to wait for
\* ever are a handler above the lock of its own process, and a unit that died
\* with a process, terminated by SIGTERM or by its own detached segment.
LockProgress ==
    \A a \in Activity :
        pc[a] = "lock" ~>
            Holds(a) \/ pc[a] = "dead" \/ SelfBlocked \/ orphaned

\* my_signals.c:72-73: the handler cleans up, so it returns.
HandlerReturns ==
    \A p \in Proc :
        pc[<<p, "handler">>] = "lock" ~> pc[<<p, "handler">>] \in {"idle", "dead"}
=============================================================================
