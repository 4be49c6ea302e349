------------------------ MODULE SharedMemoryProofs -------------------------
(***************************************************************************)
(* SharedMemory proved for any set of processes, whatever operations their *)
(* main flows and their handlers perform.                                  *)
(*                                                                         *)
(* Exclusion follows from itself once sb.sem_op is known: an unlock always *)
(* adds 1, because a handler leaves +1 behind (OpInv).  What a lock adds   *)
(* is not known: that is what misfired records.  The strings and the count *)
(* need to say what a flow inside its access has seen (AccessInv).         *)
(***************************************************************************)
EXTENDS SharedMemory, TLAPS

\* What sb.sem_op holds where it matters, and how the two flows of a process
\* relate.
OpInv ==
    \A p \in Proc :
        LET h == pc[<<p, "handler">>]
            m == pc[<<p, "main">>]
        IN  /\ h = "unlock" => sem_op[p] = 1
            /\ h = "idle" /\ m = "unlock" => sem_op[p] = 1
            /\ h = "ufailed" => sem_op[p] = 1
            /\ h = "idle" /\ m = "ufailed" => sem_op[p] = 1
            /\ signals = 0 => h \in {"idle", "dead"}
            /\ signals = 0 /\ m \in {"lock", "wait", "failed"} => sem_op[p] = -1

NoSignalInv == signals = 0 => ~misfired

LockInv ==
    ~misfired =>
        /\ MutualExclusion
        /\ ~removed =>
              /\ sem \in {0, 1}
              /\ sem = 1 <=> ~orphaned /\ \A a \in Activity : ~Holds(a)
        /\ orphaned => \A a \in Activity : ~Holds(a)

Writing(a) == pc[a] = "second" /\ op[a] = "write"

AccessInv ==
    ~misfired =>
        /\ \A a \in Activity : Holds(a) /\ ~Writing(a) => data[1] = data[2]
        /\ \A a \in Activity : Writing(a) => data[1] = arg[a]
        /\ ~removed /\ ~orphaned /\ (\A a \in Activity : ~Holds(a))
              => data[1] = data[2]
        /\ \A a \in Activity :
              pc[a] = "second" /\ op[a] = "read" => copy[a][1] = data[1]
        /\ \A a \in Activity :
              pc[a] \in {"unlock", "ufailed"} /\ op[a] = "read"
                  => copy[a][1] = copy[a][2]
        /\ \A a \in Activity :
              pc[a] = "second" /\ op[a] \in {"increment", "decrement"}
                  => seen[a] = count

IInv ==
    /\ TypeOK
    /\ OpInv
    /\ NoSignalInv
    /\ LockInv
    /\ AccessInv
    /\ CountExact

-----------------------------------------------------------------------------
LEMMA ActivityType ==
    /\ \A a \in Activity : /\ a[1] \in Proc
                           /\ a[2] \in {"main", "handler"}
                           /\ a = <<a[1], a[2]>>
    /\ \A p \in Proc : <<p, "main">> \in Activity /\ <<p, "handler">> \in Activity
BY DEF Activity, Flow

LEMMA InitTypeOK == Init => TypeOK
<1> SUFFICES ASSUME Init PROVE TypeOK
  OBVIOUS
<1>1. NoString \in Value
  BY ValueAssumption DEF NoString
<1>2. sem \in Nat /\ count \in Int /\ net \in Int
  BY SMT DEF Init, InitialSem
<1>7. removed \in BOOLEAN /\ misfired \in BOOLEAN /\ orphaned \in BOOLEAN
  BY Zenon DEF Init
<1>8. /\ exiting \in [Proc -> {"no"} \cup Flow]
      /\ attached \subseteq Proc /\ sigint \subseteq SigintProcs
  BY DEF Init
<1>6. signals \in 0 .. MaxSignals
  BY BoundsAssumption DEF Init
<1>3. /\ data \in Value \X Value /\ arg \in [Activity -> Value]
      /\ copy \in [Activity -> Value \X Value] /\ seen \in [Activity -> Int]
  BY <1>1 DEF Init
<1>4. /\ sem_op \in [Proc -> {-1, 1}] /\ pc \in [Activity -> PcValues]
      /\ op \in [Activity -> Op]
  BY DEF Init, PcValues, Op
<1>5. retries \in [Activity -> 0 .. MAX_RETRIES_SEMAPHORE]
  BY DEF Init, MAX_RETRIES_SEMAPHORE
<1> QED
  BY <1>2, <1>3, <1>4, <1>5, <1>6, <1>7, <1>8 DEF TypeOK

LEMMA StartLockType ==
    ASSUME TypeOK, NEW a \in Activity, NEW o \in Op, StartLock(a, o)
    PROVE  /\ op' \in [Activity -> Op]
           /\ arg' \in [Activity -> Value]
           /\ sem_op' \in [Proc -> {-1, 1}]
BY ActivityType DEF StartLock, TypeOK

\* Nobody unlocks with the -1 of a lock.
LEMMA UnlockAdds ==
    ASSUME OpInv, NEW a \in Activity, At(a, "unlock")
    PROVE  sem_op[a[1]] = 1
<1>1. a[2] = "main" => a = <<a[1], "main">> /\ pc[<<a[1], "handler">>] = "idle"
  BY ActivityType DEF At, Runs
<1>2. a[2] = "handler" => a = <<a[1], "handler">>
  BY ActivityType
<1> QED
  BY <1>1, <1>2, ActivityType DEF OpInv, At

\* Calling my_exit and dying keep the types.
LEMMA MyExitType ==
    ASSUME TypeOK, NEW a \in Activity, MyExit(a)
    PROVE  exiting' \in [Proc -> {"no"} \cup Flow]
BY ActivityType DEF MyExit, TypeOK, Flow

LEMMA DieType ==
    ASSUME TypeOK, NEW procs \in SUBSET Proc, Die(procs)
    PROVE  pc' \in [Activity -> PcValues] /\ orphaned' \in BOOLEAN
<1>1. pc' \in [Activity -> PcValues]
  BY DEF Die, TypeOK, PcValues
<1>2. orphaned' \in BOOLEAN
  BY Zenon DEF Die, TypeOK
<1> QED
  BY <1>1, <1>2

LEMMA NextTypeOK == TypeOK /\ OpInv /\ [Next]_vars => TypeOK'
<1> SUFFICES ASSUME TypeOK, OpInv, [Next]_vars PROVE TypeOK'
  OBVIOUS
<1> USE DEF TypeOK
<1>1. ASSUME NEW p \in Proc, Call(p) PROVE TypeOK'
  <2> DEFINE a == <<p, "main">>
  <2>1. a \in Activity
    BY ActivityType
  <2>2. PICK o \in MainOps[p] : StartLock(a, o)
    BY <1>1 DEF Call
  <2>3. o \in Op
    BY OpsAssumption, <2>2
  <2>4. pc' \in [Activity -> PcValues]
    BY <1>1, <2>1 DEF Call, Goto, PcValues
  <2> QED
    BY <1>1, <2>1, <2>2, <2>3, <2>4, StartLockType DEF Call, memory, ending
<1>2. ASSUME NEW p \in Proc, Signal(p) PROVE TypeOK'
  <2> DEFINE a == <<p, "handler">>
  <2>1. a \in Activity /\ <<p, "main">> \in Activity
    BY ActivityType
  <2>2. PICK o \in HandlerOps[p] : StartLock(a, o)
    BY <1>2 DEF Signal
  <2>3. o \in Op
    BY OpsAssumption, <2>2
  <2>4. pc' \in [Activity -> PcValues]
    BY <1>2, <2>1 DEF Signal, PcValues
  <2>5. signals' \in 0 .. MaxSignals
    BY <1>2, BoundsAssumption DEF Signal
  <2> QED
    BY <1>2, <2>1, <2>2, <2>3, <2>4, <2>5, StartLockType DEF Signal, memory, ending
<1>3. ASSUME NEW p \in Proc, Quit(p) \/ Interrupt(p) PROVE TypeOK'
  <2>1. CASE Quit(p)
    <3>1. <<p, "main">> \in Activity
      BY ActivityType
    <3> QED
      BY <2>1, <3>1, MyExitType DEF Quit, MyExit, memory, locals
  <2>2. CASE Interrupt(p)
    <3> DEFINE a == <<p, IF pc[<<p, "handler">>] = "idle" THEN "main" ELSE "handler">>
    <3>1. a \in Activity
      BY ActivityType
    <3>2. MyExit(a) /\ Die(Kills[p]) /\ sigint' \subseteq SigintProcs
      BY <2>2 DEF Interrupt
    <3>3. Kills[p] \in SUBSET Proc
      BY OpsAssumption
    <3>4. exiting' \in [Proc -> {"no"} \cup Flow]
      BY <3>1, <3>2, MyExitType
    <3>5. pc' \in [Activity -> PcValues] /\ orphaned' \in BOOLEAN
      BY <3>2, <3>3, DieType
    <3> QED
      BY <3>2, <3>4, <3>5 DEF MyExit, memory, locals
  <2> QED
    BY <1>3, <2>1, <2>2
<1>6. ASSUME NEW p \in Proc, Detach(p) \/ Leave(p) PROVE TypeOK'
  <2>1. CASE Detach(p)
    BY <2>1 DEF Detach, memory, locals
  <2>2. CASE Leave(p)
    <3>1. Kills[p] \cup {p} \in SUBSET Proc
      BY OpsAssumption
    <3>2. pc' \in [Activity -> PcValues] /\ orphaned' \in BOOLEAN
      BY <2>2, <3>1, DieType DEF Leave
    <3> QED
      BY <2>2, <3>2 DEF Leave, memory, locals
  <2> QED
    BY <1>6, <2>1, <2>2
<1>4. ASSUME NEW a \in Activity, Continue(a) PROVE TypeOK'
  <2>1. CASE SemopLock(a)
    <3>1. sem' \in Nat
      BY <2>1, ActivityType DEF SemopLock, Blocks
    <3>2. pc' \in [Activity -> PcValues] /\ misfired' \in BOOLEAN
      BY <2>1 DEF SemopLock, Goto, PcValues
    <3>3. retries' \in [Activity -> 0 .. MAX_RETRIES_SEMAPHORE]
      BY <2>1 DEF SemopLock, MAX_RETRIES_SEMAPHORE
    <3> QED
      BY <2>1, <3>1, <3>2, <3>3 DEF SemopLock, memory, locals, ending
  <2>2. CASE WakeUp(a)
    BY <2>2 DEF WakeUp, Goto, PcValues, memory, locals, ending, MAX_RETRIES_SEMAPHORE
  <2>3. CASE WakeRemoved(a)
    BY <2>3 DEF WakeRemoved, Goto, PcValues, memory, locals, ending
  <2>4. CASE Retry(a)
    <3>1. CASE MyExit(a) /\ UNCHANGED <<pc, sigint, orphaned>>
      BY <3>1, MyExitType DEF MyExit, memory, locals
    <3>2. CASE ~(MyExit(a) /\ UNCHANGED <<pc, sigint, orphaned>>)
      <4>1. /\ retries[a] < MAX_RETRIES_SEMAPHORE
            /\ retries' = [retries EXCEPT ![a] = @ + 1]
        BY <2>4, <3>2 DEF Retry, Counted, MAX_RETRIES_SEMAPHORE
      <4>2. retries' \in [Activity -> 0 .. MAX_RETRIES_SEMAPHORE]
        BY <4>1 DEF MAX_RETRIES_SEMAPHORE
      <4>3. pc' \in [Activity -> PcValues]
        BY <2>4, <3>2 DEF Retry, Goto, RetryTarget, PcValues
      <4> QED
        BY <2>4, <3>2, <4>2, <4>3 DEF Retry, memory, locals, ending
    <3> QED
      BY <3>1, <3>2
  <2>5. CASE First(a)
    <3>1. data' \in Value \X Value /\ copy' \in [Activity -> Value \X Value]
      BY <2>5 DEF First
    <3>2. seen' \in [Activity -> Int] /\ pc' \in [Activity -> PcValues]
      BY <2>5 DEF First, Goto, PcValues
    <3> QED
      BY <2>5, <3>1, <3>2 DEF First, ending
  <2>6. CASE Second(a)
    <3>1. data' \in Value \X Value /\ copy' \in [Activity -> Value \X Value]
      BY <2>6 DEF Second
    <3>2. Delta(op[a]) \in Int
      BY DEF Delta
    <3>3. count' \in Int /\ net' \in Int
      BY <2>6, <3>2 DEF Second
    <3>4. sem_op' \in [Proc -> {-1, 1}] /\ pc' \in [Activity -> PcValues]
      BY <2>6 DEF Second, UnlockOp, Goto, PcValues
    <3> QED
      BY <2>6, <3>1, <3>3, <3>4 DEF Second, ending
  <2>7. CASE SemopUnlock(a)
    <3>1. sem' \in Nat
      BY <2>7, UnlockAdds DEF SemopUnlock
    <3>2. NoString \in Value
      BY ValueAssumption DEF NoString
    <3>3. /\ pc' \in [Activity -> PcValues] /\ op' \in [Activity -> Op]
          /\ arg' \in [Activity -> Value] /\ seen' \in [Activity -> Int]
          /\ copy' \in [Activity -> Value \X Value]
      <4>1. CASE removed
        BY <2>7, <4>1 DEF SemopUnlock, Goto, PcValues, locals
      <4>2. CASE ~removed
        <5>1. Return(a)
          BY <2>7, <4>2 DEF SemopUnlock
        <5>2. pc' \in [Activity -> PcValues] /\ op' \in [Activity -> Op]
          BY <5>1 DEF Return, Goto, PcValues, Op
        <5>3. arg' \in [Activity -> Value] /\ seen' \in [Activity -> Int]
          BY <5>1, <3>2 DEF Return
        <5>4. copy' \in [Activity -> Value \X Value]
          BY <5>1, <3>2 DEF Return
        <5> QED
          BY <5>2, <5>3, <5>4
      <4> QED
        BY <4>1, <4>2
    <3>4. retries' \in [Activity -> 0 .. MAX_RETRIES_SEMAPHORE]
      BY <2>7 DEF SemopUnlock, Return, MAX_RETRIES_SEMAPHORE
    <3> QED
      BY <2>7, <3>1, <3>3, <3>4 DEF SemopUnlock, memory, ending
  <2>8. CASE Segfault(a)
    <3>1. {a[1]} \in SUBSET Proc
      BY ActivityType
    <3>2. pc' \in [Activity -> PcValues] /\ orphaned' \in BOOLEAN
      BY <2>8, <3>1, DieType DEF Segfault
    <3> QED
      BY <2>8, <3>2 DEF Segfault, memory, locals
  <2> QED
    BY <1>4, <2>1, <2>2, <2>3, <2>4, <2>5, <2>6, <2>7, <2>8 DEF Continue
<1>5. CASE UNCHANGED vars
  BY <1>5 DEF vars, memory, locals, ending
<1> QED
  BY <1>1, <1>2, <1>3, <1>4, <1>5, <1>6 DEF Next

-----------------------------------------------------------------------------
LEMMA InitIInv == Init => IInv
<1> SUFFICES ASSUME Init PROVE IInv
  OBVIOUS
<1>1. TypeOK
  BY InitTypeOK
<1>2. OpInv /\ NoSignalInv
  BY ActivityType DEF Init, OpInv, NoSignalInv
<1>3. \A a \in Activity : ~Holds(a) /\ pc[a] = "idle"
  BY DEF Init, Holds, Holding
<1>4. LockInv
  BY <1>3 DEF Init, InitialSem, LockInv, MutualExclusion
<1>5. AccessInv /\ CountExact
  BY <1>3 DEF Init, AccessInv, CountExact, Writing
<1> QED
  BY <1>1, <1>2, <1>4, <1>5 DEF IInv

\* A step that leaves the segment, the semaphore and the flows inside the lock
\* alone, but for a retry of their unlock.
Quiet ==
    /\ UNCHANGED <<sem, removed, count, data, net, misfired, seen, copy, orphaned>>
    /\ \A a \in Activity :
          /\ Holds(a) <=> Holds(a)'
          /\ Holds(a) => /\ op'[a] = op[a] /\ arg'[a] = arg[a]
                         /\ \/ pc'[a] = pc[a]
                            \/ {pc[a], pc'[a]} \subseteq {"unlock", "ufailed"}

LEMMA QuietStep ==
    ASSUME IInv, Quiet
    PROVE  LockInv' /\ AccessInv' /\ CountExact'
<1>1. LockInv' /\ CountExact'
  BY DEF IInv, Quiet, LockInv, MutualExclusion, CountExact
<1>2. \A a \in Activity : Writing(a)' <=> Writing(a)
  BY DEF Quiet, Writing, Holds, Holding
<1>3. \A a \in Activity :
        /\ pc'[a] = "second" => pc[a] = "second" /\ op'[a] = op[a]
        /\ pc'[a] \in {"unlock", "ufailed"} =>
              pc[a] \in {"unlock", "ufailed"} /\ op'[a] = op[a]
  BY DEF Quiet, Holds, Holding
<1>4. AccessInv'
  <2>1. \A a \in Activity : Writing(a) => arg'[a] = arg[a]
    BY DEF Quiet, Writing, Holds, Holding
  <2> QED
    BY <1>2, <1>3, <2>1 DEF IInv, Quiet, AccessInv
<1> QED
  BY <1>1, <1>4

LEMMA CallIInv ==
    ASSUME IInv, NEW p \in Proc, Call(p) PROVE IInv'
<1> DEFINE a == <<p, "main">>
<1>1. a \in Activity /\ <<p, "handler">> \in Activity /\ a # <<p, "handler">>
  BY ActivityType
<1>2. TypeOK'
  BY NextTypeOK DEF IInv, Next
<1>3. PICK o \in MainOps[p] : StartLock(a, o)
  BY DEF Call
<1>4. /\ pc[a] = "idle" /\ pc' = [pc EXCEPT ![a] = "lock"]
      /\ pc[<<p, "handler">>] = "idle"
  BY <1>1 DEF Call, At, Runs, Goto
<1>5. Quiet
  BY <1>1, <1>3, <1>4
  DEF Call, StartLock, IInv, TypeOK, Quiet, Holds, Holding, memory, ending
<1>6. OpInv' /\ NoSignalInv'
  BY <1>1, <1>3, <1>4
  DEF Call, StartLock, IInv, TypeOK, OpInv, NoSignalInv, Activity, Flow
<1> QED
  BY <1>2, <1>5, <1>6, QuietStep DEF IInv

LEMMA SignalIInv ==
    ASSUME IInv, NEW p \in Proc, Signal(p) PROVE IInv'
<1> DEFINE a == <<p, "handler">>
           m == <<p, "main">>
<1>1. a \in Activity /\ m \in Activity /\ a # m
  BY ActivityType
<1>2. TypeOK'
  BY NextTypeOK DEF IInv, Next
<1>3. PICK o \in HandlerOps[p] : StartLock(a, o)
  BY DEF Signal
<1>4. /\ pc[a] = "idle"
      /\ pc' = [pc EXCEPT ![a] = "lock", ![m] = IF @ = "wait" THEN "failed" ELSE @]
  BY DEF Signal
<1>5. Quiet
  BY <1>1, <1>3, <1>4
  DEF Signal, StartLock, IInv, TypeOK, Quiet, Holds, Holding, memory, ending
<1>6. signals' # 0
  BY DEF Signal, IInv, TypeOK
<1>7. OpInv' /\ NoSignalInv'
  BY <1>1, <1>3, <1>4, <1>6
  DEF Signal, StartLock, IInv, TypeOK, OpInv, NoSignalInv, Activity, Flow
<1> QED
  BY <1>2, <1>5, <1>7, QuietStep DEF IInv

\* A process that dies inside the lock takes its unit with it.
LEMMA DieIInv ==
    ASSUME IInv, TypeOK', NEW procs \in SUBSET Proc, Die(procs),
           UNCHANGED <<sem, memory, sem_op, locals, signals, misfired>>,
           removed => removed'
    PROVE  IInv'
<1>1. \A a \in Activity : pc'[a] = IF a[1] \in procs THEN "dead" ELSE pc[a]
  BY DEF Die
<1>2. \A a \in Activity : Holds(a)' <=> Holds(a) /\ a[1] \notin procs
  BY <1>1 DEF Holds, Holding
<1>3. OpInv' /\ NoSignalInv'
  <2>1. \A q \in Proc :
          \/ /\ pc'[<<q, "main">>] = pc[<<q, "main">>]
             /\ pc'[<<q, "handler">>] = pc[<<q, "handler">>]
          \/ pc'[<<q, "main">>] = "dead" /\ pc'[<<q, "handler">>] = "dead"
    BY <1>1, ActivityType
  <2> QED
    BY <2>1 DEF IInv, OpInv, NoSignalInv
<1>4. orphaned' <=> orphaned \/ \E a \in Activity : a[1] \in procs /\ Holds(a)
  BY DEF Die
<1>5. ASSUME ~misfired, ~orphaned', \A a \in Activity : ~Holds(a)'
      PROVE  ~orphaned /\ \A a \in Activity : ~Holds(a)
  BY <1>2, <1>4, <1>5
<1>6. LockInv'
  <2> SUFFICES ASSUME ~misfired PROVE LockInv'
    BY DEF LockInv
  <2>1. MutualExclusion /\ MutualExclusion'
    BY <1>2 DEF IInv, LockInv, MutualExclusion
  <2>2. orphaned' => \A a \in Activity : ~Holds(a)'
    BY <1>2, <1>4, <2>1 DEF IInv, LockInv, MutualExclusion
  <2>3. ~removed' => /\ sem \in {0, 1}
                     /\ sem = 1 <=> ~orphaned' /\ \A a \in Activity : ~Holds(a)'
    BY <1>2, <1>4, <1>5 DEF IInv, LockInv
  <2> QED
    BY <2>1, <2>2, <2>3 DEF LockInv
<1>7. AccessInv'
  <2> SUFFICES ASSUME ~misfired PROVE AccessInv'
    BY DEF AccessInv
  <2>1. \A a \in Activity :
          /\ pc'[a] \in {"second", "unlock", "ufailed"} => pc'[a] = pc[a]
          /\ Writing(a)' <=> Writing(a) /\ a[1] \notin procs
    BY <1>1 DEF Writing, locals
  <2>2. ~removed' /\ ~orphaned' /\ (\A a \in Activity : ~Holds(a)')
          => data[1] = data[2]
    BY <1>5 DEF IInv, AccessInv
  <2>3. \A a \in Activity : Holds(a)' /\ ~Writing(a)' => data[1] = data[2]
    BY <1>2, <2>1 DEF IInv, AccessInv
  <2> QED
    BY <2>1, <2>2, <2>3 DEF IInv, AccessInv, memory, locals
<1>8. CountExact'
  BY DEF IInv, CountExact, memory
<1> QED
  BY <1>3, <1>6, <1>7, <1>8 DEF IInv

\* A step of my_exit that leaves the flows where they are.
LEMMA StillIInv ==
    ASSUME IInv, TypeOK',
           UNCHANGED <<sem, removed, memory, sem_op, pc, locals, signals, misfired,
                       orphaned>>
    PROVE  IInv'
<1>1. Quiet
  BY DEF memory, locals, Quiet, Holds
<1> QED
  BY <1>1, QuietStep DEF IInv, OpInv, NoSignalInv

LEMMA EndingIInv ==
    ASSUME IInv, TypeOK', NEW p \in Proc,
           Quit(p) \/ Interrupt(p) \/ Detach(p) \/ Leave(p)
    PROVE  IInv'
<1>1. CASE Quit(p)
  BY <1>1, StillIInv DEF Quit, MyExit
<1>2. CASE Interrupt(p)
  BY <1>2, DieIInv, OpsAssumption DEF Interrupt, MyExit
<1>3. CASE Detach(p)
  BY <1>3, StillIInv DEF Detach
<1>4. CASE Leave(p)
  <2>1. Kills[p] \cup {p} \in SUBSET Proc
    BY OpsAssumption
  <2> QED
    BY <1>4, <2>1, DieIInv DEF Leave
<1> QED
  BY <1>1, <1>2, <1>3, <1>4

\* What OpInv needs of a step of flow a: sb.sem_op does not change, or a unlocks
\* next with +1.
LEMMA OpInvStep ==
    ASSUME IInv, NEW a \in Activity, NEW where \in PcValues,
           pc' = [pc EXCEPT ![a] = where], Runs(a), UNCHANGED <<sem_op, signals>>,
           pc[a] \notin {"idle", "dead"},
           where = "unlock" => pc[a] = "ufailed",
           where \in {"ufailed", "idle"} => pc[a] = "unlock",
           where \in {"lock", "wait", "failed"} => pc[a] \in {"lock", "wait", "failed"}
    PROVE  OpInv'
<1> SUFFICES ASSUME NEW p \in Proc
             PROVE LET h == pc'[<<p, "handler">>]
                       m == pc'[<<p, "main">>]
                   IN  /\ h = "unlock" => sem_op[p] = 1
                       /\ h = "idle" /\ m = "unlock" => sem_op[p] = 1
                       /\ h = "ufailed" => sem_op[p] = 1
                       /\ h = "idle" /\ m = "ufailed" => sem_op[p] = 1
                       /\ signals = 0 => h \in {"idle", "dead"}
                       /\ signals = 0 /\ m \in {"lock", "wait", "failed"}
                             => sem_op[p] = -1
  BY DEF OpInv
<1>1. pc \in [Activity -> PcValues]
  BY DEF IInv, TypeOK
<1>2. CASE a = <<p, "main">>
  BY <1>1, <1>2, ActivityType DEF IInv, OpInv, Runs
<1>3. CASE a = <<p, "handler">>
  BY <1>1, <1>3, ActivityType DEF IInv, OpInv, Runs
<1>4. CASE a # <<p, "main">> /\ a # <<p, "handler">>
  BY <1>1, <1>4, ActivityType DEF IInv, OpInv
<1> QED
  BY <1>2, <1>3, <1>4

\* The flow gets into the lock: sem goes down by one, unless misfired goes up.
LEMMA AcquireIInv ==
    ASSUME IInv, TypeOK', NEW a \in Activity,
           At(a, "lock") \/ At(a, "wait"), Goto(a, "first"),
           UNCHANGED <<removed, memory, sem_op, locals, ending, signals>>,
           ~removed,
           misfired => misfired',
           signals = 0 => misfired' = misfired,
           ~misfired' => sem > 0 /\ sem' = sem - 1
    PROVE  IInv'
<1>1. pc' = [pc EXCEPT ![a] = "first"] /\ ~Holds(a) /\ pc \in [Activity -> PcValues]
  BY DEF Goto, At, Holds, Holding, IInv, TypeOK
<1>2. OpInv'
  BY <1>1, OpInvStep DEF At, PcValues
<1>3. NoSignalInv'
  BY DEF IInv, NoSignalInv
<1>4. \A b \in Activity : pc'[b] = IF b = a THEN "first" ELSE pc[b]
  BY <1>1
<1>5. \A b \in Activity : Holds(b)' <=> (b = a \/ Holds(b))
  BY <1>4 DEF Holds, Holding
<1>6. \A b \in Activity : Writing(b)' <=> Writing(b)
  BY <1>4 DEF Writing, locals, At
<1>7. ASSUME ~misfired'
      PROVE  /\ \A b \in Activity : ~Holds(b)
             /\ sem = 1 /\ sem' = 0 /\ ~orphaned
  BY <1>7 DEF IInv, LockInv
<1>8. LockInv'
  BY <1>1, <1>5, <1>7 DEF LockInv, MutualExclusion, ending
<1>9. AccessInv'
  <2> SUFFICES ASSUME ~misfired' PROVE AccessInv'
    BY DEF AccessInv
  <2>1. data[1] = data[2]
    BY <1>7 DEF IInv, AccessInv
  <2>2. \A b \in Activity : pc'[b] \notin {"second", "unlock", "ufailed"}
    BY <1>4, <1>7 DEF Holds, Holding
  <2> QED
    BY <2>1, <2>2, <1>6 DEF AccessInv, memory, Writing
<1>10. CountExact'
  BY DEF IInv, CountExact, memory
<1> QED
  BY <1>2, <1>3, <1>8, <1>9, <1>10 DEF IInv

\* A step of a flow outside the lock, or a retry of its unlock.
LEMMA WaitIInv ==
    ASSUME IInv, TypeOK', NEW a \in Activity, NEW where \in PcValues,
           Goto(a, where), Runs(a),
           \/ {pc[a], where} \subseteq {"lock", "wait", "failed"}
           \/ <<pc[a], where>> \in {<<"unlock", "ufailed">>, <<"ufailed", "unlock">>},
           UNCHANGED <<sem, removed, memory, sem_op, locals, ending, signals, misfired>>
    PROVE  IInv'
<1>1. pc' = [pc EXCEPT ![a] = where] /\ pc \in [Activity -> PcValues]
  BY DEF Goto, IInv, TypeOK
<1>2. OpInv'
  BY <1>1, OpInvStep
<1>3. Quiet
  BY <1>1 DEF Quiet, memory, locals, ending, Holds, Holding
<1>4. NoSignalInv'
  BY DEF IInv, NoSignalInv
<1> QED
  BY <1>2, <1>3, <1>4, QuietStep DEF IInv

\* A flow inside the lock is alone there.
LEMMA Alone ==
    ASSUME IInv, ~misfired, NEW a \in Activity, Holds(a),
           NEW b \in Activity, Holds(b)
    PROVE  b = a
BY DEF IInv, LockInv, MutualExclusion

LEMMA FirstIInv ==
    ASSUME IInv, TypeOK', NEW a \in Activity, First(a) PROVE IInv'
<1>1. /\ pc[a] = "first" /\ Runs(a) /\ Holds(a)
      /\ pc' = [pc EXCEPT ![a] = "second"] /\ pc \in [Activity -> PcValues]
  BY DEF First, At, Goto, Holds, Holding, IInv, TypeOK
<1>2. OpInv' /\ NoSignalInv'
  BY <1>1, OpInvStep DEF First, PcValues, IInv, NoSignalInv
<1>3. \A b \in Activity : pc'[b] = IF b = a THEN "second" ELSE pc[b]
  BY <1>1
<1>4. \A b \in Activity : Holds(b)' <=> Holds(b)
  BY <1>1, <1>3 DEF Holds, Holding
<1>5. LockInv' /\ CountExact'
  BY <1>4 DEF First, ending, IInv, LockInv, MutualExclusion, CountExact
<1>6. AccessInv'
  <2> SUFFICES ASSUME ~misfired' PROVE AccessInv'
    BY DEF AccessInv
  <2>1. ~misfired
    BY DEF First
  <2>2. \A b \in Activity : Holds(b)' => b = a
    BY <1>1, <1>4, <2>1, Alone
  <2>3. data[1] = data[2]
    BY <1>1, <2>1 DEF IInv, AccessInv, Writing
  <2>4. Writing(a)' <=> op[a] = "write"
    BY <1>3 DEF First, Writing
  <2>5. \A b \in Activity : Holds(b)' /\ ~Writing(b)' => data'[1] = data'[2]
    BY <2>2, <2>3, <2>4 DEF First
  <2>6. \A b \in Activity : pc'[b] \in {"second", "unlock", "ufailed"} => b = a
    BY <2>2 DEF Holds, Holding
  <2>7. pc'[a] = "second"
    BY <1>3
  <2>8. Writing(a)' => data'[1] = arg'[a]
    BY <2>4 DEF First
  <2>9. op'[a] = "read" => copy'[a][1] = data'[1]
    BY DEF First, IInv, TypeOK
  <2>10. op'[a] \in {"increment", "decrement"} => seen'[a] = count'
    BY DEF First, IInv, TypeOK
  <2>11. Holds(a)'
    BY <1>1, <1>4
  <2> QED
    BY <2>5, <2>6, <2>7, <2>8, <2>9, <2>10, <2>11 DEF AccessInv, Writing
<1> QED
  BY <1>2, <1>5, <1>6 DEF IInv

LEMMA SecondIInv ==
    ASSUME IInv, TypeOK', NEW a \in Activity, Second(a) PROVE IInv'
<1>1. /\ pc[a] = "second" /\ Runs(a) /\ Holds(a)
      /\ pc' = [pc EXCEPT ![a] = "unlock"] /\ pc \in [Activity -> PcValues]
  BY DEF Second, At, Goto, Holds, Holding, IInv, TypeOK
<1>2. \A b \in Activity : pc'[b] = IF b = a THEN "unlock" ELSE pc[b]
  BY <1>1
<1>3. sem_op' = [sem_op EXCEPT ![a[1]] = 1] /\ a[1] \in Proc
      /\ sem_op \in [Proc -> {-1, 1}]
  BY ActivityType DEF Second, UnlockOp, IInv, TypeOK
<1>4. OpInv'
  <2> SUFFICES ASSUME NEW p \in Proc
               PROVE LET h == pc'[<<p, "handler">>]
                         m == pc'[<<p, "main">>]
                     IN  /\ h = "unlock" => sem_op'[p] = 1
                         /\ h = "idle" /\ m = "unlock" => sem_op'[p] = 1
                         /\ h = "ufailed" => sem_op'[p] = 1
                         /\ h = "idle" /\ m = "ufailed" => sem_op'[p] = 1
                         /\ signals = 0 => h \in {"idle", "dead"}
                         /\ signals = 0 /\ m \in {"lock", "wait", "failed"}
                               => sem_op'[p] = -1
    BY DEF OpInv, Second
  <2>1. CASE a = <<p, "main">>
    BY <1>1, <1>3, <2>1, ActivityType DEF IInv, OpInv, Runs
  <2>2. CASE a = <<p, "handler">>
    BY <1>1, <1>3, <2>2, ActivityType DEF IInv, OpInv, Runs
  <2>3. CASE a # <<p, "main">> /\ a # <<p, "handler">>
    <3>1. a[1] # p
      BY <2>3, ActivityType
    <3> QED
      BY <1>1, <1>3, <2>3, <3>1, ActivityType DEF IInv, OpInv
  <2> QED
    BY <2>1, <2>2, <2>3
<1>5. \A b \in Activity : Holds(b)' <=> Holds(b)
  BY <1>1, <1>2 DEF Holds, Holding
<1>6. LockInv' /\ NoSignalInv'
  BY <1>5 DEF Second, ending, IInv, LockInv, MutualExclusion, NoSignalInv
<1>7. CountExact'
  <2> SUFFICES ASSUME ~misfired PROVE count' = net'
    BY DEF CountExact, Second
  <2>1. count = net /\ count \in Int /\ seen[a] \in Int
    BY DEF IInv, CountExact, TypeOK
  <2>2. CASE op[a] \in {"increment", "decrement"}
    <3>1. seen[a] = count
      BY <1>1, <2>2 DEF IInv, AccessInv
    <3> QED
      BY <2>1, <2>2, <3>1 DEF Second
  <2>3. CASE op[a] \notin {"increment", "decrement"}
    <3>1. Delta(op[a]) = 0
      BY <2>3 DEF Delta
    <3> QED
      BY <2>1, <2>3, <3>1 DEF Second
  <2> QED
    BY <2>2, <2>3
<1>8. AccessInv'
  <2> SUFFICES ASSUME ~misfired' PROVE AccessInv'
    BY DEF AccessInv
  <2>1. ~misfired
    BY DEF Second
  <2>2. \A b \in Activity : Holds(b)' => b = a
    BY <1>1, <1>5, <2>1, Alone
  <2>3. data'[1] = data'[2]
    <3>1. CASE op[a] = "write"
      BY <1>1, <2>1, <3>1 DEF Second, IInv, AccessInv, Writing
    <3>2. CASE op[a] # "write"
      BY <1>1, <2>1, <3>2 DEF Second, IInv, AccessInv, Writing
    <3> QED
      BY <3>1, <3>2
  <2>4. pc'[a] = "unlock" /\ Holds(a)'
    BY <1>1, <1>2, <1>5
  <2>5. op'[a] = "read" => copy'[a][1] = copy'[a][2]
    <3> SUFFICES ASSUME op[a] = "read" PROVE copy'[a][1] = copy'[a][2]
      BY DEF Second
    <3>1. copy[a][1] = data[1] /\ data[1] = data[2]
      BY <1>1, <2>1 DEF IInv, AccessInv, Writing
    <3>2. copy'[a] = <<copy[a][1], data[2]>>
      BY DEF Second, IInv, TypeOK
    <3> QED
      BY <3>1, <3>2
  <2>6. \A b \in Activity : pc'[b] # "second"
    BY <2>2, <2>4 DEF Holds, Holding
  <2>7. \A b \in Activity : pc'[b] \in {"unlock", "ufailed"} => b = a
    BY <2>2 DEF Holds, Holding
  <2> QED
    BY <2>3, <2>5, <2>6, <2>7 DEF AccessInv, Writing
<1> QED
  BY <1>4, <1>6, <1>7, <1>8 DEF IInv

\* The flow gives the unit back and leaves nobody inside.
LEMMA ReleaseIInv ==
    ASSUME IInv, TypeOK', NEW a \in Activity, SemopUnlock(a), ~removed
    PROVE  IInv'
<1>1. /\ pc[a] = "unlock" /\ Runs(a) /\ Holds(a)
      /\ pc' = [pc EXCEPT ![a] = "idle"] /\ pc \in [Activity -> PcValues]
  BY DEF SemopUnlock, Return, At, Goto, Holds, Holding, IInv, TypeOK
<1>2. sem' = sem + 1
  BY UnlockAdds DEF SemopUnlock, IInv
<1>3. OpInv' /\ NoSignalInv'
  BY <1>1, OpInvStep DEF SemopUnlock, PcValues, IInv, NoSignalInv
<1>4. \A b \in Activity : pc'[b] = IF b = a THEN "idle" ELSE pc[b]
  BY <1>1
<1>5. ASSUME ~misfired PROVE \A b \in Activity : ~Holds(b)'
  BY <1>1, <1>4, <1>5, Alone DEF Holds, Holding
<1>6. LockInv'
  <2> SUFFICES ASSUME ~misfired PROVE LockInv'
    BY DEF LockInv, SemopUnlock
  <2>1. sem = 0 /\ ~orphaned
    BY <1>1 DEF IInv, LockInv
  <2> QED
    BY <1>2, <1>5, <2>1 DEF LockInv, MutualExclusion, SemopUnlock, ending
<1>7. AccessInv'
  <2> SUFFICES ASSUME ~misfired PROVE AccessInv'
    BY DEF AccessInv, SemopUnlock
  <2>1. data'[1] = data'[2]
    BY <1>1 DEF IInv, AccessInv, Writing, SemopUnlock, memory
  <2>2. \A b \in Activity : pc'[b] \notin {"second", "unlock", "ufailed"}
    BY <1>5 DEF Holds, Holding
  <2> QED
    BY <2>1, <2>2 DEF AccessInv, Writing
<1>8. CountExact'
  BY DEF IInv, CountExact, SemopUnlock, memory
<1> QED
  BY <1>3, <1>6, <1>7, <1>8 DEF IInv

LEMMA ContinueIInv ==
    ASSUME IInv, TypeOK', NEW a \in Activity, Continue(a) PROVE IInv'
<1>1. CASE SemopLock(a)
  <2>1. CASE removed
    BY <1>1, <2>1, WaitIInv DEF SemopLock, At, PcValues
  <2>2. CASE ~removed /\ Blocks(a)
    BY <1>1, <2>2, WaitIInv DEF SemopLock, At, PcValues
  <2>3. CASE ~removed /\ ~Blocks(a)
    <3>1. /\ sem' = sem + sem_op[a[1]]
          /\ misfired' = (misfired \/ sem_op[a[1]] = 1)
          /\ Goto(a, "first") /\ At(a, "lock")
          /\ UNCHANGED <<removed, memory, sem_op, locals, ending, signals>>
      BY <1>1, <2>3 DEF SemopLock
    <3>2. sem \in Nat /\ sem_op[a[1]] \in {-1, 1} /\ a[1] \in Proc
      BY ActivityType DEF IInv, TypeOK
    <3>3. sem + sem_op[a[1]] >= 0
      BY <2>3, <3>2 DEF Blocks
    <3>4. signals = 0 => sem_op[a[1]] = -1
      <4>1. signals = 0 => a = <<a[1], "main">>
        BY <3>1, <3>2, ActivityType DEF At, IInv, OpInv
      <4> QED
        BY <3>1, <3>2, <4>1 DEF At, IInv, OpInv
    <3>5. ~misfired' => sem > 0 /\ sem' = sem - 1
      <4>1. ~misfired' => sem_op[a[1]] # 1
        BY <3>1, Zenon
      <4> QED
        BY <3>1, <3>2, <3>3, <4>1
    <3>6. signals = 0 => misfired' = misfired
      BY <3>1, <3>4 DEF IInv, TypeOK
    <3>7. misfired => misfired'
      BY <3>1
    <3> QED
      BY <2>3, <3>1, <3>5, <3>6, <3>7, AcquireIInv
  <2> QED
    BY <2>1, <2>2, <2>3
<1>2. CASE WakeUp(a)
  BY <1>2, AcquireIInv DEF WakeUp
<1>3. CASE WakeRemoved(a)
  BY <1>3, WaitIInv DEF WakeRemoved, At, PcValues
<1>4. CASE Retry(a)
  <2>1. CASE MyExit(a) /\ UNCHANGED <<pc, sigint, orphaned>>
    BY <2>1, StillIInv DEF MyExit
  <2>2. CASE ~(MyExit(a) /\ UNCHANGED <<pc, sigint, orphaned>>)
    BY <1>4, <2>2, WaitIInv DEF Retry, RetryTarget, At, PcValues
  <2> QED
    BY <2>1, <2>2
<1>5. CASE First(a)
  BY <1>5, FirstIInv
<1>6. CASE Second(a)
  BY <1>6, SecondIInv
<1>7. CASE SemopUnlock(a)
  <2>1. CASE removed
    BY <1>7, <2>1, WaitIInv DEF SemopUnlock, At, PcValues
  <2>2. CASE ~removed
    BY <1>7, <2>2, ReleaseIInv
  <2> QED
    BY <2>1, <2>2
<1>8. CASE Segfault(a)
  <2>1. {a[1]} \in SUBSET Proc
    BY ActivityType
  <2> QED
    BY <1>8, <2>1, DieIInv DEF Segfault
<1> QED
  BY <1>1, <1>2, <1>3, <1>4, <1>5, <1>6, <1>7, <1>8 DEF Continue

LEMMA NextIInv == IInv /\ [Next]_vars => IInv'
<1> SUFFICES ASSUME IInv, [Next]_vars PROVE IInv'
  OBVIOUS
<1>1. TypeOK'
  BY NextTypeOK DEF IInv
<1>2. ASSUME NEW p \in Proc, Call(p) \/ Signal(p) PROVE IInv'
  BY <1>2, CallIInv, SignalIInv
<1>5. ASSUME NEW p \in Proc, Quit(p) \/ Interrupt(p) \/ Detach(p) \/ Leave(p)
      PROVE  IInv'
  BY <1>1, <1>5, EndingIInv
<1>3. ASSUME NEW a \in Activity, Continue(a) PROVE IInv'
  BY <1>1, <1>3, ContinueIInv
<1>4. CASE UNCHANGED vars
  BY <1>1, <1>4, StillIInv DEF vars, ending
<1> QED
  BY <1>2, <1>3, <1>4, <1>5 DEF Next

\* The inductive invariant holds in every reachable state.
THEOREM Invariance == Spec => []IInv
<1>1. Init => IInv
  BY InitIInv
<1>2. IInv /\ [Next]_vars => IInv'
  BY NextIInv
<1> QED
  BY <1>1, <1>2, PTL DEF Spec

-----------------------------------------------------------------------------
\* Every variable keeps its type; the semaphore never goes below zero.
THEOREM TypeCorrect == Spec => []TypeOK
<1>1. IInv => TypeOK
  BY DEF IInv
<1> QED
  BY <1>1, Invariance, PTL

\* Without a signal, or with signals that never make a lock_semaphore add to
\* the semaphore, the lock excludes and no unit is lost or doubled, whatever
\* the processes, their operations and their retries are.
THEOREM LockExcludes == Spec => []Exclusion
<1>1. IInv => Exclusion
  BY DEF IInv, NoSignalInv, LockInv, Exclusion
<1> QED
  BY <1>1, Invariance, PTL

\* No reader gets half of one string and half of another.
THEOREM StringsWhole == Spec => []ReadsWhole
<1>1. IInv => ReadsWhole
  BY DEF IInv, AccessInv, ReadsWhole
<1> QED
  BY <1>1, Invariance, PTL

\* client_count is what was incremented less what was decremented.
THEOREM CountNeverLoses == Spec => []CountExact
<1>1. IInv => CountExact
  BY DEF IInv
<1> QED
  BY <1>1, Invariance, PTL
=============================================================================
