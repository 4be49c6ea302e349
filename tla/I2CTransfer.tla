---------------------------- MODULE I2CTransfer ----------------------------
(***************************************************************************)
(* td3_i2c_fcc.c of 02_cuat/04_driver: the transfers over the I2C bus.     *)
(*                                                                         *)
(* FCCopen, FCCread and MPUInit are sequences of FCCi2cWrite and           *)
(* FCCi2cRead; a process here does any sequence of them between its open   *)
(* and its close.  A transfer polls the bus, hands a buffer to the         *)
(* interrupt handler in the one I2CData, starts the bus and sleeps on      *)
(* I2CWakeUpCondition.  A write cannot be interrupted, a read can.  Nothing *)
(* keeps two processes apart.                                              *)
(*                                                                         *)
(* The controller is external: with CNT = n it moves n bytes after START,  *)
(* one interrupt each if that is enabled, and is busy from START until the *)
(* STOP it makes, when asked to, after the last byte.  Clearing I2C_EN     *)
(* drops whatever it was doing.  Bytes are told apart by the place the     *)
(* handler puts them in.                                                   *)
(***************************************************************************)
EXTENDS Integers

CONSTANTS
    Proc,           \* processes that use the device
    MaxLen,         \* bound: the longest transfer
    Retries,        \* WRITE_RETRIES, READ_RETRIES
    MaxSignals      \* bound: reads interrupted by a signal

ASSUME LenAssumption == MaxLen \in Nat \ {0}
ASSUME RetriesAssumption == Retries \in Nat \ {0}
ASSUME SignalsAssumption == MaxSignals \in Nat

Dir == {"tx", "rx"}

VARIABLES
    \* I2CData and the flag
    dataLen,        \* I2CTxDataLen, I2CRxDataLen
    dataIndex,      \* I2CTxDataIndex, I2CRxDataIndex
    wake,           \* I2CWakeUpCondition
    \* the controller
    enabled,        \* XRDY_IE, RRDY_IE in I2C_IRQENABLE
    dir,            \* the TRX bit
    cnt,            \* bytes left, I2C_CNT
    busy,           \* the BB bit
    stp,            \* STOP has been asked for
    \* the processes
    pc, op, len, tries,
    \* history and bound
    moved,          \* places of the buffers used since the last start
    outside,        \* has the handler used a place past the end of a buffer
    shared,         \* did two processes have the device open at once
    interrupted     \* reads interrupted so far

dataVars == <<dataLen, dataIndex, wake>>
busVars == <<enabled, dir, cnt, busy, stp>>
procVars == <<pc, op, len, tries>>
historyVars == <<moved, outside, shared, interrupted>>
vars == <<dataVars, busVars, procVars, historyVars>>

PcValues == {"closed",
             "open",        \* between two transfers
             "poll",        \* about to look at the BB bit
             "start",       \* found the bus free
             "wait",        \* asleep
             "woken"}       \* past its sleep

Init ==
    /\ dataLen = [d \in Dir |-> 0]
    /\ dataIndex = [d \in Dir |-> 0]
    /\ wake = 0
    /\ enabled = {}
    /\ dir = "rx"
    /\ cnt = 0
    /\ busy = FALSE
    /\ stp = FALSE
    /\ pc = [p \in Proc |-> "closed"]
    /\ op = [p \in Proc |-> "tx"]
    /\ len = [p \in Proc |-> 1]
    /\ tries = [p \in Proc |-> 0]
    /\ moved = [d \in Dir |-> {}]
    /\ outside = FALSE
    /\ shared = FALSE
    /\ interrupted = 0

Goto(p, where) == pc' = [pc EXCEPT ![p] = where]

\* The call returns, and its parameters and counter are gone.
Return(p) ==
    /\ Goto(p, "open")
    /\ op' = [op EXCEPT ![p] = "tx"]
    /\ len' = [len EXCEPT ![p] = 1]
    /\ tries' = [tries EXCEPT ![p] = 0]

-----------------------------------------------------------------------------
\* I2C_EN = 0: the controller forgets the transfer, not the interrupt enables.
ResetController ==
    /\ busy' = FALSE
    /\ stp' = FALSE
    /\ cnt' = 0
    /\ dir' = "rx"
    /\ UNCHANGED enabled

\* FCCopen up to its first transfer, whoever else has the device open.
Open(p) ==
    /\ pc[p] = "closed"
    /\ Goto(p, "open")
    /\ ResetController
    /\ shared' = (shared \/ \E q \in Proc \ {p} : pc[q] # "closed")
    /\ UNCHANGED <<dataVars, op, len, tries, moved, outside, interrupted>>

\* FCCclose.
Close(p) ==
    /\ pc[p] = "open"
    /\ Goto(p, "closed")
    /\ ResetController
    /\ UNCHANGED <<dataVars, op, len, tries, historyVars>>

\* A call of FCCi2cWrite or FCCi2cRead.
Call(p) ==
    /\ pc[p] = "open"
    /\ \E d \in Dir, n \in 1 .. MaxLen :
        /\ op' = [op EXCEPT ![p] = d]
        /\ len' = [len EXCEPT ![p] = n]
    /\ Goto(p, "poll")
    /\ UNCHANGED <<dataVars, busVars, tries, historyVars>>

\* Fault: the counter is looked at a look late.
Looks_More(d) == IF d = "tx" THEN Retries + 1 ELSE Retries + 2

\* Looks a write or a read takes at a busy bus before it gives up, lines
\* 376-387 and 464-476.
Looks(d) == IF d = "tx" THEN Retries ELSE Retries + 1

SeesBusy == busy
TriesAgain(p) == tries[p] + 1

\* One look.  A transfer that gives up returns as if nothing had happened.
Poll(p) ==
    /\ pc[p] = "poll"
    /\ \/ /\ ~SeesBusy
          /\ Goto(p, "start")
          /\ UNCHANGED <<op, len, tries>>
       \/ /\ SeesBusy
          /\ TriesAgain(p) # Looks(op[p])
          /\ tries' = [tries EXCEPT ![p] = TriesAgain(p)]
          /\ UNCHANGED <<pc, op, len>>
       \/ /\ SeesBusy
          /\ TriesAgain(p) = Looks(op[p])
          /\ Return(p)
    /\ UNCHANGED <<dataVars, busVars, historyVars>>

\* Lines 389-431 and 478-528: the buffer, the count, the interrupt, START.
Start(p) ==
    LET d == op[p]
    IN  /\ pc[p] = "start"
        /\ dataLen' = [dataLen EXCEPT ![d] = len[p]]
        /\ cnt' = len[p]
        /\ dir' = d
        /\ enabled' = enabled \cup {d}
        /\ busy' = TRUE
        /\ stp' = FALSE
        /\ moved' = [moved EXCEPT ![d] = {}]
        /\ Goto(p, "wait")
        /\ UNCHANGED <<dataIndex, wake, op, len, tries, outside, shared, interrupted>>

\* The kmalloc of a read fails, lines 479-485: no START.
NoMemory(p) ==
    /\ pc[p] = "start"
    /\ op[p] = "rx"
    /\ dataLen' = [dataLen EXCEPT !["rx"] = len[p]]
    /\ Return(p)
    /\ UNCHANGED <<dataIndex, wake, busVars, historyVars>>

-----------------------------------------------------------------------------
\* Faults: the index and the interrupt enable are left as they are.
NextIndex_Kept(d) == dataIndex[d] + 1
Masked_Not(d) == enabled

\* Lines 176, 210.
BufferDone(i, d) == i = dataLen[d]

\* Lines 174, 191 and 208, 227.
NextIndex(d) ==
    IF BufferDone(dataIndex[d] + 1, d) THEN 0 ELSE dataIndex[d] + 1

\* Lines 183-186, 218-221: I2C_IRQENABLE_CLR reads as the enabled interrupts,
\* so writing it back with one more bit masks them all.
Masked(d) == {}

\* FCCi2cHandlerIRQ, for a byte in the direction the bus moves.  A place past
\* the end of a buffer is undefined behaviour, and where the model ends.
Byte ==
    /\ ~outside
    /\ busy
    /\ cnt > 0
    /\ cnt' = cnt - 1
    /\ IF dir \in enabled
       THEN /\ dataIndex' = [dataIndex EXCEPT ![dir] = NextIndex(dir)]
            /\ moved' = [moved EXCEPT ![dir] = @ \cup {dataIndex[dir]}]
            /\ outside' = (outside \/ dataIndex[dir] >= dataLen[dir])
            /\ IF BufferDone(dataIndex[dir] + 1, dir)
               THEN wake' = 1 /\ enabled' = Masked(dir)
               ELSE UNCHANGED <<wake, enabled>>
       ELSE UNCHANGED <<dataIndex, moved, outside, wake, enabled>>
    /\ UNCHANGED <<dataLen, dir, busy, stp, procVars, shared, interrupted>>

\* The controller makes the STOP it was asked for.
Stop ==
    /\ busy
    /\ stp
    /\ cnt = 0
    /\ busy' = FALSE
    /\ stp' = FALSE
    /\ UNCHANGED <<dataVars, enabled, dir, cnt, procVars, historyVars>>

\* wait_event finds the condition true.
Wake(p) ==
    /\ pc[p] = "wait"
    /\ wake > 0
    /\ Goto(p, "woken")
    /\ UNCHANGED <<dataVars, busVars, op, len, tries, historyVars>>

\* Faults: no STOP is asked for; the flag is left set.
AsksForStop_Not == FALSE
FlagAfter_Kept == wake

AsksForStop == TRUE
FlagAfter == 0

\* Lines 435-447 and 538-555, whatever ended the sleep.
Finish(p) ==
    /\ pc[p] = "woken"
    /\ wake' = FlagAfter
    /\ stp' = (busy /\ AsksForStop)
    /\ Return(p)
    /\ UNCHANGED <<dataLen, dataIndex, enabled, dir, cnt, busy, historyVars>>

\* A signal ends the sleep of a read while the bus goes on.  `estado' is
\* unsigned (lines 455, 531), so the read never takes the branch for errors
\* and finishes as if its bytes had come.
Interrupt(p) ==
    /\ pc[p] = "wait"
    /\ op[p] = "rx"
    /\ wake = 0
    /\ interrupted < MaxSignals
    /\ interrupted' = interrupted + 1
    /\ Goto(p, "woken")
    /\ UNCHANGED <<dataVars, busVars, op, len, tries, moved, outside, shared>>

\* What a transfer does by itself.
Transfer(p) == Poll(p) \/ Start(p) \/ NoMemory(p) \/ Wake(p) \/ Finish(p)

Next ==
    \/ \E p \in Proc : Open(p) \/ Close(p) \/ Call(p) \/ Transfer(p) \/ Interrupt(p)
    \/ Byte
    \/ Stop

Spec == Init /\ [][Next]_vars

\* The sensor answers; a process in a transfer goes on with it.
Fairness == WF_vars(Byte) /\ WF_vars(Stop) /\ \A p \in Proc : WF_vars(Transfer(p))

FairSpec == Spec /\ Fairness

-----------------------------------------------------------------------------
(* Properties.                                                             *)

\* The variables keep their types; a process never looks at the bus more often
\* than its retries allow.
TypeOK ==
    /\ dataLen \in [Dir -> 0 .. MaxLen]
    /\ dataIndex \in [Dir -> 0 .. MaxLen]
    /\ wake \in {0, 1}
    /\ enabled \subseteq Dir
    /\ dir \in Dir
    /\ cnt \in 0 .. MaxLen
    /\ busy \in BOOLEAN
    /\ stp \in BOOLEAN
    /\ pc \in [Proc -> PcValues]
    /\ op \in [Proc -> Dir]
    /\ len \in [Proc -> 1 .. MaxLen]
    /\ tries \in [Proc -> 0 .. Retries]
    /\ moved \in [Dir -> SUBSET (0 .. MaxLen)]
    /\ outside \in BOOLEAN
    /\ shared \in BOOLEAN
    /\ interrupted \in 0 .. MaxSignals

\* The use the driver can cope with: one process at a time, no signal during a
\* read.
Orderly == ~shared /\ interrupted = 0

\* In orderly use a transfer returns with every byte moved, each to or from its
\* own place: the flag it wakes for is never left over from another transfer.
WokenMeansMoved ==
    Orderly =>
        \A p \in Proc :
            pc[p] = "woken" => moved[op[p]] = 0 .. len[p] - 1 /\ cnt = 0

\* In orderly use the handler is never enabled for a buffer nobody waits on,
\* so a transfer may free or reuse its buffer once it returns.
HandlerHasBuffer ==
    Orderly =>
        \A d \in enabled : \E p \in Proc : pc[p] = "wait" /\ op[p] = d

\* A transfer always returns: a busy bus is given up after so many looks, and a
\* sleep ends with the last byte, unless the use has not been orderly.
TransferReturns ==
    \A p \in Proc : pc[p] = "poll" ~> pc[p] \in {"open", "closed"} \/ ~Orderly

\* In orderly use the bus is free again some time after a transfer; the next
\* one need not give up.
BusFreed == busy ~> ~busy \/ ~Orderly

\* td3_i2c_fcc.c:478: the memory reserved holds the data received.
InsideBuffer == ~outside
=============================================================================
