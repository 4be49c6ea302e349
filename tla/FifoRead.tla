------------------------------ MODULE FifoRead ------------------------------
(***************************************************************************)
(* td3_i2c_fcc.c of 02_cuat/04_driver: setting up the MPU6050, FCCread and *)
(* MPUReadFifo.                                                            *)
(*                                                                         *)
(* A read asks the sensor to reset its FIFO, then for each container waits *)
(* until its count reaches half the bytes it wants, and takes them.  The   *)
(* transfers are those of I2CTransfer, here one step each: any of them may *)
(* fail, because the bus is busy or a signal came, and nobody looks.       *)
(*                                                                         *)
(* The sensor is external: it appends whole samples, drops the oldest      *)
(* bytes of a full FIFO, and latches both bytes of the count when COUNTH   *)
(* is read.  A byte is its place in a sample taken during this call, or    *)
(* Junk: anything else.  What a call gets once a transfer of it has failed *)
(* is not told apart.                                                      *)
(***************************************************************************)
EXTENDS Integers, Sequences

CONSTANTS
    SampleBytes,    \* 14
    Container,      \* 1022, the most whole samples that fit the FIFO
    FifoSize,       \* 1024
    ByteWrap,       \* 256: containers is a uint8_t
    ShortWrap,      \* 65536: samples[] is of uint16_t
    Lengths         \* the lengths a program may ask for

VARIABLES
    sensor,         \* what has been switched on
    fifo,           \* its bytes, the oldest first
    overflow,       \* bytes were dropped since the FIFO was reset
    count,          \* FIFO_COUNT as latched with COUNTH
    fpc,            \* the next transfer of FCCopen or FCCread, or idle
    len,            \* dataLength
    i,              \* the container
    data,           \* the first sample in SamplesBuffer
    trouble,        \* this call, or a transfer it made, has failed
    \* history
    kept            \* the reset has left this call bytes of an earlier time

fifoVars == <<sensor, fifo, overflow, count, fpc, len, i, data, trouble, kept>>

Junk == 0
JunkSample == [b \in 1 .. SampleBytes |-> Junk]
WholeSample == [b \in 1 .. SampleBytes |-> b]

Init ==
    /\ sensor = {}
    /\ fifo = <<>>
    /\ overflow = FALSE
    /\ count = 0
    /\ fpc = "idle"
    /\ len = 0
    /\ i = 0
    /\ data = JunkSample
    /\ trouble = FALSE
    /\ kept = FALSE

-----------------------------------------------------------------------------
(* The sensor.                                                             *)

\* Fault: a full FIFO takes another sample.
LastBytes_All(s) == s

LastBytes(s) ==
    SubSeq(s, IF Len(s) > FifoSize THEN Len(s) - FifoSize + 1 ELSE 1, Len(s))

Reading == fpc \in {"reset", "high", "low", "burst"}

Fed == sensor = {"awake", "sources", "fifo"}

Unknown(n) == [b \in 1 .. n |-> Junk]

\* A sample arrives.  Where samples begin in a FIFO that has overflowed is not
\* known.
Sample ==
    /\ Reading
    /\ Fed
    /\ ~trouble
    /\ overflow' = (overflow \/ Len(fifo) + SampleBytes > FifoSize)
    /\ LET all == LastBytes(fifo \o WholeSample)
       IN  fifo' = IF overflow' THEN Unknown(Len(all)) ELSE all
    /\ UNCHANGED <<sensor, count, fpc, len, i, data, trouble, kept>>

-----------------------------------------------------------------------------
(* FCCopen: MPUInit leaves sleep, enables the FIFO and routes the sensors   *)
(* to it; its other registers make no difference here.                      *)

SetUpSteps == <<"awake", "fifo", "sources">>

BeginSetUp ==
    /\ fpc = "idle"
    /\ fpc' = SetUpSteps[1]
    /\ UNCHANGED <<sensor, fifo, overflow, count, len, i, data, trouble, kept>>

SetUp ==
    \E n \in 1 .. 3 :
        /\ fpc = SetUpSteps[n]
        /\ fpc' = IF n = 3 THEN "ready" ELSE SetUpSteps[n + 1]
        /\ \/ sensor' = sensor \cup {SetUpSteps[n]}
           \/ UNCHANGED sensor
        /\ UNCHANGED <<fifo, overflow, count, len, i, data, trouble, kept>>

-----------------------------------------------------------------------------
(* FCCread.                                                                 *)

Containers(n) ==
    (n \div Container + (IF n % Container # 0 THEN 1 ELSE 0)) % ByteWrap

\* Fault: the last container is as large as the others.
Rest_Full(n) == Container

\* Lines 863-866.
Rest(n) == IF n % Container # 0 THEN n % Container ELSE Container

\* samples[c], in the order of the assignments: the first container is given
\* the whole length, unless it is also the last.
Samples(n, c) ==
    IF c = Containers(n) - 1 THEN Rest(n)
    ELSE IF c = 0 THEN n % ShortWrap
    ELSE Container

\* Fault: the FIFO is not reset.
FirstTransfer_NoReset == "high"

\* Lines 874-877.
FirstTransfer == "reset"

\* The lengths that are refused; that make samples[0] a write outside it.
Refused(n) == n % SampleBytes # 0
Wild(n) == ~Refused(n) /\ Containers(n) = 0

\* The head of FCCread; kmalloc may fail.  What the sensor has left in its FIFO
\* since the last call is not known.
Call(n) ==
    /\ fpc = "ready"
    /\ len' = n
    /\ fpc' \in {"refused", IF Refused(n) THEN "refused"
                            ELSE IF Wild(n) THEN "wild" ELSE FirstTransfer}
    /\ \E l \in 0 .. FifoSize : fifo' = Unknown(l)
    /\ trouble' = (fpc' = "refused")
    /\ kept' = FALSE
    /\ UNCHANGED <<sensor, overflow, count, i, data>>

\* A transfer has failed, and nobody looks: what the FIFO and the buffer hold
\* from here on is not told apart.
Fails ==
    /\ trouble' = TRUE
    /\ fifo' = <<>>
    /\ overflow' = FALSE
    /\ count' = 0
    /\ data' = JunkSample
    /\ kept' = FALSE

Knows == ~trouble /\ UNCHANGED trouble

\* Fault: FIFO_RESET without FIFO_EN.
AfterReset_Disabled == sensor \ {"fifo"}

\* USER_CTRL is 0x44: FIFO_EN and FIFO_RESET.
AfterReset == sensor \cup {"fifo"}

\* Once MPUInit has set FIFO_EN the FIFO is written to with FIFO_EN at 1, and
\* the driver's own comment says that FIFO_RESET acts while it is 0: the FIFO
\* may be emptied or not.
Reset ==
    /\ fpc = "reset"
    /\ fpc' = "high"
    /\ \/ /\ Knows
          /\ sensor' = AfterReset
          /\ \/ fifo' = <<>> /\ overflow' = FALSE /\ UNCHANGED kept
             \/ /\ "fifo" \in sensor /\ fifo # <<>>
                /\ kept' = TRUE
                /\ UNCHANGED <<fifo, overflow>>
          /\ UNCHANGED <<count, data>>
       \/ Fails /\ UNCHANGED sensor
    /\ UNCHANGED <<len, i>>

\* MPUReadFifo, COUNTH.
CountHigh ==
    /\ fpc = "high"
    /\ fpc' = "low"
    /\ \/ Knows /\ count' = Len(fifo) /\ UNCHANGED <<fifo, overflow, data, kept>>
       \/ Fails
    /\ UNCHANGED <<sensor, len, i>>

\* The condition of the do loop.
Enough == count >= Samples(len, i) \div 2

\* MPUReadFifo, COUNTL, and the condition.  After a failed transfer the count
\* is made of the commands' own bytes, or of another register.
CountLow ==
    /\ fpc = "low"
    /\ \/ /\ Knows
          /\ fpc' = IF Enough THEN "burst" ELSE "high"
          /\ count' = 0
          /\ UNCHANGED <<fifo, overflow, data, kept>>
       \/ fpc' \in {"burst", "high"} /\ Fails
    /\ UNCHANGED <<sensor, len, i>>

\* What comes out of the FIFO; out of an empty one, anything.
Taken(n) ==
    [b \in 1 .. SampleBytes |-> IF b <= n /\ b <= Len(fifo) THEN fifo[b] ELSE Junk]

Burst ==
    /\ fpc = "burst"
    /\ \/ /\ Knows
          /\ data' = IF i = 0 THEN Taken(Samples(len, i)) ELSE data
          /\ fifo' = SubSeq(fifo, Samples(len, i) + 1, Len(fifo))
          /\ UNCHANGED <<overflow, count, kept>>
       \/ Fails
    /\ IF i + 1 < Containers(len)
       THEN fpc' = "high" /\ i' = i + 1
       ELSE fpc' = "done" /\ UNCHANGED i
    /\ UNCHANGED <<sensor, len>>

\* The call has returned, with data or with an error.
Return ==
    /\ fpc \in {"done", "refused"}
    /\ fpc' = "ready"
    /\ len' = 0
    /\ i' = 0
    /\ fifo' = <<>>
    /\ data' = JunkSample
    /\ UNCHANGED <<sensor, overflow, count, trouble, kept>>

\* The file is closed, or its process has died.
Gone ==
    /\ fpc' = "idle"
    /\ len' = 0
    /\ i' = 0
    /\ count' = 0
    /\ fifo' = <<>>
    /\ overflow' = FALSE
    /\ data' = JunkSample
    /\ trouble' = FALSE
    /\ kept' = FALSE
    /\ UNCHANGED sensor

\* Steps that use the registers.
Step == SetUp \/ Reset \/ CountHigh \/ CountLow \/ Burst

UsesRegisters ==
    fpc \in {"awake", "fifo", "sources", "reset", "high", "low", "burst"}

FifoTypeOK ==
    /\ sensor \subseteq {"awake", "fifo", "sources"}
    /\ fifo \in Seq(0 .. SampleBytes)
    /\ Len(fifo) <= FifoSize
    /\ count \in 0 .. FifoSize
    /\ UsesRegisters \/ fpc \in {"idle", "ready", "refused", "wild", "done"}
    /\ len \in Nat
    /\ i \in 0 .. ByteWrap
    /\ data \in [1 .. SampleBytes -> 0 .. SampleBytes]
    /\ {overflow, trouble, kept} \subseteq BOOLEAN
=============================================================================
