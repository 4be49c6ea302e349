------------------------------- MODULE Device -------------------------------
(***************************************************************************)
(* The sensor's way from the driver to the shared memory, in 02_cuat: the  *)
(* life cycle of the module (DriverLifecycle), the calls of its file       *)
(* operations (FifoRead) and the process that uses them (SensorReader).    *)
(*                                                                         *)
(* The three meet in open, read, close, and in that every transfer needs   *)
(* the registers the life cycle maps.  Before the reader, another program, *)
(* like driver_test.c, may have the device open and read any length.       *)
(***************************************************************************)
EXTENDS Integers, Sequences, FiniteSets

CONSTANTS
    SampleBytes, Container, FifoSize, ByteWrap, ShortWrap, Lengths,
    MaxWindow, DefaultWindow, NCoeffs, Channels, Files, NoWindow

ASSUME SizesAssumption ==
    /\ SampleBytes \in Nat \ {0, 1}
    /\ {Container, FifoSize, ByteWrap, ShortWrap} \subseteq Nat \ {0}
    /\ Container % SampleBytes = 0
    /\ Container <= FifoSize
    /\ Lengths \subseteq Nat

ASSUME ReaderAssumption ==
    /\ {MaxWindow, DefaultWindow, NCoeffs, Channels} \subseteq Nat \ {0}
    /\ DefaultWindow <= MaxWindow
    /\ \A f \in Files :
          /\ f.window \in Int \cup {NoWindow}
          /\ \A n \in 1 .. Len(f.lines) :
                /\ f.lines[n] = <<f.lines[n][1], f.lines[n][2]>>
                /\ f.lines[n][1] \in Int

VARIABLES
    deviceTree, at, held, probe, bound, mapped, irq, file, unbound, faulted,
    sensor, fifo, overflow, count, fpc, len, i, data, trouble, kept,
    rpc, window, coeffs, driverBuffer, cleared, filtered, irregular,
    beyond, async,
    user            \* who has the file: none, reader, test

Driver == INSTANCE DriverLifecycle
Fifo == INSTANCE FifoRead
Reader == INSTANCE SensorReader WITH FreshBuffer <- Fifo!JunkSample

driverVars == <<deviceTree, at, held, probe, bound, mapped, irq, file, unbound,
                faulted>>
fifoVars == <<sensor, fifo, overflow, count, fpc, len, i, data, trouble, kept>>
readerVars == <<rpc, window, coeffs, driverBuffer, cleared, filtered, irregular,
                beyond, async>>
vars == <<driverVars, fifoVars, readerVars, user>>

Init ==
    /\ Driver!Init
    /\ Fifo!Init
    /\ Reader!Init
    /\ user = "none"

-----------------------------------------------------------------------------
DriverStep ==
    /\ Driver!Step
    /\ UNCHANGED <<fifoVars, readerVars, user>>

ReaderStep ==
    /\ Reader!Step
    /\ UNCHANGED <<driverVars, fifoVars, user>>

\* A transfer of the call in progress.
FifoStep ==
    /\ Driver!Usable
    /\ Fifo!Step
    /\ UNCHANGED <<driverVars, readerVars, user>>

SampleArrives ==
    /\ Fifo!Sample
    /\ UNCHANGED <<driverVars, readerVars, user>>

\* open().  The other program uses the device before the server is started.
ReaderOpens ==
    /\ user = "none"
    /\ Driver!OpenFile
    /\ Fifo!BeginSetUp
    /\ Reader!OpenBegins
    /\ user' = "reader"

ReaderCannotOpen ==
    /\ Driver!CannotOpen
    /\ Reader!OpenFails
    /\ UNCHANGED <<driverVars, fifoVars, user>>

TestOpens ==
    /\ user = "none"
    /\ rpc = "start"
    /\ Driver!OpenFile
    /\ Fifo!BeginSetUp
    /\ user' = "test"
    /\ UNCHANGED readerVars

ReaderOpened ==
    /\ fpc = "ready"
    /\ Reader!OpenReturns
    /\ UNCHANGED <<driverVars, fifoVars, user>>

\* read(driverFileDesc, driverBuffer, MPU6050_BUFFER_BYTES)
ReaderReads ==
    /\ Reader!ReadBegins
    /\ Fifo!Call(SampleBytes)
    /\ UNCHANGED <<driverVars, user>>

ReaderGets ==
    /\ Reader!ReadReturns(IF fpc = "done" THEN data ELSE driverBuffer)
    /\ Fifo!Return
    /\ UNCHANGED <<driverVars, user>>

TestReads ==
    /\ user = "test"
    /\ \E n \in Lengths : Fifo!Call(n)
    /\ UNCHANGED <<driverVars, readerVars, user>>

TestGets ==
    /\ user = "test"
    /\ Fifo!Return
    /\ UNCHANGED <<driverVars, readerVars, user>>

\* From here on the sample in driverBuffer is an old one.
ReaderPublishes ==
    /\ Reader!Publish(Fifo!JunkSample)
    /\ UNCHANGED <<driverVars, fifoVars, user>>

\* close(), or the end of the process.
Close ==
    /\ fpc = "ready"
    /\ Driver!CloseFile
    /\ Fifo!Gone
    /\ user' = "none"
    /\ \/ user = "reader" /\ Reader!InUserMode /\ Reader!Ends
       \/ user = "test" /\ UNCHANGED readerVars

\* An access without registers, in a call or in FCCclose; a bad length.
Fault ==
    /\ \/ (Fifo!UsesRegisters \/ fpc = "ready") /\ Driver!Fault
       \/ fpc = "wild" /\ Driver!Oops
    /\ Fifo!Gone
    /\ user' = "none"
    /\ IF user = "reader" THEN Reader!Ends ELSE UNCHANGED readerVars

Next ==
    \/ DriverStep \/ ReaderStep \/ FifoStep \/ SampleArrives
    \/ ReaderOpens \/ ReaderCannotOpen \/ TestOpens \/ ReaderOpened
    \/ ReaderReads \/ ReaderGets \/ TestReads \/ TestGets
    \/ ReaderPublishes \/ Close \/ Fault

Spec == Init /\ [][Next]_vars

\* A call in the kernel goes on, or dies; the sensor measures.
Fairness ==
    /\ WF_vars(FifoStep \/ ReaderGets \/ TestGets \/ Fault)
    /\ WF_vars(SampleArrives)
FairSpec == Spec /\ Fairness

-----------------------------------------------------------------------------
(* Properties.                                                             *)

\* The variables keep their types, and the FIFO its size.
TypeOK ==
    /\ Driver!DriverTypeOK
    /\ Fifo!FifoTypeOK
    /\ rpc \in {"start", "open", "opening", "reading", "gone"}
         \/ Reader!InUserMode
    /\ window \in Int
    /\ DOMAIN coeffs = 1 .. NCoeffs
    /\ driverBuffer \in [1 .. SampleBytes -> 0 .. SampleBytes]
    /\ cleared \in Nat
    /\ filtered \in 0 .. Channels
    /\ {irregular, beyond, async} \subseteq BOOLEAN
    /\ user \in {"none", "reader", "test"}
    /\ user # "none" <=> file = "open"

\* A module that is out, because driverInit has failed at any step or because
\* it was removed, has left no name, no driver, no mapping and no interrupt
\* handler, also after probes that failed half-way.
NothingLeftBehind == at = "out" => held = {} /\ mapped = {} /\ ~irq

\* The interrupt handler is never there without the registers it reads.  A
\* process that has opened the device while it was bound keeps registers and
\* handler until it closes it: neither rmmod nor anything that fails takes
\* them, only an unbind through sysfs.  So it never uses registers that are
\* not mapped.  (Who opened the device unbound has no such promise.)
RegistersMapped ==
    /\ irq => Driver!Usable
    /\ file = "open" /\ ~unbound => bound /\ irq /\ Driver!Usable
    /\ faulted => unbound

\* No container of a read reaches past the end of the caller's length, for
\* every length that is not refused or fatal (a length of 0 writes samples[-1]
\* and is fatal); and neither the clean-up nor a filter call leaves the part of
\* its own buffer that the turn has cleared, except when SIGUSR2 comes from
\* elsewhere in the middle of a turn.  It is about these two arrays: with a
\* window above ten firFilter also reads past filter_coeffs.
InBounds ==
    /\ fpc = "burst" => i * Container + Fifo!Samples(len, i) <= len
    /\ beyond => async

\* The filter's coefficients all come from one place: the last complete file,
\* the indices, or the initial zeros; unless the last file names a coefficient
\* twice, or one outside the array, for then its lines are still counted and
\* ten of them leave another coefficient as it was.
CoefficientsOfOneLoad ==
    \/ irregular
    \/ coeffs \in {Reader!NoCoeffs, Reader!Indices}
    \/ \E f \in Files : \A c \in 1 .. NCoeffs :
          \E n \in 1 .. Len(f.lines) : f.lines[n] = <<c, coeffs[c]>>

\* What is about to be published is one whole sample, taken during this very
\* read, unless the call or a transfer of it failed, the FIFO overflowed before
\* it was read, or FIFO_RESET had no effect and left bytes of an earlier time.
PublishedIsMeasured ==
    rpc = "publish"
        => trouble \/ overflow \/ kept \/ driverBuffer = Fifo!WholeSample

\* A read in progress ends, whatever its length, if its first container can
\* ever be half there, the sensor was set up, and no transfer fails.
ReadReturns ==
    Fifo!Reading ~>
        \/ ~Fifo!Reading
        \/ trouble
        \/ ~({"awake", "sources"} \subseteq sensor)
        \/ Fifo!Samples(len, 0) \div 2 > FifoSize
=============================================================================
