----------------------------- MODULE DeviceProofs -----------------------------
(***************************************************************************)
(* Device proved for samples, containers, FIFOs, counters, windows and     *)
(* configuration files of any size.                                        *)
(*                                                                         *)
(* The invariant has a part for each module and one for how they meet: what *)
(* driverInit and the probe have done so far (RegisteredInv, ProbeInv),    *)
(* who may use the registers (FileInv), where a read is in its length and  *)
(* in the FIFO (ContainerInv, SampleInv), what a turn of the reader has    *)
(* cleared (TurnInv), and who has the file (UserInv).                      *)
(***************************************************************************)
EXTENDS Device, FiniteSetTheorems, SequenceTheorems, TLAPS

\* Every step of driverInit holds what the ones before it have registered.
RegisteredInv ==
    /\ at \in {"out", "region"} => held = {}
    /\ at = "cdev" => held = {"region"}
    /\ at \in {"class", "device", "register"} => held \subseteq Driver!Names
    /\ at = "unregister" => held \subseteq {"driver"}

\* Every step of the probe has mapped what it unmaps when it fails.
ProbeInv ==
    /\ probe \in DOMAIN Driver!After
         => at = "live" /\ ~bound /\ ~irq /\ mapped = Driver!Unmaps[probe]
    /\ probe = "none"
         => (irq <=> bound) /\ mapped = IF bound THEN Driver!Blocks ELSE {}
    /\ probe = "unmap" => bound /\ ~irq /\ mapped = Driver!Blocks
    /\ bound \/ probe # "none" => at \in {"live", "unregister"}

\* A file opened on a bound device, and not unbound since, keeps it so.
FileInv ==
    /\ file = "open" /\ ~unbound => at = "live" /\ bound /\ probe = "none"
    /\ faulted => unbound /\ file = "lost"

\* A read is inside its length, in a container there is.
ContainerInv ==
    /\ fpc \in {"idle", "awake", "fifo", "sources", "ready", "refused", "wild",
               "reset"} => i = 0
    /\ Fifo!Reading => i < Fifo!Containers(len)

DriverInv == Driver!DriverTypeOK /\ RegisteredInv /\ ProbeInv /\ FileInv
FifoInv == Fifo!FifoTypeOK /\ ContainerInv

-----------------------------------------------------------------------------
(* The life cycle.                                                         *)

LEMMA UnmapsType ==
    /\ DOMAIN Driver!After = {"i2c", "clk", "ctrl", "clock", "number", "request"}
    /\ DOMAIN Driver!Unmaps = DOMAIN Driver!After
    /\ Driver!Unmaps["i2c"] = {}
    /\ \A s \in DOMAIN Driver!After :
          /\ Driver!Unmaps[s] \subseteq Driver!Blocks
          /\ s # "request" => /\ Driver!After[s] \in DOMAIN Driver!After
                              /\ Driver!Unmaps[Driver!After[s]]
                                   = Driver!Unmaps[s] \cup ({s} \cap Driver!Blocks)
          /\ s = "request" => /\ Driver!After[s] = "none"
                              /\ Driver!Unmaps[s] = Driver!Blocks
<1>1. DOMAIN Driver!After = {"i2c", "clk", "ctrl", "clock", "number", "request"}
  BY DEF Driver!After
<1>2. DOMAIN Driver!Unmaps = DOMAIN Driver!After
  BY DEF Driver!After, Driver!Unmaps
<1>3. /\ Driver!After["i2c"] = "clk" /\ Driver!After["clk"] = "ctrl"
      /\ Driver!After["ctrl"] = "clock" /\ Driver!After["clock"] = "number"
      /\ Driver!After["number"] = "request" /\ Driver!After["request"] = "none"
  BY DEF Driver!After
<1>4. /\ Driver!Unmaps["i2c"] = {} /\ Driver!Unmaps["clk"] = {"i2c"}
      /\ Driver!Unmaps["ctrl"] = {"i2c", "clk"}
      /\ Driver!Unmaps["clock"] = Driver!Blocks
      /\ Driver!Unmaps["number"] = Driver!Blocks
      /\ Driver!Unmaps["request"] = Driver!Blocks
  BY DEF Driver!Unmaps
<1>5. ASSUME NEW s \in DOMAIN Driver!After
      PROVE  /\ Driver!Unmaps[s] \subseteq Driver!Blocks
             /\ s # "request" => /\ Driver!After[s] \in DOMAIN Driver!After
                                 /\ Driver!Unmaps[Driver!After[s]]
                                      = Driver!Unmaps[s] \cup ({s} \cap Driver!Blocks)
             /\ s = "request" => /\ Driver!After[s] = "none"
                                 /\ Driver!Unmaps[s] = Driver!Blocks
  <2>1. Driver!Blocks = {"i2c", "clk", "ctrl"}
    BY DEF Driver!Blocks
  <2>2. CASE s = "i2c"
    BY <1>1, <1>3, <1>4, <2>1, <2>2
  <2>3. CASE s = "clk"
    BY <1>1, <1>3, <1>4, <2>1, <2>3
  <2>4. CASE s = "ctrl"
    BY <1>1, <1>3, <1>4, <2>1, <2>4
  <2>5. CASE s \in {"clock", "number"}
    BY <1>1, <1>3, <1>4, <2>1, <2>5
  <2>6. CASE s = "request"
    BY <1>1, <1>3, <1>4, <2>1, <2>6
  <2> QED
    BY <1>1, <2>2, <2>3, <2>4, <2>5, <2>6
<1> QED
  BY <1>1, <1>2, <1>4, <1>5

LEMMA InitDriver == Init => DriverInv
BY UnmapsType
   DEF Init, Driver!Init, DriverInv, Driver!DriverTypeOK, RegisteredInv, ProbeInv,
       FileInv

LEMMA StepDriver ==
    ASSUME DriverInv, Driver!Step
    PROVE  DriverInv'
<1> USE DEF DriverInv, Driver!DriverTypeOK, RegisteredInv, ProbeInv, FileInv,
            Driver!fileVars, Driver!platformVars
<1>1. CASE Driver!Insmod
  BY <1>1 DEF Driver!Insmod
<1>2. CASE Driver!AllocRegion
  BY <1>2 DEF Driver!AllocRegion, Driver!Names
<1>3. CASE Driver!AddCdev
  BY <1>3 DEF Driver!AddCdev, Driver!Names
<1>4. CASE Driver!CreateClass
  BY <1>4 DEF Driver!CreateClass, Driver!Names
<1>5. CASE Driver!CreateDevice
  BY <1>5 DEF Driver!CreateDevice, Driver!Names
<1>6. CASE Driver!RegisterDriver
  BY <1>6, UnmapsType DEF Driver!RegisterDriver, Driver!Names, Driver!UndoneByInit
<1>7. CASE Driver!Bind
  BY <1>7, UnmapsType DEF Driver!Bind
<1>8. CASE Driver!ProbeStep
  <2> DEFINE s == probe
  <2>1. /\ s \in DOMAIN Driver!After
        /\ at = "live" /\ ~bound /\ ~irq /\ mapped = Driver!Unmaps[s]
        /\ UNCHANGED <<deviceTree, at, held, file, unbound, faulted>>
    BY <1>8 DEF Driver!ProbeStep
  <2>2. file = "open" => unbound
    BY <2>1
  <2>3. probe' # "unmap"
    BY <1>8, UnmapsType DEF Driver!ProbeStep
  <2>4. CASE /\ probe' = "none"
             /\ mapped' = mapped \ Driver!Unmaps[s]
             /\ UNCHANGED <<irq, bound>>
    <3>1. mapped' = {}
      BY <2>1, <2>4
    <3> QED
      BY <2>1, <2>2, <2>4, <3>1, UnmapsType
  <2>5. CASE /\ probe' = Driver!After[s]
             /\ mapped' = mapped \cup ({s} \cap Driver!Blocks)
             /\ irq' = (s = "request")
             /\ bound' = (s = "request")
    <3>1. CASE s = "request"
      <4>1. irq' /\ bound' /\ probe' = "none" /\ mapped' = Driver!Blocks
        BY <2>1, <2>5, <3>1, UnmapsType
      <4>2. irq' = TRUE /\ bound' = TRUE
        BY <2>5, <3>1
      <4> QED
        BY <2>1, <2>2, <4>1, <4>2, UnmapsType
    <3>2. CASE s # "request"
      <4>1. /\ probe' \in DOMAIN Driver!After
            /\ mapped' = Driver!Unmaps[probe']
            /\ mapped' \subseteq Driver!Blocks
        BY <2>1, <2>5, <3>2, UnmapsType
      <4>2. irq' = FALSE /\ bound' = FALSE
        BY <2>5, <3>2
      <4> QED
        BY <2>1, <2>2, <4>1, <4>2, UnmapsType
    <3> QED
      BY <3>1, <3>2
  <2> QED
    BY <1>8, <2>4, <2>5 DEF Driver!ProbeStep
<1>9. CASE Driver!Remove
  BY <1>9, UnmapsType DEF Driver!Remove
<1>10. CASE Driver!RemoveUnmaps
  BY <1>10, UnmapsType DEF Driver!RemoveUnmaps
<1>11. CASE Driver!Rmmod
  BY <1>11, UnmapsType DEF Driver!Rmmod, Driver!Unused, Driver!Names
<1>12. CASE Driver!UnregisterDriver
  BY <1>12 DEF Driver!UnregisterDriver
<1> QED
  BY <1>1, <1>2, <1>3, <1>4, <1>5, <1>6, <1>7, <1>8, <1>9, <1>10, <1>11, <1>12
     DEF Driver!Step

LEMMA FileDriver ==
    ASSUME DriverInv,
           Driver!OpenFile \/ Driver!CloseFile \/ Driver!Fault \/ Driver!Oops
    PROVE  DriverInv'
<1> USE DEF DriverInv, Driver!DriverTypeOK, RegisteredInv, ProbeInv, FileInv,
            Driver!platformVars
<1>1. CASE Driver!OpenFile
  <2>1. held # {} /\ ~(held \subseteq {"driver"}) /\ "device" \in held
    BY <1>1 DEF Driver!OpenFile
  <2>2. unbound' \in BOOLEAN /\ (~unbound' => bound /\ probe # "unmap")
    BY <1>1, Zenon DEF Driver!OpenFile
  <2>3. ~unbound' => at = "live" /\ probe = "none"
    BY <2>1, <2>2
  <2> QED
    BY <1>1, <2>2, <2>3 DEF Driver!OpenFile
<1>2. CASE Driver!CloseFile
  BY <1>2 DEF Driver!CloseFile
<1>3. CASE Driver!Fault
  <2>1. file = "open" /\ ~("i2c" \in mapped)
    BY <1>3 DEF Driver!Fault, Driver!Usable
  <2>2. unbound
    BY <2>1 DEF Driver!Blocks
  <2> QED
    BY <1>3, <2>2 DEF Driver!Fault
<1>4. CASE Driver!Oops
  BY <1>4 DEF Driver!Oops
<1> QED
  BY <1>1, <1>2, <1>3, <1>4

-----------------------------------------------------------------------------
(* The arithmetic of lengths and containers.                               *)

LEMMA Sizes ==
    /\ SampleBytes \in Nat /\ SampleBytes > 1
    /\ Container \in Nat \ {0} /\ FifoSize \in Nat \ {0}
    /\ ByteWrap \in Nat \ {0} /\ ShortWrap \in Nat \ {0}
    /\ Container % SampleBytes = 0 /\ Container <= FifoSize
BY SizesAssumption

LEMMA Division ==
    ASSUME NEW n \in Int, NEW d \in Int, d > 0
    PROVE  n = d * (n \div d) + (n % d)
BY Z3

LEMMA Remainder ==
    ASSUME NEW n \in Nat, NEW d \in Nat \ {0}
    PROVE  /\ n % d \in 0 .. d - 1 /\ n % d <= n
           /\ n \div d \in Nat
OBVIOUS

LEMMA SampleFits == SampleBytes <= Container
<1> DEFINE q == Container \div SampleBytes
<1>1. q \in Nat
  BY Sizes, Remainder
<1>2. Container = SampleBytes * q
  <2>1. Container = SampleBytes * q + (Container % SampleBytes)
    BY Sizes, Division
  <2> HIDE DEF q
  <2> QED
    BY <1>1, <2>1, Sizes
<1> HIDE DEF q
<1>3. q >= 1
  BY <1>1, <1>2, Sizes
<1> QED
  BY <1>1, <1>2, <1>3, Sizes

\* The containers of a length, whole or not, before they wrap.
LEMMA ContainersOf ==
    ASSUME NEW n \in Nat
    PROVE  LET q == n \div Container
               r == n % Container
           IN  /\ q \in Nat /\ r \in 0 .. Container - 1
               /\ n = Container * q + r
               /\ Fifo!Containers(n) \in 0 .. ByteWrap - 1
               /\ Fifo!Containers(n) <= q + (IF r # 0 THEN 1 ELSE 0)
<1> DEFINE q == n \div Container
           r == n % Container
           all == q + (IF r # 0 THEN 1 ELSE 0)
<1>1. q \in Nat /\ r \in 0 .. Container - 1
  BY Remainder, Sizes
<1>2. n = Container * q + r
  BY Division, Sizes
<1>3. all \in Nat
  BY <1>1
<1>4. Fifo!Containers(n) = all % ByteWrap
  BY DEF Fifo!Containers
<1> HIDE DEF q, r, all
<1>5. all % ByteWrap \in 0 .. ByteWrap - 1 /\ all % ByteWrap <= all
  BY <1>3, Remainder, Sizes
<1> QED
  BY <1>1, <1>2, <1>4, <1>5 DEF q, r, all

LEMMA ContainersType ==
    ASSUME NEW n \in Nat
    PROVE  Fifo!Containers(n) \in 0 .. ByteWrap - 1
BY ContainersOf

LEMMA SamplesType ==
    ASSUME NEW n \in Nat, NEW c \in Nat
    PROVE  Fifo!Samples(n, c) \in Nat
<1>1. n % Container \in Nat /\ n % ShortWrap \in Nat /\ Container \in Nat
  BY Remainder, Sizes
<1> QED
  BY <1>1 DEF Fifo!Samples, Fifo!Rest

\* A container ends within the length it is part of, also where the counters
\* have wrapped.
LEMMA InLength ==
    ASSUME NEW n \in Nat, NEW c \in Nat, c < Fifo!Containers(n)
    PROVE  c * Container + Fifo!Samples(n, c) <= n
<1> DEFINE q == n \div Container
           r == n % Container
           m == Fifo!Containers(n)
<1>1. /\ q \in Nat /\ r \in 0 .. Container - 1 /\ n = Container * q + r
      /\ m \in Nat /\ m <= q + (IF r # 0 THEN 1 ELSE 0)
  BY ContainersOf, Sizes
<1>2. c < m /\ Container \in Nat \ {0}
  BY Sizes
<1>3. ASSUME NEW a \in Nat, a <= q PROVE a * Container <= q * Container
  BY <1>1, <1>2, <1>3, Z3
<1>4. CASE c = m - 1 /\ r # 0
  <2>1. Fifo!Samples(n, c) = r
    BY <1>4 DEF Fifo!Samples, Fifo!Rest
  <2>2. c <= q
    BY <1>1, <1>4
  <2> HIDE DEF q, r, m
  <2> QED
    BY <1>1, <1>2, <1>3, <2>1, <2>2
<1>5. CASE c + 1 <= q /\ Fifo!Samples(n, c) = Container
  <2> HIDE DEF q, r, m
  <2>1. (c + 1) * Container <= q * Container
    BY <1>3, <1>5
  <2>2. (c + 1) * Container = c * Container + Container
    BY <1>2
  <2> QED
    BY <1>1, <1>2, <1>5, <2>1, <2>2
<1>6. CASE c = m - 1 /\ r = 0
  <2>1. Fifo!Samples(n, c) = Container
    BY <1>6 DEF Fifo!Samples, Fifo!Rest
  <2>2. c + 1 <= q
    BY <1>1, <1>6
  <2> QED
    BY <1>5, <2>1, <2>2
<1>7. CASE c # m - 1 /\ c = 0
  <2>1. Fifo!Samples(n, c) = n % ShortWrap
    BY <1>7 DEF Fifo!Samples
  <2>2. n % ShortWrap \in Nat /\ n % ShortWrap <= n
    <3>1. ShortWrap \in Nat \ {0}
      BY Sizes
    <3>2. n % ShortWrap \in 0 .. ShortWrap - 1 /\ n % ShortWrap <= n
      BY ONLY n \in Nat, <3>1, Remainder
    <3> QED
      BY <3>1, <3>2
  <2>3. c = 0
    BY <1>7
  <2>4. c * Container = 0
    BY ONLY <1>2, <2>3
  <2> HIDE DEF q, r, m
  <2> QED
    BY <2>1, <2>2, <2>4
<1>8. CASE c # m - 1 /\ c # 0
  <2>1. Fifo!Samples(n, c) = Container
    BY <1>8 DEF Fifo!Samples
  <2>2. c + 1 <= q
    BY <1>1, <1>2, <1>8
  <2> QED
    BY <1>5, <2>1, <2>2
<1> QED
  BY <1>4, <1>6, <1>7, <1>8

-----------------------------------------------------------------------------
(* The FIFO.                                                               *)

Byte == 0 .. SampleBytes
Buffers == [1 .. SampleBytes -> Byte]

LEMMA SampleTypes ==
    /\ Fifo!JunkSample \in Buffers /\ Fifo!WholeSample \in Buffers
    /\ Fifo!JunkSample \in Seq(Byte) /\ Fifo!WholeSample \in Seq(Byte)
    /\ Len(Fifo!WholeSample) = SampleBytes
    /\ \A b \in 1 .. SampleBytes : Fifo!WholeSample[b] = b
BY Sizes DEF Fifo!JunkSample, Fifo!WholeSample, Fifo!Junk, Byte, Buffers

LEMMA UnknownType ==
    ASSUME NEW n \in Nat
    PROVE  Fifo!Unknown(n) \in Seq(Byte) /\ Len(Fifo!Unknown(n)) = n
<1>1. 0 \in Byte
  BY Sizes DEF Byte
<1>2. Fifo!Unknown(n) \in [1 .. n -> Byte]
  BY <1>1 DEF Fifo!Unknown, Fifo!Junk
<1>3. Fifo!Unknown(n) \in Seq(Byte)
  BY <1>2, SeqDef
<1>4. DOMAIN Fifo!Unknown(n) = 1 .. n
  BY <1>2
<1> QED
  BY <1>3, <1>4, LenProperties

LEMMA DroppedFirst ==
    ASSUME NEW s \in Seq(Byte), NEW n \in Nat
    PROVE  /\ SubSeq(s, n + 1, Len(s)) \in Seq(Byte)
           /\ Len(SubSeq(s, n + 1, Len(s))) <= Len(s)
<1>1. Len(s) \in Nat /\ \A m \in n + 1 .. Len(s) : s[m] \in Byte
  BY LenProperties, ElementOfSeq
<1> QED
  BY <1>1, SubSeqProperties

\* A FIFO keeps the last bytes it has room for.
LEMMA LastBytesType ==
    ASSUME NEW s \in Seq(Byte)
    PROVE  /\ Fifo!LastBytes(s) \in Seq(Byte)
           /\ Len(Fifo!LastBytes(s)) <= FifoSize
           /\ Len(s) <= FifoSize => Fifo!LastBytes(s) = s
<1> DEFINE m == IF Len(s) > FifoSize THEN Len(s) - FifoSize + 1 ELSE 1
<1>1. Len(s) \in Nat /\ \A b \in 1 .. Len(s) : s[b] \in Byte
  BY LenProperties, ElementOfSeq
<1>2. m \in Nat \ {0} /\ (Len(s) <= FifoSize => m = 1) /\ Len(s) - m + 1 <= FifoSize
  BY <1>1, Sizes
<1>3. Fifo!LastBytes(s) = SubSeq(s, m, Len(s))
  BY DEF Fifo!LastBytes
<1> HIDE DEF m
<1>4. \A b \in m .. Len(s) : s[b] \in Byte
  BY <1>1, <1>2
<1>5. /\ SubSeq(s, m, Len(s)) \in Seq(Byte)
      /\ Len(SubSeq(s, m, Len(s))) = IF m <= Len(s) THEN Len(s) - m + 1 ELSE 0
  BY <1>1, <1>2, <1>4, SubSeqProperties
<1>6. SubSeq(s, 1, Len(s)) = s
  BY SubSeqFull
<1> QED
  BY <1>1, <1>2, <1>3, <1>5, <1>6, Sizes

LEMMA FifoTypes ==
    Fifo!FifoTypeOK <=>
        /\ sensor \subseteq {"awake", "fifo", "sources"}
        /\ fifo \in Seq(Byte) /\ Len(fifo) <= FifoSize
        /\ count \in 0 .. FifoSize
        /\ fpc \in {"awake", "fifo", "sources", "reset", "high", "low", "burst",
                    "idle", "ready", "refused", "wild", "done"}
        /\ len \in Nat /\ i \in 0 .. ByteWrap
        /\ data \in Buffers
        /\ overflow \in BOOLEAN /\ trouble \in BOOLEAN /\ kept \in BOOLEAN
BY DEF Fifo!FifoTypeOK, Fifo!UsesRegisters, Byte, Buffers

LEMMA InitFifo == Init => FifoInv
<1> SUFFICES ASSUME Init PROVE FifoInv
  OBVIOUS
<1>1. Fifo!Init
  BY DEF Init
<1>2. Fifo!FifoTypeOK
  <2>1. overflow \in BOOLEAN /\ trouble \in BOOLEAN /\ kept \in BOOLEAN
    BY <1>1 DEF Fifo!Init
  <2>2. /\ sensor \subseteq {"awake", "fifo", "sources"}
        /\ count \in 0 .. FifoSize
        /\ len \in Nat /\ i \in 0 .. ByteWrap /\ fpc = "idle"
        /\ data \in Buffers
    BY <1>1, SampleTypes, Sizes DEF Fifo!Init
  <2>3. fifo \in Seq(Byte) /\ Len(fifo) <= FifoSize
    BY <1>1, Sizes DEF Fifo!Init
  <2> QED
    BY <2>1, <2>2, <2>3, FifoTypes
<1>3. ContainerInv
  BY <1>1 DEF Fifo!Init, ContainerInv, Fifo!Reading
<1> QED
  BY <1>2, <1>3 DEF FifoInv

\* What every transfer does to a call in trouble.
LEMMA FailsType ==
    ASSUME Fifo!Fails
    PROVE  /\ trouble' = TRUE /\ overflow' \in BOOLEAN /\ kept' \in BOOLEAN
           /\ count' \in 0 .. FifoSize
           /\ fifo' \in Seq(Byte) /\ Len(fifo') <= FifoSize /\ data' \in Buffers
<1>1. /\ trouble' = TRUE /\ overflow' = FALSE /\ count' = 0 /\ kept' = FALSE
      /\ fifo' = <<>> /\ data' = Fifo!JunkSample
  BY DEF Fifo!Fails
<1>2. overflow' \in BOOLEAN /\ kept' \in BOOLEAN
  BY <1>1
<1>3. count' \in 0 .. FifoSize
  BY <1>1, Sizes
<1>4. data' \in Buffers
  BY <1>1, SampleTypes
<1>5. fifo' \in Seq(Byte) /\ Len(fifo') <= FifoSize
  BY <1>1, Sizes
<1> QED
  BY <1>1, <1>2, <1>3, <1>4, <1>5

LEMMA SampleFifo == FifoInv /\ Fifo!Sample => FifoInv'
<1> SUFFICES ASSUME FifoInv, Fifo!Sample PROVE FifoInv'
  OBVIOUS
<1>1. /\ UNCHANGED <<sensor, count, fpc, len, i, data, trouble, kept>>
      /\ fifo \in Seq(Byte)
  BY FifoTypes DEF Fifo!Sample, FifoInv
<1> DEFINE all == Fifo!LastBytes(fifo \o Fifo!WholeSample)
<1>2. all \in Seq(Byte) /\ Len(all) \in 0 .. FifoSize
  <2>1. fifo \o Fifo!WholeSample \in Seq(Byte)
    BY <1>1, SampleTypes, ConcatProperties
  <2>2. all \in Seq(Byte) /\ Len(all) <= FifoSize
    BY <2>1, LastBytesType
  <2> HIDE DEF all
  <2> QED
    BY <2>2, LenProperties, Sizes
<1>3. fifo' = IF overflow' THEN Fifo!Unknown(Len(all)) ELSE all
  BY DEF Fifo!Sample
<1>4. fifo' \in Seq(Byte) /\ Len(fifo') <= FifoSize
  <2> HIDE DEF all
  <2> QED
    BY <1>2, <1>3, UnknownType
<1>5. overflow' \in BOOLEAN
  BY Zenon DEF Fifo!Sample
<1>6. Fifo!FifoTypeOK'
  BY <1>1, <1>4, <1>5, FifoTypes DEF FifoInv, Fifo!FifoTypeOK, Fifo!UsesRegisters, Byte
<1>7. ContainerInv'
  BY <1>1 DEF FifoInv, ContainerInv, Fifo!Reading, Fifo!Containers
<1> QED
  BY <1>6, <1>7 DEF FifoInv

LEMMA CallFifo ==
    ASSUME FifoInv, NEW n \in Nat, Fifo!Call(n)
    PROVE  FifoInv'
<1>1. /\ len' = n /\ UNCHANGED <<sensor, overflow, count, i, data>>
      /\ fpc = "ready" /\ fpc' \in {"refused", "wild", "reset"}
      /\ fpc' = "reset" => ~Fifo!Refused(n) /\ ~Fifo!Wild(n)
  BY DEF Fifo!Call, Fifo!FirstTransfer
<1>2. fifo' \in Seq(Byte) /\ Len(fifo') <= FifoSize
  BY UnknownType, Sizes DEF Fifo!Call
<1>3. trouble' \in BOOLEAN /\ kept' \in BOOLEAN
  BY Zenon DEF Fifo!Call
<1>4. Fifo!FifoTypeOK'
  BY <1>1, <1>2, <1>3, FifoTypes
     DEF FifoInv, Fifo!FifoTypeOK, Fifo!UsesRegisters, Byte
<1>5. i' = 0
  BY <1>1 DEF FifoInv, ContainerInv
<1>6. fpc' = "reset" => i' < Fifo!Containers(n)
  BY <1>1, <1>5, ContainersType DEF Fifo!Wild
<1>7. Fifo!Containers(len)' = Fifo!Containers(n)
  BY <1>1 DEF Fifo!Containers
<1> QED
  BY <1>1, <1>4, <1>5, <1>6, <1>7 DEF FifoInv, ContainerInv, Fifo!Reading

LEMMA SetsUp ==
    Fifo!SetUp =>
        /\ \/ fpc = "awake" /\ fpc' = "fifo"
           \/ fpc = "fifo" /\ fpc' = "sources"
           \/ fpc = "sources" /\ fpc' = "ready"
        /\ sensor' \subseteq sensor \cup {"awake", "fifo", "sources"}
        /\ UNCHANGED <<fifo, overflow, count, len, i, data, trouble, kept>>
<1>1. /\ Fifo!SetUpSteps[1] = "awake" /\ Fifo!SetUpSteps[2] = "fifo"
      /\ Fifo!SetUpSteps[3] = "sources"
  BY DEF Fifo!SetUpSteps
<1> SUFFICES ASSUME Fifo!SetUp
             PROVE  /\ \/ fpc = "awake" /\ fpc' = "fifo"
                       \/ fpc = "fifo" /\ fpc' = "sources"
                       \/ fpc = "sources" /\ fpc' = "ready"
                    /\ sensor' \subseteq sensor \cup {"awake", "fifo", "sources"}
                    /\ UNCHANGED <<fifo, overflow, count, len, i, data, trouble, kept>>
  OBVIOUS
<1>2. PICK n \in 1 .. 3 :
        /\ fpc = Fifo!SetUpSteps[n]
        /\ fpc' = IF n = 3 THEN "ready" ELSE Fifo!SetUpSteps[n + 1]
        /\ \/ sensor' = sensor \cup {Fifo!SetUpSteps[n]}
           \/ UNCHANGED sensor
        /\ UNCHANGED <<fifo, overflow, count, len, i, data, trouble, kept>>
  BY DEF Fifo!SetUp
<1>3. CASE n = 1
  BY <1>1, <1>2, <1>3
<1>4. CASE n = 2
  BY <1>1, <1>2, <1>4
<1>5. CASE n = 3
  BY <1>1, <1>2, <1>5
<1> QED
  BY <1>3, <1>4, <1>5

LEMMA StepFifo == FifoInv /\ Fifo!Step => FifoInv'
<1> SUFFICES ASSUME FifoInv, Fifo!Step PROVE FifoInv'
  OBVIOUS
<1>0. /\ sensor \subseteq {"awake", "fifo", "sources"}
      /\ fifo \in Seq(Byte) /\ Len(fifo) \in 0 .. FifoSize
      /\ count \in 0 .. FifoSize
      /\ len \in Nat /\ i \in 0 .. ByteWrap /\ data \in Buffers
      /\ overflow \in BOOLEAN /\ trouble \in BOOLEAN /\ kept \in BOOLEAN
      /\ ContainerInv
  BY FifoTypes DEF FifoInv
<1>1. CASE Fifo!SetUp
  <2>1. /\ UNCHANGED <<fifo, overflow, count, len, i, data, trouble, kept>>
        /\ fpc \in {"awake", "fifo", "sources"}
        /\ fpc' \in {"fifo", "sources", "ready"}
        /\ sensor' \subseteq {"awake", "fifo", "sources"}
    BY <1>0, <1>1, SetsUp
  <2>2. Fifo!FifoTypeOK'
    BY <1>0, <2>1 DEF Fifo!FifoTypeOK, Fifo!UsesRegisters, Byte, Buffers
  <2> QED
    BY <1>0, <2>1, <2>2 DEF FifoInv, ContainerInv, Fifo!Reading
\* A transfer that stays in its container.
<1>2. ASSUME fpc \in {"reset", "high", "low"}, fpc' \in {"high", "low", "burst"},
             UNCHANGED <<len, i>>,
             sensor' \subseteq {"awake", "fifo", "sources"},
             fifo' \in Seq(Byte), Len(fifo') <= FifoSize, count' \in 0 .. FifoSize,
             overflow' \in BOOLEAN, trouble' \in BOOLEAN, kept' \in BOOLEAN,
             data' \in Buffers
      PROVE  FifoInv'
  <2>1. Fifo!FifoTypeOK'
    BY <1>0, <1>2 DEF Fifo!FifoTypeOK, Fifo!UsesRegisters, Byte, Buffers
  <2>2. ContainerInv'
    BY <1>0, <1>2 DEF ContainerInv, Fifo!Reading, Fifo!Containers
  <2> QED
    BY <2>1, <2>2 DEF FifoInv
<1>3. CASE Fifo!Reset
  <2>1. CASE Fifo!Fails
    BY <1>0, <1>2, <1>3, <2>1, FailsType DEF Fifo!Reset, Fifo!AfterReset
  <2>2. CASE ~Fifo!Fails
    <3>1. /\ UNCHANGED <<trouble, count, data>>
          /\ sensor' \subseteq {"awake", "fifo", "sources"}
          /\ \/ fifo' = <<>> /\ overflow' = FALSE /\ UNCHANGED kept
             \/ kept' = TRUE /\ UNCHANGED <<fifo, overflow>>
      BY <1>0, <1>3, <2>2 DEF Fifo!Reset, Fifo!Knows, Fifo!AfterReset
    <3>2. overflow' \in BOOLEAN /\ kept' \in BOOLEAN
      BY <1>0, <3>1
    <3>3. fifo' \in Seq(Byte) /\ Len(fifo') <= FifoSize
      <4>1. CASE fifo' = <<>>
        BY <4>1, EmptySeq, Sizes
      <4>2. CASE UNCHANGED fifo
        BY <1>0, <4>2, Sizes
      <4> QED
        BY <3>1, <4>1, <4>2
    <3> QED
      BY <1>0, <1>2, <1>3, <3>1, <3>2, <3>3 DEF Fifo!Reset
  <2> QED
    BY <2>1, <2>2
<1>4. CASE Fifo!CountHigh
  <2>1. CASE Fifo!Fails
    BY <1>0, <1>2, <1>4, <2>1, FailsType DEF Fifo!CountHigh
  <2>2. CASE ~Fifo!Fails
    <3>1. count' = Len(fifo) /\ UNCHANGED <<trouble, fifo, overflow, data, kept>>
      BY <1>4, <2>2 DEF Fifo!CountHigh, Fifo!Knows
    <3> QED
      BY <1>0, <1>2, <1>4, <3>1 DEF Fifo!CountHigh
  <2> QED
    BY <2>1, <2>2
<1>5. CASE Fifo!CountLow
  <2>1. CASE Fifo!Fails
    BY <1>0, <1>2, <1>5, <2>1, FailsType DEF Fifo!CountLow
  <2>2. CASE ~Fifo!Fails
    <3>1. /\ count' = 0 /\ fpc' \in {"burst", "high"}
          /\ UNCHANGED <<trouble, fifo, overflow, data, kept>>
      BY <1>5, <2>2 DEF Fifo!CountLow, Fifo!Knows
    <3> QED
      BY <1>0, <1>2, <1>5, <3>1, Sizes DEF Fifo!CountLow
  <2> QED
    BY <2>1, <2>2
<1>6. CASE Fifo!Burst
  <2>1. fpc = "burst" /\ UNCHANGED <<sensor, len>>
    BY <1>6 DEF Fifo!Burst
  <2>2. /\ fifo' \in Seq(Byte) /\ Len(fifo') <= FifoSize /\ data' \in Buffers
        /\ overflow' \in BOOLEAN /\ trouble' \in BOOLEAN /\ kept' \in BOOLEAN
        /\ count' \in 0 .. FifoSize
    <3>1. CASE Fifo!Fails
      BY <3>1, FailsType
    <3>2. CASE ~Fifo!Fails
      <4> DEFINE n == Fifo!Samples(len, i)
      <4>1. n \in Nat
        <5>1. i \in Nat
          BY <1>0, Sizes
        <5> QED
          BY <1>0, <5>1, SamplesType
      <4>2. /\ data' = IF i = 0 THEN Fifo!Taken(n) ELSE data
            /\ fifo' = SubSeq(fifo, n + 1, Len(fifo))
            /\ UNCHANGED <<trouble, overflow, count, kept>>
        BY <1>6, <3>2 DEF Fifo!Burst, Fifo!Knows
      <4> HIDE DEF n
      <4>3. fifo' \in Seq(Byte) /\ Len(fifo') <= FifoSize
        <5>1. /\ SubSeq(fifo, n + 1, Len(fifo)) \in Seq(Byte)
              /\ Len(SubSeq(fifo, n + 1, Len(fifo))) <= Len(fifo)
          BY <1>0, <4>1, DroppedFirst
        <5>2. Len(fifo') \in Nat
          BY <4>2, <5>1, LenProperties
        <5> QED
          BY <1>0, <4>2, <5>1, <5>2, Sizes
      <4>4. Fifo!Taken(n) \in Buffers
        BY <1>0, Sizes DEF Fifo!Taken, Fifo!Junk, Buffers, Byte
      <4> QED
        BY <1>0, <4>2, <4>3, <4>4
    <3> QED
      BY <3>1, <3>2
  <2>3. Fifo!Containers(len) \in 0 .. ByteWrap - 1
    BY <1>0, ContainersType
  <2>4. /\ fpc' \in {"high", "done"} /\ i' \in 0 .. ByteWrap
        /\ fpc' = "high" => i' < Fifo!Containers(len)
    BY <1>0, <1>6, <2>3, Sizes DEF Fifo!Burst
  <2>5. Fifo!FifoTypeOK'
    BY <1>0, <2>1, <2>2, <2>4 DEF Fifo!FifoTypeOK, Fifo!UsesRegisters, Byte, Buffers
  <2>6. Fifo!Containers(len)' = Fifo!Containers(len)
    BY <2>1 DEF Fifo!Containers
  <2> QED
    BY <2>4, <2>5, <2>6 DEF FifoInv, ContainerInv, Fifo!Reading
<1> QED
  BY <1>1, <1>3, <1>4, <1>5, <1>6 DEF Fifo!Step

\* The calls that begin and end.
LEMMA CallsFifo ==
    FifoInv /\ (Fifo!BeginSetUp \/ Fifo!Return \/ Fifo!Gone) => FifoInv'
<1> SUFFICES ASSUME FifoInv, Fifo!BeginSetUp \/ Fifo!Return \/ Fifo!Gone
             PROVE  FifoInv'
  OBVIOUS
<1>1. CASE Fifo!BeginSetUp
  BY <1>1 DEF Fifo!BeginSetUp, Fifo!SetUpSteps, FifoInv, Fifo!FifoTypeOK,
              Fifo!UsesRegisters, ContainerInv, Fifo!Reading
<1>2. CASE Fifo!Return \/ Fifo!Gone
  <2>1. /\ fpc' \in {"idle", "ready"} /\ len' = 0 /\ i' = 0 /\ fifo' = <<>>
        /\ data' = Fifo!JunkSample /\ UNCHANGED sensor
        /\ count' = count \/ count' = 0
    BY <1>2 DEF Fifo!Return, Fifo!Gone
  <2>2. overflow' \in BOOLEAN /\ trouble' \in BOOLEAN /\ kept' \in BOOLEAN
    BY <1>2 DEF Fifo!Return, Fifo!Gone, FifoInv, Fifo!FifoTypeOK
  <2>3. /\ fifo' \in Seq(Byte) /\ Len(fifo') <= FifoSize
        /\ len' \in Nat /\ i' \in 0 .. ByteWrap
    BY <2>1, Sizes
  <2>4. data' \in Buffers
    BY <2>1, SampleTypes
  <2>5. sensor' \subseteq {"awake", "fifo", "sources"} /\ count' \in 0 .. FifoSize
    BY <2>1, Sizes DEF FifoInv, Fifo!FifoTypeOK
  <2>6. Fifo!FifoTypeOK'
    BY <2>1, <2>2, <2>3, <2>4, <2>5
       DEF Fifo!FifoTypeOK, Fifo!UsesRegisters, Byte, Buffers
  <2> QED
    BY <2>1, <2>6 DEF FifoInv, ContainerInv, Fifo!Reading
<1> QED
  BY <1>1, <1>2

-----------------------------------------------------------------------------
(* The reader.                                                             *)

ReaderTypes ==
    /\ rpc \in {"start", "open", "opening", "reading", "gone",
                "check", "clean", "read", "filter", "publish"}
    /\ window \in Int
    /\ DOMAIN coeffs = 1 .. NCoeffs
    /\ driverBuffer \in Buffers
    /\ cleared \in Nat
    /\ filtered \in 0 .. Channels
    /\ irregular \in BOOLEAN /\ beyond \in BOOLEAN /\ async \in BOOLEAN

\* From the check of the window to the end of the turn the window is at most
\* the buffer's size, and the clean-up has cleared as much as it says, unless
\* SIGUSR2 has changed it.
TurnInv ==
    /\ rpc \in {"clean", "read", "reading"} => filtered = 0
    /\ rpc = "filter" => filtered < Channels
    /\ rpc \in {"clean", "read", "reading", "filter", "publish"} /\ ~async
         => window <= MaxWindow
    /\ rpc \in {"read", "reading", "filter", "publish"} /\ ~async
         => cleared = IF window < 0 THEN 0 ELSE window
    /\ beyond => async

ReaderInv == ReaderTypes /\ TurnInv /\ CoefficientsOfOneLoad

LEMMA ReaderSizes ==
    /\ MaxWindow \in Nat \ {0} /\ DefaultWindow \in Nat \ {0}
    /\ NCoeffs \in Nat \ {0} /\ Channels \in Nat \ {0}
    /\ DefaultWindow <= MaxWindow
BY ReaderAssumption

\* A complete file of coefficients of the array, in which none comes twice, has
\* one line for each.
LEMMA OneLineEach ==
    ASSUME NEW f \in Files, Reader!Complete(f.lines),
           \A n \in 1 .. Len(f.lines) : f.lines[n][1] \in 1 .. NCoeffs,
           ~ \E n, m \in 1 .. Len(f.lines) :
                n < m /\ f.lines[n][1] = f.lines[m][1],
           NEW c \in 1 .. NCoeffs
    PROVE  \E n \in 1 .. NCoeffs :
              /\ Reader!Given(f.lines, c) = {n}
              /\ f.lines[n][1] = c
<1> DEFINE L == 1 .. NCoeffs
           index == [n \in L |-> f.lines[n][1]]
<1>1. Len(f.lines) = NCoeffs
  BY DEF Reader!Complete
<1>2. index \in [L -> L]
  BY <1>1, ReaderAssumption
<1>3. IsFiniteSet(L) /\ Cardinality(L) = NCoeffs
  BY FS_Interval, ReaderSizes
<1>4. \A d \in L : Reader!Given(f.lines, d) = {n \in L : index[n] = d}
  BY <1>1 DEF Reader!Given
<1> HIDE DEF index, L
<1>5. ASSUME NEW n \in L, NEW m \in L, index[n] = index[m] PROVE n = m
  BY <1>1, <1>5 DEF index, L
<1>6. \A d \in L : \E n \in L : index[n] = d
  <2> DEFINE R == {index[n] : n \in L}
  <2>1. index \in Bijection(L, R)
    BY <1>2, <1>5 DEF Bijection, Injection, IsInjective, Surjection
  <2>2. ExistsBijection(L, R)
    BY <2>1 DEF ExistsBijection
  <2>3. Cardinality(R) = Cardinality(L)
    BY <1>3, <2>2, FS_Bijection
  <2>4. R \in SUBSET L
    BY <1>2
  <2>5. R = L
    BY <1>3, <2>3, <2>4, FS_Subset
  <2> QED
    BY <2>5
<1>7. PICK n \in L : index[n] = c
  BY <1>6 DEF L
<1>8. Reader!Given(f.lines, c) = {n}
  BY <1>4, <1>5, <1>7 DEF L
<1> QED
  BY <1>7, <1>8 DEF L, index

LEMMA LoadKeeps ==
    ASSUME ReaderTypes, CoefficientsOfOneLoad, Reader!Load
    PROVE  /\ window' \in Int /\ DOMAIN coeffs' = 1 .. NCoeffs
           /\ irregular' \in BOOLEAN
           /\ CoefficientsOfOneLoad'
<1>1. CASE Reader!NoFile
  <2>1. CoefficientsOfOneLoad'
    BY <1>1 DEF Reader!NoFile, CoefficientsOfOneLoad
  <2> QED
    BY <1>1, <2>1, ReaderSizes DEF Reader!NoFile, ReaderTypes
<1>2. ASSUME NEW f \in Files, Reader!LoadFile(f)
      PROVE  /\ window' \in Int /\ DOMAIN coeffs' = 1 .. NCoeffs
             /\ irregular' \in BOOLEAN
             /\ CoefficientsOfOneLoad'
  <2>1. window' \in Int
    BY <1>2, ReaderAssumption, ReaderSizes DEF Reader!LoadFile
  <2>2. irregular' \in BOOLEAN
    BY <1>2, Zenon DEF Reader!LoadFile
  <2>3. CASE ~Reader!Complete(f.lines)
    <3>1. coeffs' = Reader!Indices
      BY <1>2, <2>3 DEF Reader!LoadFile
    <3>2. DOMAIN coeffs' = 1 .. NCoeffs
      BY <3>1 DEF Reader!Indices
    <3>3. CoefficientsOfOneLoad'
      BY <3>1 DEF CoefficientsOfOneLoad, Reader!Indices
    <3> QED
      BY <2>1, <2>2, <3>2, <3>3
  <2>4. CASE Reader!Complete(f.lines)
    <3>1. coeffs' = [c \in 1 .. NCoeffs |->
                       IF Reader!Given(f.lines, c) = {} THEN coeffs[c]
                       ELSE f.lines[Reader!Max(Reader!Given(f.lines, c))][2]]
      BY <1>2, <2>4 DEF Reader!LoadFile
    <3>2. ASSUME ~irregular', NEW c \in 1 .. NCoeffs
          PROVE  \E n \in 1 .. Len(f.lines) : f.lines[n] = <<c, coeffs'[c]>>
      <4>1. /\ \A n \in 1 .. Len(f.lines) : f.lines[n][1] \in 1 .. NCoeffs
            /\ ~ \E n, m \in 1 .. Len(f.lines) :
                    n < m /\ f.lines[n][1] = f.lines[m][1]
        BY <1>2, <3>2, Zenon DEF Reader!LoadFile
      <4>2. PICK n \in 1 .. NCoeffs :
              /\ Reader!Given(f.lines, c) = {n}
              /\ f.lines[n][1] = c
        BY <2>4, <4>1, OneLineEach
      <4>3. Reader!Max({n}) = n
        BY <4>2 DEF Reader!Max
      <4>4. coeffs'[c] = f.lines[n][2]
        BY <3>1, <4>2, <4>3
      <4>5. Len(f.lines) = NCoeffs
        BY <2>4 DEF Reader!Complete
      <4>6. f.lines[n] = <<f.lines[n][1], f.lines[n][2]>>
        BY <4>2, <4>5, ReaderAssumption
      <4> QED
        BY <4>2, <4>4, <4>5, <4>6
    <3>3. CoefficientsOfOneLoad'
      BY <3>2 DEF CoefficientsOfOneLoad
    <3> QED
      BY <2>1, <2>2, <3>1, <3>3
  <2> QED
    BY <2>3, <2>4
<1> QED
  BY <1>1, <1>2 DEF Reader!Load

LEMMA InitReader == Init => ReaderInv
<1> SUFFICES ASSUME Reader!Init PROVE ReaderInv
  BY DEF Init
<1>1. ReaderTypes
  <2>1. irregular \in BOOLEAN /\ beyond \in BOOLEAN /\ async \in BOOLEAN
    BY DEF Reader!Init
  <2>2. driverBuffer \in Buffers
    BY SampleTypes DEF Reader!Init
  <2> QED
    BY <2>1, <2>2, ReaderSizes DEF Reader!Init, ReaderTypes, Reader!NoCoeffs
<1> QED
  BY <1>1 DEF ReaderInv, Reader!Init, TurnInv, CoefficientsOfOneLoad

LEMMA StepReader ==
    ASSUME ReaderInv, Reader!Step
    PROVE  ReaderInv'
<1> USE DEF ReaderInv
<1>0. /\ MaxWindow \in Nat \ {0} /\ DefaultWindow \in Nat \ {0}
      /\ Channels \in Nat \ {0} /\ DefaultWindow <= MaxWindow
  BY ReaderSizes
<1>1. CASE Reader!Start
  BY <1>0, <1>1, LoadKeeps DEF Reader!Start, Reader!turnVars, ReaderTypes, TurnInv
<1>2. CASE Reader!Check
  <2>1. CoefficientsOfOneLoad'
    BY <1>2 DEF Reader!Check, CoefficientsOfOneLoad
  <2>2. window' \in Int /\ window' <= MaxWindow
    BY <1>0, <1>2 DEF Reader!Check, ReaderTypes
  <2>3. beyond' \in BOOLEAN /\ async' \in BOOLEAN /\ (beyond' => async')
    BY <1>2 DEF Reader!Check
  <2> QED
    BY <1>0, <1>2, <2>1, <2>2, <2>3 DEF Reader!Check, ReaderTypes, TurnInv
<1>3. CASE Reader!Clean
  <2>1. CoefficientsOfOneLoad'
    BY <1>3 DEF Reader!Clean, Reader!configVars, CoefficientsOfOneLoad
  <2>2. beyond' \in BOOLEAN
    BY <1>3, Zenon DEF Reader!Clean
  <2>3. cleared' \in Nat
    BY <1>3 DEF Reader!Clean, ReaderTypes
  <2> QED
    BY <1>0, <1>3, <2>1, <2>2, <2>3
       DEF Reader!Clean, Reader!configVars, ReaderTypes, TurnInv
<1>4. CASE Reader!FirFilter
  <2>1. CoefficientsOfOneLoad'
    BY <1>4 DEF Reader!FirFilter, Reader!configVars, CoefficientsOfOneLoad
  <2>2. beyond' \in BOOLEAN
    BY <1>4, Zenon DEF Reader!FirFilter
  <2>3. beyond' => async'
    BY <1>4 DEF Reader!FirFilter, ReaderTypes, TurnInv
  <2> QED
    BY <1>0, <1>4, <2>1, <2>2, <2>3
       DEF Reader!FirFilter, Reader!configVars, ReaderTypes, TurnInv
<1>5. CASE Reader!Sigusr2
  <2>1. async' = TRUE /\ async' \in BOOLEAN
    BY <1>5 DEF Reader!Sigusr2
  <2> QED
    BY <1>0, <1>5, <2>1, LoadKeeps DEF Reader!Sigusr2, ReaderTypes, TurnInv
<1> QED
  BY <1>1, <1>2, <1>3, <1>4, <1>5 DEF Reader!Step

LEMMA CallsReader ==
    ASSUME ReaderInv, NEW b \in Buffers,
           \/ Reader!OpenFails \/ Reader!OpenBegins \/ Reader!OpenReturns
           \/ Reader!ReadBegins \/ Reader!ReadReturns(b) \/ Reader!Publish(b)
           \/ Reader!Ends
    PROVE  ReaderInv'
<1> USE DEF ReaderInv
<1>1. CASE Reader!OpenFails \/ Reader!OpenBegins \/ Reader!OpenReturns
  <2>1. /\ rpc' \in {"gone", "opening", "check"}
        /\ UNCHANGED <<driverBuffer, window, coeffs, irregular,
                       cleared, filtered, beyond, async>>
    BY <1>1 DEF Reader!OpenFails, Reader!OpenBegins, Reader!OpenReturns,
                Reader!configVars, Reader!turnVars
  <2>2. CoefficientsOfOneLoad'
    BY <2>1 DEF CoefficientsOfOneLoad
  <2> QED
    BY <2>1, <2>2 DEF ReaderTypes, TurnInv
<1>2. CASE Reader!ReadBegins
  BY <1>2 DEF Reader!ReadBegins, Reader!configVars, Reader!turnVars,
      ReaderTypes, TurnInv, CoefficientsOfOneLoad
<1>3. CASE Reader!ReadReturns(b)
  <2>1. CoefficientsOfOneLoad'
    BY <1>3 DEF Reader!ReadReturns, Reader!configVars, CoefficientsOfOneLoad
  <2> QED
    BY <1>3, <2>1, ReaderSizes DEF Reader!ReadReturns, Reader!configVars,
       Reader!turnVars, ReaderTypes, TurnInv
<1>4. CASE Reader!Publish(b)
  BY <1>4, LoadKeeps DEF Reader!Publish, Reader!turnVars, ReaderTypes, TurnInv
<1>5. CASE Reader!Ends
  <2>1. ReaderTypes'
    <3>1. irregular' \in BOOLEAN /\ beyond' \in BOOLEAN /\ async' \in BOOLEAN
      BY <1>5 DEF Reader!Ends
    <3>2. driverBuffer' \in Buffers
      BY <1>5, SampleTypes DEF Reader!Ends
    <3> QED
      BY <1>5, <3>1, <3>2, ReaderSizes DEF Reader!Ends, ReaderTypes, Reader!NoCoeffs
  <2> QED
    BY <1>5, <2>1
       DEF Reader!Ends, TurnInv, CoefficientsOfOneLoad, Reader!NoCoeffs
<1> QED
  BY <1>1, <1>2, <1>3, <1>4, <1>5

-----------------------------------------------------------------------------
(* How they meet.                                                          *)

\* The file is open for as long as somebody has it, who is then where its call
\* is.
UserInv ==
    /\ user \in {"none", "reader", "test"}
    /\ user # "none" <=> file = "open"
    /\ user # "none" <=> fpc # "idle"
    /\ user = "reader" <=> rpc \in {"opening", "reading"} \/ Reader!InUserMode
    /\ rpc = "opening" => fpc \in {"awake", "fifo", "sources", "ready"}
    /\ rpc = "reading" => fpc \in {"refused", "wild", "reset", "high", "low",
                                   "burst", "done"}
    /\ Reader!InUserMode => fpc = "ready"

\* The FIFO is empty, or begins with a whole sample.
Fresh ==
    fifo = <<>> \/ /\ Len(fifo) >= SampleBytes
                   /\ \A b \in 1 .. SampleBytes : fifo[b] = b

\* A read of the reader in which nothing has gone wrong.
Sound == rpc = "reading" /\ ~trouble /\ ~overflow /\ ~kept

SampleInv ==
    /\ rpc = "reading" /\ Fifo!Reading => len = SampleBytes
    /\ Sound /\ fpc \in {"high", "low", "burst"} => Fresh
    /\ Sound /\ fpc = "low" => count = 0 \/ fifo # <<>>
    /\ Sound /\ fpc = "burst" => fifo # <<>>
    /\ Sound /\ fpc = "done" => data = Fifo!WholeSample
    /\ rpc = "reading" /\ fpc = "refused" => trouble
    /\ rpc \in {"filter", "publish"}
         => trouble \/ overflow \/ kept \/ driverBuffer = Fifo!WholeSample

IInv == DriverInv /\ FifoInv /\ ReaderInv /\ UserInv /\ SampleInv

LEMMA NextDriver ==
    ASSUME DriverInv, [Next]_vars
    PROVE  DriverInv'
<1>1. CASE DriverStep
  BY <1>1, StepDriver DEF DriverStep
<1>2. CASE ReaderOpens \/ TestOpens \/ Close
  BY <1>2, FileDriver DEF ReaderOpens, TestOpens, Close
<1>3. CASE Fault
  BY <1>3, FileDriver DEF Fault
<1>4. CASE UNCHANGED driverVars
  BY <1>4 DEF driverVars, DriverInv, Driver!DriverTypeOK, RegisteredInv, ProbeInv,
              FileInv
<1> QED
  BY <1>1, <1>2, <1>3, <1>4
     DEF Next, vars, ReaderStep, FifoStep, SampleArrives, ReaderCannotOpen,
         ReaderOpened, ReaderReads, ReaderGets, TestReads, TestGets,
         ReaderPublishes

LEMMA NextFifo ==
    ASSUME FifoInv, [Next]_vars
    PROVE  FifoInv'
<1>1. CASE FifoStep
  BY <1>1, StepFifo DEF FifoStep
<1>2. CASE SampleArrives
  BY <1>2, SampleFifo DEF SampleArrives
<1>3. CASE ReaderReads \/ TestReads
  <2>1. PICK n \in Lengths \cup {SampleBytes} : Fifo!Call(n)
    BY <1>3 DEF ReaderReads, TestReads
  <2>2. n \in Nat
    BY SizesAssumption
  <2> QED
    BY <2>1, <2>2, CallFifo
<1>4. CASE ReaderOpens \/ TestOpens \/ ReaderGets \/ TestGets \/ Close \/ Fault
  BY <1>4, CallsFifo DEF ReaderOpens, TestOpens, ReaderGets, TestGets, Close, Fault
<1>5. CASE UNCHANGED fifoVars
  <2>1. Fifo!FifoTypeOK'
    BY <1>5 DEF fifoVars, FifoInv, Fifo!FifoTypeOK, Fifo!UsesRegisters
  <2> QED
    BY <1>5, <2>1 DEF fifoVars, FifoInv, ContainerInv, Fifo!Reading, Fifo!Containers
<1> QED
  BY <1>1, <1>2, <1>3, <1>4, <1>5
     DEF Next, vars, DriverStep, ReaderStep, ReaderCannotOpen, ReaderOpened,
         ReaderPublishes

LEMMA NextReader ==
    ASSUME FifoInv, ReaderInv, [Next]_vars
    PROVE  ReaderInv'
<1>1. CASE ReaderStep
  BY <1>1, StepReader DEF ReaderStep
<1>2. CASE ReaderOpens \/ ReaderCannotOpen \/ ReaderOpened \/ ReaderReads
           \/ ReaderPublishes
  BY <1>2, CallsReader, SampleTypes
     DEF ReaderOpens, ReaderCannotOpen, ReaderOpened, ReaderReads, ReaderPublishes
<1>3. CASE ReaderGets
  <2> DEFINE b == IF fpc = "done" THEN data ELSE driverBuffer
  <2>1. b \in Buffers /\ Reader!ReadReturns(b)
    BY <1>3, FifoTypes DEF ReaderGets, FifoInv, ReaderInv, ReaderTypes
  <2> HIDE DEF b
  <2> QED
    BY <2>1, CallsReader
<1>4. CASE UNCHANGED readerVars
  <2>1. UNCHANGED <<rpc, window, coeffs, driverBuffer, cleared, filtered, irregular,
                    beyond, async>>
    BY <1>4 DEF readerVars
  <2>2. CoefficientsOfOneLoad'
    BY <2>1 DEF ReaderInv, CoefficientsOfOneLoad
  <2> QED
    BY <2>1, <2>2 DEF ReaderInv, ReaderTypes, TurnInv
<1>5. CASE (Close \/ Fault) /\ ~UNCHANGED readerVars
  BY <1>5, CallsReader, SampleTypes DEF Close, Fault
<1> QED
  BY <1>1, <1>2, <1>3, <1>4, <1>5
     DEF Next, vars, DriverStep, FifoStep, SampleArrives, TestOpens, TestReads,
         TestGets

\* What happens to the driver closes no file.
LEMMA FileStays == Driver!Step => UNCHANGED file
BY DEF Driver!Step, Driver!Insmod, Driver!AllocRegion, Driver!AddCdev,
       Driver!CreateClass, Driver!CreateDevice, Driver!RegisterDriver, Driver!Bind,
       Driver!ProbeStep, Driver!Remove, Driver!RemoveUnmaps, Driver!Rmmod,
       Driver!UnregisterDriver, Driver!fileVars

LEMMA InitUser == Init => UserInv /\ SampleInv
BY DEF Init, Driver!Init, Fifo!Init, Reader!Init, UserInv, SampleInv, Sound,
       Reader!InUserMode, Fifo!Reading

LEMMA NextUser ==
    ASSUME UserInv, [Next]_vars
    PROVE  UserInv'
<1> USE DEF UserInv, Reader!InUserMode
<1>1. CASE DriverStep
  BY <1>1, FileStays DEF DriverStep, fifoVars, readerVars
<1>2. CASE ReaderStep
  BY <1>2 DEF ReaderStep, driverVars, fifoVars, Reader!Step, Reader!Start,
              Reader!Check, Reader!Clean, Reader!FirFilter, Reader!Sigusr2
<1>3. CASE FifoStep
  BY <1>3, SetsUp DEF FifoStep, driverVars, readerVars, Fifo!Step, Fifo!Reset,
              Fifo!CountHigh, Fifo!CountLow, Fifo!Burst
<1>4. CASE SampleArrives
  BY <1>4 DEF SampleArrives, driverVars, readerVars, Fifo!Sample
<1>5. CASE ReaderOpens \/ TestOpens
  BY <1>5 DEF ReaderOpens, TestOpens, readerVars, Driver!OpenFile, Fifo!BeginSetUp,
              Fifo!SetUpSteps, Reader!OpenBegins
<1>6. CASE ReaderCannotOpen
  BY <1>6 DEF ReaderCannotOpen, driverVars, fifoVars, Reader!OpenFails
<1>7. CASE ReaderOpened
  BY <1>7 DEF ReaderOpened, driverVars, fifoVars, Reader!OpenReturns
<1>8. CASE ReaderReads
  BY <1>8 DEF ReaderReads, driverVars, Reader!ReadBegins, Fifo!Call,
              Fifo!FirstTransfer
<1>9. CASE ReaderGets
  BY <1>9 DEF ReaderGets, driverVars, Reader!ReadReturns, Fifo!Return
<1>10. CASE TestReads
  BY <1>10 DEF TestReads, driverVars, readerVars, Fifo!Call, Fifo!FirstTransfer
<1>11. CASE TestGets
  BY <1>11 DEF TestGets, driverVars, readerVars, Fifo!Return
<1>12. CASE ReaderPublishes
  BY <1>12 DEF ReaderPublishes, driverVars, fifoVars, Reader!Publish
<1>13. CASE Close
  BY <1>13 DEF Close, readerVars, Driver!CloseFile, Fifo!Gone, Reader!Ends
<1>14. CASE Fault
  BY <1>14 DEF Fault, readerVars, Driver!Fault, Driver!Oops, Fifo!Gone, Reader!Ends
<1>15. CASE UNCHANGED vars
  BY <1>15 DEF vars, driverVars, fifoVars, readerVars
<1> QED
  BY <1>1, <1>2, <1>3, <1>4, <1>5, <1>6, <1>7, <1>8, <1>9, <1>10, <1>11, <1>12,
     <1>13, <1>14, <1>15 DEF Next

-----------------------------------------------------------------------------
(* The sample of the reader.                                               *)

\* The server reads one sample at a time, which is one container.
LEMMA OneContainer ==
    /\ Fifo!Containers(SampleBytes) <= 1
    /\ Fifo!Containers(SampleBytes) = 1
         => Fifo!Samples(SampleBytes, 0) = SampleBytes
<1>1. SampleBytes \in Nat \ {0} /\ Container \in Nat \ {0} /\ ByteWrap \in Nat \ {0}
  BY Sizes
<1>2. CASE SampleBytes < Container
  <2>1. SampleBytes \div Container = 0 /\ SampleBytes % Container = SampleBytes
    BY <1>1, <1>2, Z3
  <2>2. Fifo!Containers(SampleBytes) = 1 % ByteWrap
    BY <1>1, <2>1 DEF Fifo!Containers
  <2>3. 1 % ByteWrap <= 1
    BY <1>1, Remainder
  <2> QED
    BY <1>1, <2>1, <2>2, <2>3 DEF Fifo!Samples, Fifo!Rest
<1>3. CASE SampleBytes = Container
  <2>1. SampleBytes \div Container = 1 /\ SampleBytes % Container = 0
    BY <1>1, <1>3, Z3
  <2>2. Fifo!Containers(SampleBytes) = 1 % ByteWrap
    BY <1>1, <2>1 DEF Fifo!Containers
  <2>3. 1 % ByteWrap <= 1
    BY <1>1, Remainder
  <2> QED
    BY <1>1, <1>3, <2>1, <2>2, <2>3 DEF Fifo!Samples, Fifo!Rest
<1> QED
  BY <1>1, <1>2, <1>3, SampleFits

\* A sample that arrives leaves the one at the head of the FIFO where it is,
\* as long as the FIFO does not overflow.
LEMMA StaysFresh ==
    ASSUME fifo \in Seq(Byte), Fresh, Len(fifo) + SampleBytes <= FifoSize
    PROVE  LET all == Fifo!LastBytes(fifo \o Fifo!WholeSample)
           IN  /\ all # <<>> /\ Len(all) >= SampleBytes
               /\ \A b \in 1 .. SampleBytes : all[b] = b
<1> DEFINE all == fifo \o Fifo!WholeSample
<1>1. /\ all \in Seq(Byte) /\ Len(all) = Len(fifo) + SampleBytes
      /\ \A b \in 1 .. Len(fifo) + SampleBytes :
            all[b] = IF b <= Len(fifo) THEN fifo[b]
                     ELSE Fifo!WholeSample[b - Len(fifo)]
      /\ Len(fifo) \in Nat
  BY SampleTypes, ConcatProperties, LenProperties
<1>2. Fifo!LastBytes(all) = all
  BY <1>1, LastBytesType
<1>3. \A b \in 1 .. SampleBytes : all[b] = b
  <2> HIDE DEF all
  <2>1. CASE fifo = <<>>
    <3>1. Len(fifo) = 0
      BY <2>1, EmptySeq
    <3> QED
      BY <1>1, <3>1, SampleTypes, Sizes
  <2>2. CASE fifo # <<>>
    BY <1>1, <2>2, Sizes DEF Fresh
  <2> QED
    BY <2>1, <2>2
<1> HIDE DEF all
<1>4. all # <<>>
  BY <1>1, EmptySeq, Sizes
<1> QED
  BY <1>1, <1>2, <1>3, <1>4, Sizes DEF all

LEMMA NextSample ==
    ASSUME FifoInv, UserInv, SampleInv, [Next]_vars
    PROVE  SampleInv'
<1>1. /\ fifo \in Seq(Byte) /\ Len(fifo) \in Nat /\ count \in Nat
      /\ i \in Nat /\ SampleBytes \in Nat /\ SampleBytes > 1
  BY FifoTypes, Sizes, LenProperties DEF FifoInv
<1>2. CASE FifoStep
  <2>1. UNCHANGED <<rpc, driverBuffer>>
    BY <1>2 DEF FifoStep, readerVars
  <2>2. rpc \notin {"filter", "publish"}
    BY <1>2, SetsUp DEF FifoStep, Fifo!Step, Fifo!Reset, Fifo!CountHigh,
          Fifo!CountLow, Fifo!Burst, UserInv, Reader!InUserMode
  <2>3. SUFFICES ASSUME rpc = "reading"
                 PROVE  SampleInv'
    BY <2>1, <2>2 DEF SampleInv, Sound
  <2>4. ~Fifo!SetUp
    BY <2>3, SetsUp DEF UserInv
  <2>5. CASE trouble'
    BY <1>2, <2>1, <2>2, <2>4, <2>5
       DEF FifoStep, Fifo!Step, Fifo!Reset, Fifo!CountHigh, Fifo!CountLow,
           Fifo!Burst, SampleInv, Sound, Fifo!Reading
  <2>6. ASSUME ~trouble' PROVE ~trouble /\ ~Fifo!Fails
    BY <1>2, <2>4, <2>6
       DEF FifoStep, Fifo!Step, Fifo!Reset, Fifo!CountHigh, Fifo!CountLow,
           Fifo!Burst, Fifo!Fails, Fifo!Knows
  <2>7. /\ Fifo!Reading /\ len = SampleBytes /\ UNCHANGED len
        /\ i = 0 /\ Fifo!Containers(len) = 1
        /\ Fifo!Samples(len, i) = SampleBytes
    <3>1. Fifo!Reading /\ UNCHANGED len
      BY <1>2, <2>4 DEF FifoStep, Fifo!Step, Fifo!Reset, Fifo!CountHigh,
            Fifo!CountLow, Fifo!Burst, Fifo!Reading
    <3>2. len = SampleBytes /\ i < Fifo!Containers(len)
      BY <2>3, <3>1 DEF SampleInv, FifoInv, ContainerInv
    <3>3. Fifo!Containers(len) \in Nat
      BY <1>1, <3>2, ContainersType, Sizes
    <3>4. i = 0 /\ Fifo!Containers(len) = 1
      BY <1>1, <3>2, <3>3, OneContainer
    <3> QED
      BY <3>1, <3>2, <3>4, OneContainer
  <2>8. CASE ~trouble' /\ Fifo!Reset
    <3>1. fpc' = "high" /\ (kept' \/ fifo' = <<>>)
      BY <2>6, <2>8 DEF Fifo!Reset
    <3> QED
      BY <2>1, <2>2, <2>3, <2>7, <2>8, <3>1
         DEF Fifo!Reading, SampleInv, Sound, Fresh
  <2>9. CASE ~trouble' /\ Fifo!CountHigh
    <3>1. fpc' = "low" /\ count' = Len(fifo) /\ UNCHANGED <<fifo, overflow, kept>>
      BY <2>6, <2>9 DEF Fifo!CountHigh
    <3>2. Len(fifo) = 0 \/ fifo # <<>>
      BY EmptySeq
    <3> QED
      BY <2>1, <2>6, <2>7, <2>9, <3>1, <3>2
         DEF Fifo!CountHigh, SampleInv, Sound, Fresh
  <2>10. CASE ~trouble' /\ Fifo!CountLow
    <3>1. /\ fpc = "low" /\ fpc' = IF Fifo!Enough THEN "burst" ELSE "high"
          /\ UNCHANGED <<fifo, overflow, kept>>
      BY <2>6, <2>10 DEF Fifo!CountLow
    <3>2. Fifo!Enough => count # 0
      <4>1. SampleBytes \div 2 >= 1
        BY <1>1
      <4> QED
        BY <1>1, <2>7, <4>1 DEF Fifo!Enough
    <3> QED
      BY <2>1, <2>6, <2>7, <3>1, <3>2 DEF SampleInv, Sound, Fresh
  <2>11. CASE ~trouble' /\ Fifo!Burst
    <3>1. /\ fpc = "burst" /\ data' = Fifo!Taken(SampleBytes)
          /\ UNCHANGED <<overflow, kept>>
          /\ fpc' = "done"
      BY <2>6, <2>7, <2>11 DEF Fifo!Burst
    <3>2. ASSUME ~overflow, ~kept PROVE data' = Fifo!WholeSample
      <4>1. Len(fifo) >= SampleBytes /\ \A b \in 1 .. SampleBytes : fifo[b] = b
        BY <2>3, <2>6, <2>11, <3>1, <3>2 DEF SampleInv, Sound, Fresh
      <4> QED
        BY <1>1, <3>1, <4>1 DEF Fifo!Taken, Fifo!WholeSample
    <3> QED
      BY <2>1, <2>2, <2>3, <2>6, <3>1, <3>2 DEF SampleInv, Sound, Fifo!Reading
  <2> QED
    BY <1>2, <2>4, <2>5, <2>8, <2>9, <2>10, <2>11 DEF FifoStep, Fifo!Step
<1>3. CASE SampleArrives
  <2>1. /\ UNCHANGED <<rpc, driverBuffer, count, fpc, len, data, trouble, kept>>
        /\ Fifo!Reading
    BY <1>3 DEF SampleArrives, readerVars, Fifo!Sample
  <2>2. overflow' = (overflow \/ Len(fifo) + SampleBytes > FifoSize)
    BY <1>3 DEF SampleArrives, Fifo!Sample
  <2>3. rpc \notin {"filter", "publish"}
    BY <2>1 DEF UserInv, Reader!InUserMode, Fifo!Reading
  <2>4. CASE overflow'
    BY <2>1, <2>3, <2>4 DEF SampleInv, Sound, Fifo!Reading
  <2>5. CASE ~overflow'
    <3>1. ~overflow /\ Len(fifo) + SampleBytes <= FifoSize
      <4>1. ~overflow /\ ~(Len(fifo) + SampleBytes > FifoSize)
        BY <2>2, <2>5, Zenon
      <4> QED
        BY <1>1, <4>1, Sizes
    <3>2. fifo' = Fifo!LastBytes(fifo \o Fifo!WholeSample)
      BY <1>3, <2>5 DEF SampleArrives, Fifo!Sample
    <3>3. Fresh => Fresh' /\ fifo' # <<>>
      BY <1>1, <3>1, <3>2, StaysFresh DEF Fresh
    <3> QED
      BY <2>1, <2>3, <2>5, <3>1, <3>3 DEF SampleInv, Sound, Fifo!Reading
  <2> QED
    BY <2>4, <2>5
<1>4. CASE ReaderReads
  BY <1>4 DEF ReaderReads, Reader!ReadBegins, Fifo!Call, Fifo!FirstTransfer,
              SampleInv, Sound, Fifo!Reading
<1>5. CASE ReaderGets
  <2>1. /\ rpc = "reading" /\ rpc' = "filter" /\ fpc \in {"done", "refused"}
        /\ UNCHANGED <<overflow, trouble, kept>>
        /\ driverBuffer' = IF fpc = "done" THEN data ELSE driverBuffer
    BY <1>5 DEF ReaderGets, Reader!ReadReturns, Fifo!Return
  <2> QED
    BY <2>1 DEF SampleInv, Sound
<1>6. CASE ReaderStep
  <2>1. UNCHANGED <<fifoVars, driverBuffer>> /\ rpc' # "reading"
    BY <1>6 DEF ReaderStep, Reader!Step, Reader!Start, Reader!Check, Reader!Clean,
                Reader!FirFilter, Reader!Sigusr2
  <2>2. rpc' \in {"filter", "publish"} => rpc \in {"filter", "publish"}
    BY <1>6 DEF ReaderStep, Reader!Step, Reader!Start, Reader!Check, Reader!Clean,
                Reader!FirFilter, Reader!Sigusr2
  <2> QED
    BY <2>1, <2>2 DEF fifoVars, SampleInv, Sound
<1>7. CASE DriverStep \/ UNCHANGED vars
  BY <1>7 DEF DriverStep, vars, fifoVars, readerVars, SampleInv, Sound, Fresh,
              Fifo!Reading
<1>8. CASE ReaderOpens \/ ReaderCannotOpen \/ ReaderOpened \/ ReaderPublishes
  <2>1. rpc' \notin {"reading", "filter", "publish"}
    BY <1>8 DEF ReaderOpens, ReaderCannotOpen, ReaderOpened, ReaderPublishes,
                Reader!OpenBegins, Reader!OpenFails, Reader!OpenReturns,
                Reader!Publish
  <2> QED
    BY <2>1 DEF SampleInv, Sound
<1>9. CASE TestOpens \/ TestReads \/ TestGets \/ Close \/ Fault
  <2>1. rpc' \notin {"reading", "filter", "publish"}
    BY <1>9 DEF TestOpens, TestReads, TestGets, Close, Fault, readerVars,
                Reader!Ends, UserInv, Reader!InUserMode, Driver!Fault, Driver!Oops
  <2> QED
    BY <2>1 DEF SampleInv, Sound
<1> QED
  BY <1>2, <1>3, <1>4, <1>5, <1>6, <1>7, <1>8, <1>9 DEF Next

-----------------------------------------------------------------------------
(* The invariant and the theorems.                                         *)

LEMMA InitInv == Init => IInv
BY InitDriver, InitFifo, InitReader, InitUser DEF IInv

LEMMA NextInv == IInv /\ [Next]_vars => IInv'
BY NextDriver, NextFifo, NextReader, NextUser, NextSample DEF IInv

LEMMA Invariant == Spec => []IInv
BY InitInv, NextInv, PTL DEF Spec

\* The variables keep their types, the latched count and the FIFO stay within
\* its size, and the file is open exactly as long as somebody has it.
THEOREM TypeCorrect == Spec => []TypeOK
<1>1. IInv => TypeOK
  <2> SUFFICES ASSUME IInv PROVE TypeOK
    OBVIOUS
  <2>1. {irregular, beyond, async} \subseteq BOOLEAN
    BY DEF IInv, ReaderInv, ReaderTypes
  <2> QED
    BY <2>1 DEF IInv, DriverInv, FifoInv, ReaderInv, ReaderTypes, UserInv, TypeOK,
                Reader!InUserMode, Buffers, Byte
<1> QED
  BY <1>1, Invariant, PTL

\* driverInit, driverExit, FCCi2cProbe and FCCi2cRemove: a module that is out
\* has left nothing behind, whatever step failed and however often.
THEOREM LeavesNothing == Spec => []NothingLeftBehind
<1>1. IInv => NothingLeftBehind
  BY UnmapsType DEF IInv, DriverInv, Driver!DriverTypeOK, RegisteredInv, ProbeInv,
     NothingLeftBehind
<1> QED
  BY <1>1, Invariant, PTL

\* No interrupt handler without registers; and who opens the device while it
\* is bound keeps registers and handler, and so never uses registers that are
\* not mapped, until it closes the file or the device is unbound through sysfs:
\* neither rmmod nor a step of driverInit or of the probe that fails takes them.
THEOREM KeepsItsRegisters == Spec => []RegistersMapped
<1>1. IInv => RegistersMapped
  BY UnmapsType DEF IInv, DriverInv, Driver!DriverTypeOK, ProbeInv, FileInv,
     RegistersMapped, Driver!Usable, Driver!Blocks
<1> QED
  BY <1>1, Invariant, PTL

\* FCCread and firFilter stay inside the caller's length and inside what the
\* turn has cleared, for all lengths, containers, windows and wrap-arounds.
THEOREM StaysInBounds == Spec => []InBounds
<1>1. IInv => InBounds
  <2> SUFFICES ASSUME IInv PROVE InBounds
    OBVIOUS
  <2>1. len \in Nat /\ i \in Nat
    BY FifoTypes, Sizes DEF IInv, FifoInv
  <2>2. fpc = "burst" => i * Container + Fifo!Samples(len, i) <= len
    BY <2>1, InLength DEF IInv, FifoInv, ContainerInv, Fifo!Reading
  <2> QED
    BY <2>2 DEF IInv, ReaderInv, TurnInv, InBounds
<1> QED
  BY <1>1, Invariant, PTL

\* load_server_config_internal: as many lines as coefficients, that name
\* coefficients of the array and none twice, are one for each, however many
\* there are; fewer or more are replaced by the indices.  What a file with other
\* lines leaves in force is not said: the code does not look at the index.
THEOREM LoadsWholeFiles == Spec => []CoefficientsOfOneLoad
BY Invariant, PTL DEF IInv, ReaderInv

\* FCCread and prodSensorData: what a turn publishes is the first whole sample
\* since the reset, for samples, containers and FIFOs of any size; provided that
\* FIFO_RESET did empty the FIFO, which the driver's comment doubts once FIFO_EN
\* is set, that no transfer failed, and that the FIFO did not overflow.
THEOREM PublishesWhatItMeasured == Spec => []PublishedIsMeasured
<1>1. IInv => PublishedIsMeasured
  BY DEF IInv, SampleInv, PublishedIsMeasured
<1> QED
  BY <1>1, Invariant, PTL
=============================================================================
