-------------------------- MODULE I2CTransferProofs ---------------------------
(***************************************************************************)
(* I2CTransfer proved for any set of processes and any lengths.            *)
(*                                                                         *)
(* In orderly use only one process is past its open (OneUser), and what it *)
(* is doing determines the handler's data and the controller: at rest they *)
(* are as Init left them, and during a transfer the index and the count    *)
(* add up to the length (TransferInv).                                     *)
(***************************************************************************)
EXTENDS I2CTransfer, TLAPS

\* A process has a look left whenever it is about to look.
TriesInv ==
    \A p \in Proc : /\ tries[p] < Looks(op[p])
                    /\ pc[p] \in {"closed", "open"} => tries[p] = 0

\* Short of undefined behaviour an index is a place of some buffer.
IndexInv == ~outside => \A d \in Dir : dataIndex[d] < MaxLen

OneUser ==
    ~shared => \A p, q \in Proc :
                  pc[p] # "closed" /\ pc[q] # "closed" => p = q

\* No transfer is under way: the interrupt is masked, the flag is clear, both
\* indices are back at 0, and the controller has no bytes left.
AtRest ==
    /\ enabled = {}
    /\ wake = 0
    /\ \A d \in Dir : dataIndex[d] = 0
    /\ cnt = 0

\* The bytes of p's transfer up to dataIndex have moved.
Moving(p) ==
    /\ dir = op[p]
    /\ enabled = {op[p]}
    /\ wake = 0
    /\ dataLen[op[p]] = len[p]
    /\ cnt > 0
    /\ dataIndex[op[p]] + cnt = len[p]
    /\ moved[op[p]] = 0 .. dataIndex[op[p]] - 1
    /\ \A d \in Dir \ {op[p]} : dataIndex[d] = 0

\* All of them have.
Moved(p) ==
    /\ enabled = {}
    /\ wake = 1
    /\ cnt = 0
    /\ moved[op[p]] = 0 .. len[p] - 1
    /\ \A d \in Dir : dataIndex[d] = 0

TransferInv ==
    Orderly =>
        /\ ~outside
        /\ (\A p \in Proc : pc[p] \in {"closed", "open", "poll", "start"}) => AtRest
        /\ \A p \in Proc :
              /\ pc[p] = "wait" => busy /\ ~stp /\ (Moving(p) \/ Moved(p))
              /\ pc[p] = "woken" => Moved(p)

IInv ==
    /\ TypeOK
    /\ TriesInv
    /\ IndexInv
    /\ OneUser
    /\ TransferInv

-----------------------------------------------------------------------------
(* Types.                                                                  *)

LEMMA DirTypes == "tx" \in Dir /\ "rx" \in Dir /\ \A d \in Dir : d = "tx" \/ d = "rx"
BY DEF Dir

LEMMA LooksType == \A d \in Dir : Looks(d) \in 1 .. Retries + 1
BY RetriesAssumption DEF Looks

LEMMA InitTypes == Init => TypeOK /\ TriesInv /\ IndexInv
<1> SUFFICES ASSUME Init PROVE TypeOK /\ TriesInv /\ IndexInv
  OBVIOUS
<1> USE DEF Init
<1>1. TypeOK
  <2>1. dataLen \in [Dir -> 0 .. MaxLen] /\ dataIndex \in [Dir -> 0 .. MaxLen]
    BY LenAssumption
  <2>2. len \in [Proc -> 1 .. MaxLen] /\ tries \in [Proc -> 0 .. Retries]
    BY LenAssumption, RetriesAssumption
  <2>3. pc \in [Proc -> PcValues] /\ op \in [Proc -> Dir] /\ dir \in Dir
    BY DirTypes DEF PcValues
  <2>4. cnt \in 0 .. MaxLen /\ wake \in {0, 1} /\ interrupted \in 0 .. MaxSignals
    BY LenAssumption, SignalsAssumption
  <2>5. moved \in [Dir -> SUBSET (0 .. MaxLen)] /\ enabled \subseteq Dir
    OBVIOUS
  <2>6. /\ busy \in BOOLEAN /\ stp \in BOOLEAN /\ outside \in BOOLEAN
        /\ shared \in BOOLEAN
    OBVIOUS
  <2> QED
    BY <2>1, <2>2, <2>3, <2>4, <2>5, <2>6 DEF TypeOK
<1>2. TriesInv
  <2> SUFFICES ASSUME NEW p \in Proc
               PROVE  /\ tries[p] < Looks(op[p])
                      /\ pc[p] \in {"closed", "open"} => tries[p] = 0
    BY DEF TriesInv
  <2>1. tries[p] = 0 /\ op[p] = "tx"
    OBVIOUS
  <2> QED
    BY <2>1, RetriesAssumption DEF Looks
<1>3. IndexInv
  BY LenAssumption DEF IndexInv
<1> QED
  BY <1>1, <1>2, <1>3

\* A byte moves the index to the next place, or back to 0.
LEMMA NextIndexType ==
    ASSUME TypeOK, IndexInv, NEW d \in Dir, ~outside
    PROVE  /\ NextIndex(d) \in 0 .. MaxLen
           /\ dataIndex[d] < dataLen[d] => NextIndex(d) < MaxLen
BY LenAssumption DEF TypeOK, IndexInv, NextIndex, BufferDone

LEMMA ResetTypes ==
    ASSUME TypeOK, ResetController
    PROVE  /\ enabled' \subseteq Dir /\ dir' \in Dir
           /\ cnt' \in 0 .. MaxLen
           /\ busy' \in BOOLEAN /\ stp' \in BOOLEAN
<1>1. cnt' \in 0 .. MaxLen
  BY LenAssumption DEF ResetController
<1> QED
  BY <1>1, DirTypes DEF TypeOK, ResetController

LEMMA NextTypes ==
    TypeOK /\ TriesInv /\ IndexInv /\ [Next]_vars
        => TypeOK' /\ TriesInv' /\ IndexInv'
<1> SUFFICES ASSUME TypeOK, TriesInv, IndexInv, [Next]_vars
             PROVE  TypeOK' /\ TriesInv' /\ IndexInv'
  OBVIOUS
<1> USE DEF TypeOK
<1>1. ASSUME NEW p \in Proc, Open(p) PROVE TypeOK' /\ TriesInv' /\ IndexInv'
  <2>1. TypeOK'
    <3>1. shared' \in BOOLEAN
      BY <1>1, Zenon DEF Open
    <3>2. pc' \in [Proc -> PcValues]
      BY <1>1 DEF Open, Goto, PcValues
    <3>3. UNCHANGED <<dataLen, dataIndex, wake, op, len, tries, moved, outside,
                      interrupted>>
      BY <1>1 DEF Open, dataVars
    <3> QED
      BY <1>1, <3>1, <3>2, <3>3, ResetTypes DEF Open
  <2>2. TriesInv' /\ IndexInv'
    BY <1>1 DEF Open, Goto, dataVars, TriesInv, IndexInv, Looks
  <2> QED
    BY <2>1, <2>2
<1>2. ASSUME NEW p \in Proc, Close(p) PROVE TypeOK' /\ TriesInv' /\ IndexInv'
  <2>1. TypeOK'
    <3>1. pc' \in [Proc -> PcValues]
      BY <1>2 DEF Close, Goto, PcValues
    <3>2. UNCHANGED <<dataLen, dataIndex, wake, op, len, tries, moved, outside,
                      shared, interrupted>>
      BY <1>2 DEF Close, dataVars, historyVars
    <3> QED
      BY <1>2, <3>1, <3>2, ResetTypes DEF Close
  <2>2. TriesInv' /\ IndexInv'
    BY <1>2 DEF Close, Goto, dataVars, historyVars, TriesInv, IndexInv, Looks
  <2> QED
    BY <2>1, <2>2
<1>3. ASSUME NEW p \in Proc, Call(p) PROVE TypeOK' /\ TriesInv' /\ IndexInv'
  <2>1. PICK d \in Dir, n \in 1 .. MaxLen : op' = [op EXCEPT ![p] = d]
                                            /\ len' = [len EXCEPT ![p] = n]
    BY <1>3 DEF Call
  <2>2. TypeOK'
    BY <1>3, <2>1 DEF Call, Goto, dataVars, busVars, historyVars, PcValues
  <2>3. tries[p] = 0 /\ Looks(d) > 0
    BY <1>3, LooksType, RetriesAssumption DEF Call, TriesInv
  <2>4. TriesInv'
    BY <1>3, <2>1, <2>3 DEF Call, Goto, TriesInv, Looks
  <2>5. IndexInv'
    BY <1>3 DEF Call, dataVars, historyVars, IndexInv
  <2> QED
    BY <2>2, <2>4, <2>5
<1>4. ASSUME NEW p \in Proc, Return(p), pc[p] # "closed",
             UNCHANGED <<enabled, dir, cnt, busy, historyVars, dataLen, dataIndex>>,
             wake' \in {0, 1}, stp' \in BOOLEAN
      PROVE TypeOK' /\ TriesInv' /\ IndexInv'
  <2>1. TypeOK'
    BY <1>4, LenAssumption, RetriesAssumption, DirTypes
       DEF Return, Goto, historyVars, PcValues
  <2>2. TriesInv'
    BY <1>4, RetriesAssumption DEF Return, Goto, TriesInv, Looks
  <2>3. IndexInv'
    BY <1>4 DEF IndexInv, historyVars
  <2> QED
    BY <2>1, <2>2, <2>3
<1>5. ASSUME NEW p \in Proc, Poll(p) PROVE TypeOK' /\ TriesInv' /\ IndexInv'
  <2>1. CASE ~SeesBusy
    <3>1. TypeOK'
      BY <1>5, <2>1 DEF Poll, Goto, dataVars, busVars, historyVars, PcValues
    <3>2. TriesInv' /\ IndexInv'
      BY <1>5, <2>1
         DEF Poll, Goto, dataVars, historyVars, TriesInv, IndexInv, Looks
    <3> QED
      BY <3>1, <3>2
  <2>2. CASE SeesBusy /\ TriesAgain(p) # Looks(op[p])
    <3>1. /\ tries' = [tries EXCEPT ![p] = tries[p] + 1]
          /\ UNCHANGED <<pc, op, len, dataVars, busVars, historyVars>>
      BY <1>5, <2>2 DEF Poll, TriesAgain
    <3>2. tries[p] < Looks(op[p]) /\ Looks(op[p]) \in 1 .. Retries + 1
      BY LooksType DEF TriesInv
    <3>3. tries[p] + 1 < Looks(op[p]) /\ tries[p] + 1 \in 0 .. Retries
      BY <2>2, <3>2, RetriesAssumption DEF TriesAgain
    <3>4. TypeOK'
      BY <3>1, <3>3 DEF dataVars, busVars, historyVars
    <3>5. TriesInv'
      BY <1>5, <3>1, <3>3 DEF TriesInv, Looks, Poll
    <3>6. IndexInv'
      BY <3>1 DEF dataVars, historyVars, IndexInv
    <3> QED
      BY <3>4, <3>5, <3>6
  <2>3. CASE SeesBusy /\ TriesAgain(p) = Looks(op[p])
    <3>1. /\ Return(p)
          /\ UNCHANGED <<dataVars, busVars, historyVars>>
      BY <1>5, <2>3 DEF Poll
    <3> QED
      BY <1>4, <1>5, <3>1 DEF Poll, dataVars, busVars
  <2> QED
    BY <2>1, <2>2, <2>3
<1>6. ASSUME NEW p \in Proc, Start(p) PROVE TypeOK' /\ TriesInv' /\ IndexInv'
  <2>1. dataLen' \in [Dir -> 0 .. MaxLen] /\ cnt' \in 0 .. MaxLen
    BY <1>6, LenAssumption DEF Start
  <2>2. moved' \in [Dir -> SUBSET (0 .. MaxLen)] /\ pc' \in [Proc -> PcValues]
    BY <1>6 DEF Start, Goto, PcValues
  <2>3. TypeOK'
    BY <1>6, <2>1, <2>2 DEF Start
  <2>4. TriesInv' /\ IndexInv'
    BY <1>6 DEF Start, Goto, TriesInv, IndexInv, Looks
  <2> QED
    BY <2>3, <2>4
<1>7. ASSUME NEW p \in Proc, Wake(p) PROVE TypeOK' /\ TriesInv' /\ IndexInv'
  <2>1. TypeOK'
    BY <1>7 DEF Wake, Goto, dataVars, busVars, historyVars, PcValues
  <2>2. TriesInv' /\ IndexInv'
    BY <1>7 DEF Wake, Goto, dataVars, historyVars, TriesInv, IndexInv, Looks
  <2> QED
    BY <2>1, <2>2
<1>8. ASSUME NEW p \in Proc, Finish(p) PROVE TypeOK' /\ TriesInv' /\ IndexInv'
  BY <1>4, <1>8 DEF Finish, FlagAfter, AsksForStop
<1>9. ASSUME NEW p \in Proc, NoMemory(p) PROVE TypeOK' /\ TriesInv' /\ IndexInv'
  <2>1. TypeOK'
    <3>1. dataLen' \in [Dir -> 0 .. MaxLen]
      BY <1>9 DEF NoMemory
    <3>2. len' \in [Proc -> 1 .. MaxLen] /\ tries' \in [Proc -> 0 .. Retries]
      BY <1>9, LenAssumption, RetriesAssumption DEF NoMemory, Return
    <3>3. pc' \in [Proc -> PcValues] /\ op' \in [Proc -> Dir]
      BY <1>9, DirTypes DEF NoMemory, Return, Goto, PcValues
    <3> QED
      BY <1>9, <3>1, <3>2, <3>3 DEF NoMemory, busVars, historyVars
  <2>2. TriesInv'
    BY <1>9, RetriesAssumption DEF NoMemory, Return, Goto, TriesInv, Looks
  <2>3. IndexInv'
    BY <1>9 DEF NoMemory, historyVars, IndexInv
  <2> QED
    BY <2>1, <2>2, <2>3
<1>10. ASSUME NEW p \in Proc, Interrupt(p) PROVE TypeOK' /\ TriesInv' /\ IndexInv'
  <2>1. interrupted' \in 0 .. MaxSignals
    BY <1>10, SignalsAssumption DEF Interrupt
  <2>2. TypeOK'
    BY <1>10, <2>1 DEF Interrupt, Goto, dataVars, busVars, PcValues
  <2>3. TriesInv' /\ IndexInv'
    BY <1>10 DEF Interrupt, Goto, dataVars, TriesInv, IndexInv, Looks
  <2> QED
    BY <2>2, <2>3
<1>11. CASE Byte
  <2>1. /\ cnt' \in 0 .. MaxLen
        /\ UNCHANGED <<dataLen, dir, busy, stp, procVars, shared, interrupted>>
    BY <1>11, LenAssumption DEF Byte
  <2>2. TriesInv'
    BY <2>1 DEF procVars, TriesInv, Looks
  <2>3. CASE dir \in enabled
    <3>1. /\ dataIndex' = [dataIndex EXCEPT ![dir] = NextIndex(dir)]
          /\ moved' = [moved EXCEPT ![dir] = @ \cup {dataIndex[dir]}]
          /\ outside' = (outside \/ dataIndex[dir] >= dataLen[dir])
          /\ wake' \in {0, 1} /\ enabled' \subseteq Dir
      BY <1>11, <2>3 DEF Byte, Masked
    <3>2. NextIndex(dir) \in 0 .. MaxLen
      BY <1>11, NextIndexType DEF Byte
    <3>3. /\ dataIndex' \in [Dir -> 0 .. MaxLen]
          /\ moved' \in [Dir -> SUBSET (0 .. MaxLen)]
      BY <3>1, <3>2
    <3>4. TypeOK'
      BY <2>1, <3>1, <3>3 DEF procVars
    <3>5. IndexInv'
      <4>1. ~outside' => NextIndex(dir) < MaxLen
        <5>1. ~outside' => ~(dataIndex[dir] >= dataLen[dir])
          BY <3>1, Zenon
        <5> QED
          BY <1>11, <5>1, NextIndexType DEF Byte
      <4> QED
        BY <1>11, <3>1, <4>1 DEF IndexInv, Byte
    <3> QED
      BY <2>2, <3>4, <3>5
  <2>4. CASE dir \notin enabled
    BY <1>11, <2>1, <2>2, <2>4 DEF Byte, procVars, IndexInv
  <2> QED
    BY <2>3, <2>4
<1>12. CASE Stop
  BY <1>12 DEF Stop, dataVars, procVars, historyVars, TriesInv, IndexInv, Looks
<1>13. CASE UNCHANGED vars
  BY <1>13 DEF vars, dataVars, busVars, procVars, historyVars, TriesInv, IndexInv, Looks
<1> QED
  BY <1>1, <1>2, <1>3, <1>5, <1>6, <1>7, <1>8, <1>9, <1>10, <1>11, <1>12, <1>13
     DEF Next, Transfer

-----------------------------------------------------------------------------
(* One user at a time.                                                     *)

LEMMA NextOneUser == TypeOK /\ OneUser /\ [Next]_vars => OneUser'
<1> SUFFICES ASSUME TypeOK, OneUser, [Next]_vars PROVE OneUser'
  OBVIOUS
<1> USE DEF TypeOK, OneUser
<1>1. ASSUME NEW p \in Proc, Open(p) PROVE OneUser'
  <2>1. pc' = [pc EXCEPT ![p] = "open"]
    BY <1>1 DEF Open, Goto
  <2>2. ~shared' => ~shared /\ \A q \in Proc \ {p} : pc[q] = "closed"
    BY <1>1, Zenon DEF Open
  <2> QED
    BY <2>1, <2>2
\* No other action opens the device, or changes shared.
<1>2. ASSUME shared' = shared,
             \A p \in Proc : pc'[p] # "closed" => pc[p] # "closed"
      PROVE  OneUser'
  BY <1>2
<1>3. ASSUME NEW p \in Proc, pc[p] # "closed", NEW where, Goto(p, where),
             shared' = shared
      PROVE  OneUser'
  BY <1>2, <1>3 DEF Goto
<1>4. ASSUME NEW p \in Proc, Close(p) PROVE OneUser'
  BY <1>3, <1>4 DEF Close, historyVars
<1>5. ASSUME NEW p \in Proc, Call(p) PROVE OneUser'
  BY <1>3, <1>5 DEF Call, historyVars
<1>6. ASSUME NEW p \in Proc, Poll(p) PROVE OneUser'
  <2>1. shared' = shared /\ pc[p] = "poll"
    BY <1>6 DEF Poll, historyVars
  <2>2. CASE UNCHANGED pc
    BY <1>2, <2>1, <2>2
  <2>3. CASE ~UNCHANGED pc
    <3>1. Goto(p, "start") \/ Goto(p, "open")
      BY <1>6, <2>3 DEF Poll, Return
    <3> QED
      BY <1>3, <2>1, <3>1
  <2> QED
    BY <2>2, <2>3
<1>7. ASSUME NEW p \in Proc, Start(p) PROVE OneUser'
  BY <1>3, <1>7 DEF Start
<1>8. ASSUME NEW p \in Proc, Wake(p) PROVE OneUser'
  BY <1>3, <1>8 DEF Wake, historyVars
<1>9. ASSUME NEW p \in Proc, Finish(p) PROVE OneUser'
  BY <1>3, <1>9 DEF Finish, Return, historyVars
<1>10. ASSUME NEW p \in Proc, NoMemory(p) PROVE OneUser'
  BY <1>3, <1>10 DEF NoMemory, Return, historyVars
<1>11. ASSUME NEW p \in Proc, Interrupt(p) PROVE OneUser'
  BY <1>3, <1>11 DEF Interrupt
<1>12. CASE Byte \/ Stop \/ UNCHANGED vars
  BY <1>2, <1>12 DEF Byte, Stop, vars, procVars, historyVars
<1> QED
  BY <1>1, <1>4, <1>5, <1>6, <1>7, <1>8, <1>9, <1>10, <1>11, <1>12
     DEF Next, Transfer

-----------------------------------------------------------------------------
(* The transfer in progress.                                               *)

LEMMA InitTransfer == Init => OneUser /\ TransferInv
BY DEF Init, OneUser, TransferInv, AtRest, Orderly

\* A process at work is alone, so it alone says what the bus is doing.
LEMMA Alone ==
    ASSUME TypeOK, OneUser, Orderly, NEW p \in Proc, pc[p] # "closed"
    PROVE  \A q \in Proc \ {p} : pc[q] = "closed"
BY DEF OneUser, Orderly

\* It is enough to look at the process p that has moved: all others are
\* closed before and after.
LEMMA OthersClosed ==
    ASSUME TypeOK, NEW p \in Proc, NEW where \in PcValues, Goto(p, where),
           \A q \in Proc \ {p} : pc[q] = "closed",
           ~outside',
           where \in {"closed", "open", "poll", "start"} => AtRest',
           where = "wait" => busy' /\ ~stp' /\ (Moving(p)' \/ Moved(p)'),
           where = "woken" => Moved(p)'
    PROVE  TransferInv'
<1>1. /\ pc'[p] = where
      /\ \A q \in Proc \ {p} : pc'[q] = "closed"
  BY DEF Goto, TypeOK
<1>2. (\A q \in Proc : pc'[q] \in {"closed", "open", "poll", "start"}) => AtRest'
  BY <1>1
<1>3. ASSUME NEW q \in Proc
      PROVE  /\ pc'[q] = "wait" => busy' /\ ~stp' /\ (Moving(q)' \/ Moved(q)')
             /\ pc'[q] = "woken" => Moved(q)'
  <2>1. CASE q = p
    BY <1>1, <2>1
  <2>2. CASE q # p
    BY <1>1, <2>2
  <2> QED
    BY <2>1, <2>2
<1> QED
  BY <1>2, <1>3 DEF TransferInv

LEMMA NextTransfer ==
    TypeOK /\ OneUser /\ TransferInv /\ [Next]_vars => TransferInv'
<1> SUFFICES ASSUME TypeOK, OneUser, TransferInv, [Next]_vars, Orderly'
             PROVE  TransferInv'
  BY DEF TransferInv
<1>0. OneUser'
  BY NextOneUser
<1>1. ASSUME NEW p \in Proc, Open(p) PROVE TransferInv'
  <2>1. Orderly /\ \A q \in Proc : pc[q] = "closed"
    <3>1. ~shared /\ ~\E q \in Proc \ {p} : pc[q] # "closed"
      BY <1>1, Zenon DEF Open, Orderly
    <3>2. interrupted = 0 /\ pc[p] = "closed"
      BY <1>1 DEF Open, Orderly
    <3> QED
      BY <3>1, <3>2 DEF Orderly
  <2>2. AtRest /\ ~outside
    BY <2>1 DEF TransferInv
  <2>3. AtRest' /\ ~outside'
    BY <1>1, <2>2 DEF Open, ResetController, dataVars, AtRest
  <2> QED
    BY <1>1, <2>1, <2>3, OthersClosed DEF Open, PcValues
<1>2. ASSUME NEW p \in Proc, Close(p) PROVE TransferInv'
  <2>1. Orderly /\ \A q \in Proc \ {p} : pc[q] = "closed"
    BY <1>2, Alone DEF Close, historyVars, Orderly
  <2>2. AtRest /\ ~outside
    BY <1>2, <2>1 DEF TransferInv, Close
  <2>3. AtRest' /\ ~outside'
    BY <1>2, <2>2 DEF Close, ResetController, dataVars, historyVars, AtRest
  <2> QED
    BY <1>2, <2>1, <2>3, OthersClosed DEF Close, PcValues
\* A step of p that stays between two transfers.
<1>3. ASSUME NEW p \in Proc, NEW where \in {"open", "poll", "start"},
             pc[p] \in {"open", "poll", "start"}, Goto(p, where),
             UNCHANGED <<dataIndex, wake, busVars, historyVars>>
      PROVE  TransferInv'
  <2>1. Orderly /\ \A q \in Proc \ {p} : pc[q] = "closed"
    BY <1>3, Alone DEF historyVars, Orderly
  <2>2. AtRest /\ ~outside
    BY <1>3, <2>1 DEF TransferInv
  <2>3. AtRest' /\ ~outside'
    BY <1>3, <2>2 DEF busVars, historyVars, AtRest
  <2> QED
    BY <1>3, <2>1, <2>3, OthersClosed DEF PcValues
<1>4. ASSUME NEW p \in Proc, Call(p) PROVE TransferInv'
  BY <1>3, <1>4 DEF Call, dataVars
<1>5. ASSUME NEW p \in Proc, Poll(p) PROVE TransferInv'
  <2>1. \E where \in {"open", "poll", "start"} : Goto(p, where)
    BY <1>5 DEF Poll, Return, Goto, TypeOK
  <2> QED
    BY <1>3, <1>5, <2>1 DEF Poll, dataVars
<1>6. ASSUME NEW p \in Proc, Start(p) PROVE TransferInv'
  <2>1. Orderly /\ \A q \in Proc \ {p} : pc[q] = "closed"
    BY <1>6, Alone DEF Start, Orderly
  <2>2. AtRest /\ ~outside
    BY <1>6, <2>1 DEF TransferInv, Start
  <2>3. op[p] \in Dir /\ len[p] \in 1 .. MaxLen
    BY DEF TypeOK
  <2>4. /\ dataIndex' = dataIndex /\ wake' = 0 /\ op' = op /\ len' = len
        /\ dataLen'[op[p]] = len[p] /\ moved'[op[p]] = {}
        /\ dir' = op[p] /\ enabled' = {op[p]} /\ cnt' = len[p]
    BY <1>6, <2>2, <2>3 DEF Start, TypeOK, AtRest
  <2>5. Moving(p)'
    BY <2>2, <2>3, <2>4, LenAssumption DEF Moving, AtRest
  <2>6. ~outside' /\ busy' /\ ~stp'
    BY <1>6, <2>2 DEF Start
  <2> QED
    BY <1>6, <2>1, <2>5, <2>6, OthersClosed DEF Start, PcValues
<1>7. ASSUME NEW p \in Proc, Wake(p) PROVE TransferInv'
  <2>1. Orderly /\ \A q \in Proc \ {p} : pc[q] = "closed"
    BY <1>7, Alone DEF Wake, historyVars, Orderly
  <2>2. ~outside /\ (Moving(p) \/ Moved(p))
    BY <1>7, <2>1 DEF TransferInv, Wake
  <2>3. Moved(p)
    BY <1>7, <2>2 DEF Wake, Moving
  <2>4. Moved(p)' /\ ~outside'
    BY <1>7, <2>2, <2>3 DEF Wake, Moved, dataVars, busVars, historyVars
  <2> QED
    BY <1>7, <2>1, <2>4, OthersClosed DEF Wake, PcValues
<1>8. ASSUME NEW p \in Proc, Finish(p) PROVE TransferInv'
  <2>1. Orderly /\ \A q \in Proc \ {p} : pc[q] = "closed"
    BY <1>8, Alone DEF Finish, historyVars, Orderly
  <2>2. Moved(p) /\ ~outside
    BY <1>8, <2>1 DEF TransferInv, Finish
  <2>3. AtRest' /\ ~outside'
    BY <1>8, <2>2 DEF Finish, FlagAfter, Moved, AtRest, historyVars
  <2> QED
    BY <1>8, <2>1, <2>3, OthersClosed DEF Finish, Return, PcValues
<1>9. ASSUME NEW p \in Proc, NoMemory(p) PROVE TransferInv'
  BY <1>3, <1>9 DEF NoMemory, Return
<1>10. ASSUME NEW p \in Proc, Interrupt(p) PROVE TransferInv'
  BY <1>10, SignalsAssumption DEF Interrupt, Orderly, TypeOK
<1>11. CASE Byte
  <2>1. Orderly /\ UNCHANGED <<dataLen, dir, busy, stp, pc, op, len>>
    BY <1>11 DEF Byte, procVars, Orderly
  <2>2. ~outside /\ cnt > 0 /\ cnt' = cnt - 1
    BY <1>11 DEF Byte
  \* The bus only moves for a process that waits.
  <2>3. PICK p \in Proc : pc[p] \notin {"closed", "open", "poll", "start"}
    BY <2>1, <2>2 DEF TransferInv, AtRest
  <2>4. pc[p] = "wait" /\ Moving(p) /\ busy /\ ~stp
    <3>1. pc[p] \in {"wait", "woken"}
      BY <2>1, <2>3 DEF TransferInv, TypeOK, PcValues
    <3>2. ~Moved(p)
      BY <2>2 DEF Moved
    <3> QED
      BY <2>1, <3>1, <3>2 DEF TransferInv
  <2>5. \A q \in Proc \ {p} : pc[q] = "closed"
    BY <2>1, <2>3, Alone
  <2> DEFINE d == op[p]
             n == dataIndex[d]
  <2>6. d \in Dir /\ n \in 0 .. MaxLen /\ len[p] \in 1 .. MaxLen /\ cnt \in 1 .. MaxLen
    BY <2>2 DEF TypeOK
  <2>7. /\ dir = d /\ enabled = {d} /\ wake = 0 /\ dataLen[d] = len[p]
        /\ n + cnt = len[p] /\ moved[d] = 0 .. n - 1
        /\ \A e \in Dir \ {d} : dataIndex[e] = 0
    BY <2>4 DEF Moving
  <2>8. /\ dataIndex' = [dataIndex EXCEPT ![d] = NextIndex(d)]
        /\ moved' = [moved EXCEPT ![d] = @ \cup {n}]
        /\ outside' = (outside \/ n >= dataLen[d])
        /\ IF BufferDone(n + 1, d)
           THEN wake' = 1 /\ enabled' = Masked(d)
           ELSE UNCHANGED <<wake, enabled>>
    BY <1>11, <2>7 DEF Byte
  <2>9. ~outside'
    <3>1. ~(n >= dataLen[d])
      BY <2>6, <2>7
    <3> QED
      BY <2>2, <2>8, <3>1, Zenon
  <2>10. moved'[d] = 0 .. n
    <3>1. moved'[d] = (0 .. n - 1) \cup {n}
      BY <2>6, <2>7, <2>8 DEF TypeOK
    <3> QED
      BY <2>6, <3>1
  <2>11. /\ dataIndex'[d] = NextIndex(d)
         /\ \A e \in Dir \ {d} : dataIndex'[e] = 0
    BY <2>6, <2>7, <2>8 DEF TypeOK
  <2>12. Moving(p)' \/ Moved(p)'
    <3>1. CASE n + 1 = len[p]
      <4>1. BufferDone(n + 1, d)
        BY <2>7, <3>1 DEF BufferDone
      <4>2. NextIndex(d) = 0 /\ wake' = 1 /\ enabled' = {}
        BY <2>7, <2>8, <4>1 DEF NextIndex, Masked
      <4>3. cnt' = 0 /\ moved'[d] = 0 .. len[p] - 1
        BY <2>2, <2>6, <2>7, <2>10, <3>1
      <4>4. \A e \in Dir : dataIndex'[e] = 0
        BY <2>11, <4>2
      <4> QED
        BY <2>1, <4>2, <4>3, <4>4 DEF Moved
    <3>2. CASE n + 1 # len[p]
      <4>1. ~BufferDone(n + 1, d)
        BY <2>7, <3>2 DEF BufferDone
      <4>2. NextIndex(d) = n + 1 /\ wake' = 0 /\ enabled' = {d}
        BY <2>7, <2>8, <4>1 DEF NextIndex
      <4>3. cnt' > 0 /\ n + 1 + cnt' = len[p] /\ moved'[d] = 0 .. (n + 1) - 1
        BY <2>2, <2>6, <2>7, <2>10, <3>2
      <4> QED
        BY <2>1, <2>7, <2>11, <4>2, <4>3 DEF Moving
    <3> QED
      BY <3>1, <3>2
  <2>13. Goto(p, "wait")
    BY <2>1, <2>4 DEF Goto, TypeOK
  <2> QED
    BY <2>1, <2>4, <2>5, <2>9, <2>12, <2>13, OthersClosed DEF PcValues
<1>12. CASE Stop
  <2>1. /\ Orderly /\ stp
        /\ UNCHANGED <<dataLen, dataIndex, wake, enabled, dir, cnt, pc, op, len,
                       moved, outside>>
    BY <1>12 DEF Stop, dataVars, procVars, historyVars, Orderly
  <2>2. \A p \in Proc : pc[p] # "wait"
    BY <2>1 DEF TransferInv
  <2> QED
    BY <2>1, <2>2 DEF TransferInv, AtRest, Moved
<1>13. CASE UNCHANGED vars
  BY <1>13
     DEF vars, dataVars, busVars, procVars, historyVars, TransferInv, AtRest,
         Moving, Moved, Orderly
<1> QED
  BY <1>1, <1>2, <1>4, <1>5, <1>6, <1>7, <1>8, <1>9, <1>10, <1>11, <1>12, <1>13
     DEF Next, Transfer

-----------------------------------------------------------------------------
(* The theorems.                                                           *)

LEMMA InvHolds == Spec => []IInv
<1>1. Init => IInv
  BY InitTypes, InitTransfer DEF IInv
<1>2. IInv /\ [Next]_vars => IInv'
  BY NextTypes, NextOneUser, NextTransfer DEF IInv
<1> QED
  BY <1>1, <1>2, PTL DEF Spec

\* The variables keep their types: the indices stay within the longest buffer
\* until a place outside one has been used, and no process looks at the bus
\* once more than its retries allow (td3_i2c_fcc.c:376-387, 464-476).
THEOREM TypeCorrect == Spec => []TypeOK
BY InvHolds, PTL DEF IInv

\* A process that sees I2CWakeUpCondition in orderly use finds its own bytes
\* moved, all of them and each in its place (td3_i2c_fcc.c:435, 531).
THEOREM WakesWithItsBytes == Spec => []WokenMeansMoved
<1>1. IInv => WokenMeansMoved
  BY DEF IInv, TransferInv, Moved, WokenMeansMoved
<1> QED
  BY <1>1, InvHolds, PTL

\* In orderly use the interrupt is enabled for the buffer of a process that is
\* asleep on it, never for one that has been freed (td3_i2c_fcc.c:168-229).
THEOREM HandlerNeverAlone == Spec => []HandlerHasBuffer
<1>1. IInv => HandlerHasBuffer
  <2> SUFFICES ASSUME IInv, Orderly, NEW d \in enabled
               PROVE  \E p \in Proc : pc[p] = "wait" /\ op[p] = d
    BY DEF HandlerHasBuffer
  <2>1. PICK p \in Proc : pc[p] \notin {"closed", "open", "poll", "start"}
    BY DEF IInv, TransferInv, AtRest
  <2>2. pc[p] \in {"wait", "woken"} /\ ~Moved(p)
    BY <2>1 DEF IInv, TransferInv, TypeOK, PcValues, Moved
  <2>3. pc[p] = "wait" /\ Moving(p)
    BY <2>2 DEF IInv, TransferInv
  <2> QED
    BY <2>3 DEF Moving
<1> QED
  BY <1>1, InvHolds, PTL

\* The converse of the violation InsideBuffer: the handler leaves its buffer
\* only after two processes have shared the device or a signal has ended the
\* sleep of a read (td3_i2c_fcc.c:210).
THEOREM OrderlyStaysInside == Spec => [](Orderly => InsideBuffer)
<1>1. IInv => (Orderly => InsideBuffer)
  BY DEF IInv, TransferInv, InsideBuffer
<1> QED
  BY <1>1, InvHolds, PTL
=============================================================================
