---------------------------- MODULE ServerProofs ----------------------------
(***************************************************************************)
(* Server proved for any number of forks and any max_simultaneous_clients. *)
(*                                                                         *)
(* ServingLimit is not inductive: a process past the look at client_count  *)
(* is about to add a client whatever the others do.  LimitInv counts those *)
(* processes too, and to keep it in Check one needs that client_count      *)
(* covers the children (CountInv) and that who owes an increment or is     *)
(* past the look is the server or a child that the count already covers.   *)
(***************************************************************************)
EXTENDS Server, FiniteSetTheorems, TLAPS

Forking == {p \in Acceptor : pc[p] = "fork"}

\* Children that take part in accepting.
Accepting == {c \in Child : pc[c] \in AcceptorPc}

RootInv == parent[Server] = Server

\* Who owes an increment, as long as the semaphore is there.
OwingInv ==
    ~removed =>
        /\ \A p \in Acceptor : pc[p] = "count" => p \in owing
        /\ \A p \in owing : \/ pc[p] \in {"count", "interrupted"}
                            \/ p = Server /\ pc[p] = "gone"

CountInv ==
    ~removed /\ ~driverReaped =>
        Cardinality(Counted) <= count + Cardinality(owing)

LimitInv ==
    ~driverReaped => Cardinality(Serving) + Cardinality(Forking) <= MaxClients

IInv == TypeOK /\ RootInv /\ OwingInv /\ CountInv /\ LimitInv

AllPc == ServerPc \cup ChildPc \cup ProducerPc

-----------------------------------------------------------------------------
LEMMA ProcType ==
    /\ Server \in Proc /\ Producer \in Proc /\ Server \in Acceptor
    /\ \A p \in Acceptor : p \in Proc /\ p # Producer
    /\ \A c \in Child : c \in Proc /\ c \in Acceptor /\ c # Server /\ c # Producer
    /\ \A p \in Proc : p = Server \/ p = Producer \/ p \in Child
BY ProcessAssumption DEF Proc, Acceptor

LEMMA Finite ==
    ASSUME TypeOK
    PROVE  /\ IsFiniteSet(Acceptor) /\ IsFiniteSet(Counted) /\ IsFiniteSet(owing)
           /\ IsFiniteSet(Serving) /\ IsFiniteSet(Forking) /\ IsFiniteSet(Accepting)
           /\ Cardinality(Counted) \in Nat /\ Cardinality(owing) \in Nat
           /\ Cardinality(Serving) \in Nat /\ Cardinality(Forking) \in Nat
           /\ Cardinality(Accepting) \in Nat
<1>1. IsFiniteSet(Child) /\ IsFiniteSet(Acceptor)
  BY ProcessAssumption, FS_AddElement DEF Acceptor
<1>2. /\ Counted \subseteq Child /\ Serving \subseteq Child /\ Accepting \subseteq Child
      /\ owing \subseteq Acceptor /\ Forking \subseteq Acceptor
  BY DEF TypeOK, Counted, Serving, Accepting, Forking
<1>3. /\ IsFiniteSet(Counted) /\ IsFiniteSet(owing) /\ IsFiniteSet(Serving)
      /\ IsFiniteSet(Forking) /\ IsFiniteSet(Accepting)
  BY <1>1, <1>2, FS_Subset
<1> QED
  BY <1>1, <1>3, FS_CardinalityType

-----------------------------------------------------------------------------
(* Typing.                                                                 *)

\* What a death does to pc.
LEMMA DeathPc ==
    ASSUME TypeOK, RootInv, NEW dead \in SUBSET Proc, \A q \in dead : Alive(q)
    PROVE  /\ PcAfterDeath(dead) \in [Proc -> AllPc]
           /\ PcAfterDeath(dead)[Server] \in ServerPc
           /\ PcAfterDeath(dead)[Producer] \in ProducerPc
           /\ \A c \in Child : PcAfterDeath(dead)[c] \in ChildPc
           /\ \A q \in Proc : \/ PcAfterDeath(dead)[q] = pc[q] /\ q \notin dead
                              \/ /\ q \in dead
                                 /\ PcAfterDeath(dead)[q] \in DeadPc
                              \/ /\ pc[q] = "zombie"
                                 /\ PcAfterDeath(dead)[q] = "gone"
<1> DEFINE f == PcAfterDeath(dead)
<1>1. \A q \in Proc : \/ f[q] = pc[q] /\ q \notin dead
                      \/ q \in dead /\ f[q] \in DeadPc
                      \/ pc[q] = "zombie" /\ f[q] = "gone"
  BY DEF PcAfterDeath, DeadPc
<1>2. Server \in dead => f[Server] = "gone"
  BY ProcType DEF PcAfterDeath, RootInv
<1>3. f[Server] \in ServerPc
  BY <1>1, <1>2, ProcType DEF TypeOK, ServerPc
<1>4. f[Producer] \in ProducerPc
  BY <1>1, ProcType DEF TypeOK, ProducerPc, DeadPc
<1>5. \A c \in Child : f[c] \in ChildPc
  BY <1>1, ProcType DEF TypeOK, ChildPc, DeadPc
<1>6. f \in [Proc -> AllPc]
  <2>1. f = [q \in Proc |-> f[q]]
    BY DEF PcAfterDeath
  <2>2. \A q \in Proc : f[q] \in AllPc
    BY <1>3, <1>4, <1>5, ProcType DEF AllPc
  <2> QED
    BY <2>1, <2>2
<1> QED
  BY <1>1, <1>3, <1>4, <1>5, <1>6

LEMMA ExitType ==
    ASSUME TypeOK, RootInv, NEW p \in Proc, Alive(p), MyExit(p) \/ Dies(p)
    PROVE  TypeOK' /\ RootInv'
<1> DEFINE dead == IF MyExit(p) THEN Casualties(p) \cup {p} ELSE {p}
<1>1. dead \in SUBSET Proc /\ \A q \in dead : Alive(q)
  BY ProcType DEF Casualties
<1>2. pc' = PcAfterDeath(dead)
  BY DEF MyExit, Dies
<1>3. UNCHANGED <<mode, parent, count, ignoring, owing, driverReaped>>
  BY DEF MyExit, Dies
<1>4. removed' \in BOOLEAN /\ listening' \in BOOLEAN
  BY DEF MyExit, Dies, TypeOK
<1> QED
  BY <1>1, <1>2, <1>3, <1>4, DeathPc DEF TypeOK, RootInv, AllPc

LEMMA MoveType ==
    ASSUME TypeOK, RootInv, NEW p \in Proc, NEW where, Moves(p, where),
           where \in AllPc,
           p = Server => where \in ServerPc,
           p = Producer => where \in ProducerPc,
           p \in Child => where \in ChildPc
    PROVE  TypeOK' /\ RootInv'
BY ProcType DEF Moves, Goto, TypeOK, RootInv, AllPc

\* Steps that end a process, or only move one.
Exits ==
    \E p \in Proc :
        /\ Alive(p)
        /\ MyExit(p) \/ (Dies(p) /\ (p \in Child => pc[p] \in ServingPc))

MovesTo(p) ==
    \E where \in AllPc :
        /\ Moves(p, where)
        /\ p = Server => where \in ServerPc
        /\ p = Producer => where \in ProducerPc
        /\ p \in Child => where \in ChildPc
        /\ where \in ServingPc => pc[p] \in ServingPc
        /\ where = "fork" => pc[p] = "check" /\ HasRoom /\ ~removed
        /\ where # "count"
        /\ pc[p] \notin {"count", "interrupted", "unborn"} \cup DeadPc

\* The steps that are neither of the two.
OtherSteps ==
    \/ pc[Server] = "setup" /\ pc' = [pc EXCEPT ![Server] = "dispose",
                                               ![Producer] = "start"]
       /\ UNCHANGED <<mode, parent, count, removed, listening, ignoring, owing,
                      driverReaped>>
    \/ Dispose
    \/ \E p \in Acceptor : Fork(p) \/ Count(p) \/ Reap(p) \/ Sigint(p)

\* Every step is one of them.
LEMMA StepKinds ==
    ASSUME TypeOK, Next
    PROVE  Exits \/ (\E p \in Proc : MovesTo(p)) \/ OtherSteps
<1> USE DEF Exits, OtherSteps, Alive, DeadPc, ServingPc
<1>1. CASE ForkProducer
  BY <1>1, ProcType DEF ForkProducer
<1>2. CASE Dispose
  BY <1>2
<1>3. CASE ProducerStarts
  BY <1>3, ProcType
  DEF ProducerStarts, MovesTo, AllPc, ProducerPc, ServingPc
<1>4. CASE ProducerStops \/ ProducerKilled
  BY <1>4, ProcType DEF ProducerStops, ProducerKilled
<1>5. ASSUME NEW p \in Acceptor, Accept(p) \/ Reject(p)
      PROVE  \E q \in Proc : MovesTo(q)
  BY <1>5, ProcType
  DEF Accept, Reject, MovesTo, AllPc, ServerPc, ChildPc, AcceptorPc, ServingPc
<1>6. ASSUME NEW p \in Acceptor, AcceptFails(p) \/ Interrupted(p) PROVE Exits
  BY <1>6, ProcType DEF AcceptFails, Interrupted
<1>7. ASSUME NEW p \in Acceptor, Check(p)
      PROVE  Exits \/ \E q \in Proc : MovesTo(q)
  BY <1>7, ProcType
  DEF Check, MovesTo, AllPc, ServerPc, ChildPc, AcceptorPc, ServingPc
<1>8. ASSUME NEW p \in Acceptor, Report(p)
      PROVE  Exits \/ \E q \in Proc : MovesTo(q)
  BY <1>8, ProcType
  DEF Report, MovesTo, AllPc, ServerPc, ChildPc, AcceptorPc, ServingPc
<1>9. ASSUME NEW c \in Child, Handshake(c) \/ Send(c) \/ Unblock(c)
      PROVE  Exits \/ \E q \in Proc : MovesTo(q)
  BY <1>9, ProcType
  DEF Handshake, Send, Unblock, MovesTo, AllPc, ServerPc, ChildPc, AcceptorPc, ServingPc
<1>10. CASE Sigusr2
  BY <1>10, ProcType DEF Sigusr2
<1> QED
  BY <1>1, <1>2, <1>3, <1>4, <1>5, <1>6, <1>7, <1>8, <1>9, <1>10 DEF Next, Runs

LEMMA FreePidType ==
    ASSUME \E c \in Child : pc[c] = "unborn"
    PROVE  FreePid \in Child /\ pc[FreePid] = "unborn"
BY DEF FreePid

LEMMA OtherType ==
    ASSUME TypeOK, RootInv, OtherSteps PROVE TypeOK' /\ RootInv'
<1>1. CASE /\ pc' = [pc EXCEPT ![Server] = "dispose", ![Producer] = "start"]
           /\ UNCHANGED <<mode, parent, count, removed, listening, ignoring, owing,
                          driverReaped>>
  BY <1>1, ProcType DEF TypeOK, RootInv, ServerPc, ProducerPc
<1>2. CASE Dispose
  BY <1>2, ProcType DEF Dispose, Goto, TypeOK, RootInv, ServerPc, AcceptorPc
<1>3. ASSUME NEW p \in Acceptor, Fork(p) PROVE TypeOK' /\ RootInv'
  <2>1. CASE MyExit(p)
    BY <1>3, <2>1, ExitType, ProcType DEF Fork, Alive, DeadPc
  <2>2. CASE ~MyExit(p)
    <3>1. FreePid \in Child
      BY <1>3, <2>2, FreePidType DEF Fork
    <3>2. /\ pc' = [pc EXCEPT ![p] = "count", ![FreePid] = "shake"]
          /\ parent' = [parent EXCEPT ![FreePid] = p]
          /\ owing' = owing \cup {p}
          /\ UNCHANGED <<mode, count, removed, listening, ignoring, driverReaped>>
      BY <1>3, <2>2 DEF Fork, Forked
    <3> QED
      BY <3>1, <3>2, ProcType
      DEF TypeOK, RootInv, ServerPc, ChildPc, AcceptorPc, ServingPc
  <2> QED
    BY <2>1, <2>2
<1>4. ASSUME NEW p \in Acceptor, Count(p) PROVE TypeOK' /\ RootInv'
  <2>1. CASE MyExit(p)
    BY <1>4, <2>1, ExitType, ProcType DEF Count, Alive, DeadPc
  <2>2. CASE ~MyExit(p)
    BY <1>4, <2>2, ProcType
    DEF Count, Incremented, Goto, TypeOK, RootInv, ServerPc, ChildPc, AcceptorPc
  <2> QED
    BY <2>1, <2>2
<1>5. ASSUME NEW p \in Acceptor, Reap(p) PROVE TypeOK' /\ RootInv'
  <2>1. CASE MyExit(p)
    BY <1>5, <2>1, ExitType, ProcType DEF Reap
  <2>2. CASE ~MyExit(p)
    <3>1. PICK z \in Zombies : /\ count' = count - 1
                               /\ pc' = [pc EXCEPT ![z] = "gone"]
                               /\ driverReaped' = (driverReaped \/ z = Producer)
      BY <1>5, <2>2 DEF Reap, Goto
    <3>2. UNCHANGED <<mode, parent, removed, listening, ignoring, owing>>
      BY <1>5, <2>2 DEF Reap
    <3>3. driverReaped' \in BOOLEAN
      BY <3>1, Zenon
    <3> QED
      BY <3>1, <3>2, <3>3, ProcType
      DEF TypeOK, RootInv, Zombies, ServerPc, ChildPc, ProducerPc, DeadPc
  <2> QED
    BY <2>1, <2>2
<1>6. ASSUME NEW p \in Acceptor, Sigint(p) PROVE TypeOK' /\ RootInv'
  <2> DEFINE known == IF mode = 1 /\ ignoring /\ Alive(Producer) THEN {Producer} ELSE {}
  <2>1. known \in SUBSET Proc /\ \A q \in known : Alive(q)
    BY ProcType
  <2>2. pc' = [PcAfterDeath(known) EXCEPT ![p] = "interrupted"]
    BY <1>6 DEF Sigint
  <2>3. UNCHANGED <<mode, parent, count, removed, listening, ignoring, owing,
                    driverReaped>>
    BY <1>6 DEF Sigint
  <2> HIDE DEF known
  <2> QED
    BY <2>1, <2>2, <2>3, DeathPc, ProcType
    DEF TypeOK, RootInv, AllPc, ServerPc, ChildPc, AcceptorPc
<1> QED
  BY <1>1, <1>2, <1>3, <1>4, <1>5, <1>6 DEF OtherSteps

LEMMA NextTypeOK == TypeOK /\ RootInv /\ [Next]_vars => TypeOK' /\ RootInv'
<1> SUFFICES ASSUME TypeOK, RootInv, [Next]_vars PROVE TypeOK' /\ RootInv'
  OBVIOUS
<1>1. CASE Exits
  BY <1>1, ExitType DEF Exits
<1>2. CASE \E p \in Proc : MovesTo(p)
  BY <1>2, MoveType DEF MovesTo
<1>3. CASE OtherSteps
  BY <1>3, OtherType
<1>4. CASE UNCHANGED vars
  BY <1>4 DEF vars, TypeOK, RootInv
<1> QED
  BY <1>1, <1>2, <1>3, <1>4, StepKinds

-----------------------------------------------------------------------------
(* Counting.                                                               *)

\* A step that adds no child, serves nobody more and lets nobody past the look
\* at the count.
LEMMA NoGrowth ==
    ASSUME TypeOK, TypeOK', CountInv, LimitInv,
           UNCHANGED <<count, owing, driverReaped>>,
           removed => removed',
           \A c \in Child : /\ pc'[c] \notin {"unborn", "gone"}
                                  => pc[c] \notin {"unborn", "gone"}
                            /\ pc'[c] \in ServingPc => pc[c] \in ServingPc,
           \A p \in Acceptor : pc'[p] = "fork" => pc[p] = "fork"
    PROVE  CountInv' /\ LimitInv'
<1>1. /\ Counted' \subseteq Counted /\ Serving' \subseteq Serving
      /\ Forking' \subseteq Forking
  BY DEF Counted, Serving, Forking
<1>2. /\ Cardinality(Counted') <= Cardinality(Counted) /\ Cardinality(Counted') \in Nat
      /\ Cardinality(Serving') <= Cardinality(Serving) /\ Cardinality(Serving') \in Nat
      /\ Cardinality(Forking') <= Cardinality(Forking) /\ Cardinality(Forking') \in Nat
  BY <1>1, Finite, FS_Subset, FS_CardinalityType
<1>3. CountInv'
  BY <1>2, Finite DEF CountInv, TypeOK
<1>4. LimitInv'
  BY <1>2, Finite, MaxClientsAssumption DEF LimitInv
<1> QED
  BY <1>3, <1>4

LEMMA ExitIInv == ASSUME IInv, TypeOK', Exits PROVE IInv'
<1>1. PICK p \in Proc :
        /\ Alive(p)
        /\ MyExit(p) \/ (Dies(p) /\ (p \in Child => pc[p] \in ServingPc))
  BY DEF Exits
<1> DEFINE dead == IF MyExit(p) THEN Casualties(p) \cup {p} ELSE {p}
<1>2. dead \in SUBSET Proc /\ \A q \in dead : Alive(q)
  BY <1>1, ProcType DEF Casualties
<1>3. pc' = PcAfterDeath(dead)
  BY <1>1 DEF MyExit, Dies
<1>4. UNCHANGED <<mode, parent, count, ignoring, owing, driverReaped>>
  BY <1>1 DEF MyExit, Dies
<1>5. removed => removed'
  BY <1>1 DEF MyExit, Dies
<1>6. \A q \in Proc : \/ pc'[q] = pc[q] /\ q \notin dead
                      \/ q \in dead /\ pc'[q] \in DeadPc
                      \/ pc[q] = "zombie" /\ pc'[q] = "gone"
  BY <1>2, <1>3, DeathPc DEF IInv
<1>7. CountInv' /\ LimitInv'
  <2>1. \A c \in Child : /\ pc'[c] \notin {"unborn", "gone"}
                            => pc[c] \notin {"unborn", "gone"}
                         /\ pc'[c] \in ServingPc => pc[c] \in ServingPc
    BY <1>2, <1>6, ProcType DEF Alive, DeadPc, ServingPc
  <2>2. \A q \in Acceptor : pc'[q] = "fork" => pc[q] = "fork"
    BY <1>6, ProcType DEF DeadPc
  <2> QED
    BY <1>4, <1>5, <2>1, <2>2, NoGrowth DEF IInv
<1>8. OwingInv'
  <2>1. CASE MyExit(p)
    BY <2>1 DEF MyExit, OwingInv
  <2>2. CASE ~MyExit(p)
    <3> SUFFICES ASSUME ~removed PROVE OwingInv'
      BY <1>1, <2>2 DEF OwingInv, Dies
    <3>1. p \in Child => pc[p] \in ServingPc
      BY <1>1, <2>2
    <3>2. dead = {p}
      BY <2>2
    <3>3. \A q \in Acceptor : pc'[q] = "count" => q \in owing'
      BY <1>4, <1>6, ProcType DEF IInv, OwingInv, DeadPc
    <3>4. ASSUME NEW q \in owing
          PROVE  pc'[q] \in {"count", "interrupted"} \/ (q = Server /\ pc'[q] = "gone")
      <4>1. q \in Proc /\ q \in Acceptor
        BY ProcType DEF IInv, TypeOK
      <4>2. pc[q] \in {"count", "interrupted"} \/ (q = Server /\ pc[q] = "gone")
        BY DEF IInv, OwingInv
      <4>3. CASE q = Server
        <5>1. pc'[q] = pc[q] \/ pc'[q] = "gone"
          BY <1>3, <3>2, <4>1, <4>3 DEF PcAfterDeath, IInv, RootInv
        <5> QED
          BY <4>2, <4>3, <5>1
      <4>4. CASE q # Server
        BY <1>6, <3>1, <3>2, <4>1, <4>2, <4>4, ProcType DEF Acceptor, ServingPc
      <4> QED
        BY <4>3, <4>4
    <3> QED
      BY <1>4, <3>3, <3>4 DEF OwingInv
  <2> QED
    BY <2>1, <2>2
<1>9. RootInv'
  BY <1>4 DEF IInv, RootInv
<1> QED
  BY <1>7, <1>8, <1>9 DEF IInv

LEMMA DisjointUnion ==
    ASSUME NEW S, NEW T, IsFiniteSet(S), IsFiniteSet(T), S \cap T = {}
    PROVE  /\ IsFiniteSet(S \cup T)
           /\ Cardinality(S \cup T) = Cardinality(S) + Cardinality(T)
<1>1. /\ IsFiniteSet(S \cup T)
      /\ Cardinality(S \cup T)
            = Cardinality(S) + Cardinality(T) - Cardinality(S \cap T)
  BY FS_Union, Zenon
<1>2. Cardinality(S \cap T) = 0
  BY FS_EmptySet
<1>3. Cardinality(S) \in Nat /\ Cardinality(T) \in Nat
  BY FS_CardinalityType
<1> QED
  BY <1>1, <1>2, <1>3

\* Where there is room for one more: everybody who owes an increment or is past
\* the look, but for the process that looks, is the server or a child that is
\* counted and does not serve.
LEMMA Room ==
    ASSUME IInv, ~removed, ~driverReaped, HasRoom,
           NEW p \in Acceptor, pc[p] = "check"
    PROVE  Cardinality(Serving) + Cardinality(Forking) < MaxClients
<1> DEFINE Others == (Accepting \cup {Server}) \ {p}
<1>1. /\ IsFiniteSet(Accepting) /\ IsFiniteSet(Serving) /\ IsFiniteSet(owing)
      /\ IsFiniteSet(Forking) /\ IsFiniteSet(Counted)
      /\ Cardinality(Counted) \in Nat /\ Cardinality(owing) \in Nat
      /\ Cardinality(Serving) \in Nat /\ Cardinality(Forking) \in Nat
      /\ Cardinality(Accepting) \in Nat
  BY Finite DEF IInv
<1>2. Cardinality(Serving) + Cardinality(Accepting) <= Cardinality(Counted)
  <2>1. Serving \cup Accepting \subseteq Counted
    BY DEF Serving, Accepting, Counted, ServingPc, AcceptorPc
  <2>2. Serving \cap Accepting = {}
    BY DEF Serving, Accepting, ServingPc, AcceptorPc
  <2>3. Cardinality(Serving \cup Accepting)
           = Cardinality(Serving) + Cardinality(Accepting)
    BY <1>1, <2>2, DisjointUnion
  <2> QED
    BY <1>1, <2>1, <2>3, FS_Subset
<1>3. Cardinality(Others) = Cardinality(Accepting) /\ IsFiniteSet(Others)
  <2>1. Server \notin Accepting
    BY ProcType DEF Accepting
  <2>2. /\ IsFiniteSet(Accepting \cup {Server})
        /\ Cardinality(Accepting \cup {Server}) = Cardinality(Accepting) + 1
    BY <1>1, <2>1, FS_AddElement
  <2>3. p \in Accepting \cup {Server}
    BY DEF Acceptor, Accepting, AcceptorPc
  <2> DEFINE All == Accepting \cup {Server}
  <2>4. /\ IsFiniteSet(All \ {p})
        /\ Cardinality(All \ {p}) = Cardinality(All) - 1
    BY <2>2, <2>3, FS_RemoveElement, Zenon
  <2> QED
    BY <1>1, <2>2, <2>4
<1>4. Cardinality(owing) + Cardinality(Forking) <= Cardinality(Others)
  <2>1. owing \cup Forking \subseteq Others
    BY DEF IInv, TypeOK, OwingInv, Forking, Acceptor, Accepting, AcceptorPc
  <2>2. owing \cap Forking = {}
    BY DEF IInv, OwingInv, Forking
  <2>3. Cardinality(owing \cup Forking) = Cardinality(owing) + Cardinality(Forking)
    BY <1>1, <2>2, DisjointUnion
  <2> QED
    BY <1>3, <2>1, <2>3, FS_Subset
<1>5. Cardinality(Counted) <= count + Cardinality(owing)
  BY DEF IInv, CountInv
<1>6. count < MaxClients /\ count \in Int
  BY DEF HasRoom, IInv, TypeOK
<1> HIDE DEF Others
<1> QED
  BY <1>1, <1>2, <1>3, <1>4, <1>5, <1>6, MaxClientsAssumption

LEMMA MoveIInv ==
    ASSUME IInv, TypeOK', NEW p \in Proc, MovesTo(p) PROVE IInv'
<1>1. PICK where \in AllPc :
        /\ Moves(p, where)
        /\ where \in ServingPc => pc[p] \in ServingPc
        /\ where = "fork" => pc[p] = "check" /\ HasRoom /\ ~removed
        /\ where # "count"
        /\ pc[p] \notin {"count", "interrupted", "unborn"} \cup DeadPc
        /\ p = Server => where \in ServerPc
        /\ p = Producer => where \in ProducerPc
  BY DEF MovesTo
<1>2. /\ pc' = [pc EXCEPT ![p] = where] /\ pc \in [Proc -> AllPc]
      /\ UNCHANGED <<mode, parent, count, removed, listening, ignoring, owing,
                     driverReaped>>
  BY <1>1 DEF Moves, Goto, IInv, TypeOK, AllPc
<1>3. \A q \in Proc : pc'[q] = IF q = p THEN where ELSE pc[q]
  BY <1>2
<1>4. p \notin owing \/ removed
  BY <1>1 DEF IInv, OwingInv, DeadPc
<1>5. OwingInv' /\ RootInv'
  BY <1>1, <1>2, <1>3, <1>4, ProcType DEF IInv, TypeOK, OwingInv, RootInv
<1>6. \A c \in Child : /\ pc'[c] \notin {"unborn", "gone"}
                           => pc[c] \notin {"unborn", "gone"}
                       /\ pc'[c] \in ServingPc => pc[c] \in ServingPc
  BY <1>1, <1>3, ProcType DEF DeadPc
<1>7. CASE where # "fork" \/ p \notin Acceptor
  <2>1. \A q \in Acceptor : pc'[q] = "fork" => pc[q] = "fork"
    BY <1>3, <1>7, ProcType
  <2> QED
    BY <1>2, <1>5, <1>6, <2>1, NoGrowth DEF IInv
<1>8. CASE where = "fork" /\ p \in Acceptor
  <2>1. Forking' = Forking \cup {p} /\ p \notin Forking
    BY <1>1, <1>3, <1>8, ProcType DEF Forking
  <2>2. Cardinality(Forking') = Cardinality(Forking) + 1
    BY <2>1, Finite, FS_AddElement DEF IInv
  <2>3. Serving' \subseteq Serving /\ Counted' \subseteq Counted
    BY <1>6 DEF Serving, Counted
  <2>4. /\ Cardinality(Serving') <= Cardinality(Serving)
        /\ Cardinality(Counted') <= Cardinality(Counted)
        /\ Cardinality(Serving') \in Nat /\ Cardinality(Counted') \in Nat
    BY <2>3, Finite, FS_Subset, FS_CardinalityType DEF IInv
  <2>5. CountInv'
    BY <1>2, <2>4, Finite DEF IInv, CountInv, TypeOK
  <2>6. LimitInv'
    <3> SUFFICES ASSUME ~driverReaped
                 PROVE  Cardinality(Serving') + Cardinality(Forking') <= MaxClients
      BY <1>2 DEF LimitInv
    <3>1. Cardinality(Serving) + Cardinality(Forking) < MaxClients
      BY <1>1, <1>8, Room
    <3> QED
      BY <2>2, <2>4, <3>1, Finite, MaxClientsAssumption DEF IInv
  <2> QED
    BY <1>5, <2>5, <2>6 DEF IInv
<1> QED
  BY <1>7, <1>8

LEMMA ForkIInv ==
    ASSUME IInv, TypeOK', NEW p \in Acceptor, Fork(p), ~MyExit(p) PROVE IInv'
<1> DEFINE c == FreePid
<1>1. c \in Child /\ pc[c] = "unborn" /\ pc[p] = "fork" /\ c # p
  BY FreePidType DEF Fork
<1>2. /\ pc' = [pc EXCEPT ![p] = "count", ![c] = "shake"]
      /\ parent' = [parent EXCEPT ![c] = p]
      /\ owing' = owing \cup {p}
      /\ UNCHANGED <<mode, count, removed, listening, ignoring, driverReaped>>
  BY DEF Fork, Forked
<1>3. \A q \in Proc : pc'[q] = IF q = c THEN "shake"
                               ELSE IF q = p THEN "count" ELSE pc[q]
  BY <1>1, <1>2 DEF IInv, TypeOK
<1> HIDE DEF c
<1>4. RootInv'
  BY <1>1, <1>2, ProcType DEF IInv, TypeOK, RootInv
<1>5. OwingInv'
  <2> SUFFICES ASSUME ~removed PROVE OwingInv'
    BY <1>2 DEF OwingInv
  <2>1. c \notin owing
    BY <1>1, ProcType DEF IInv, OwingInv
  <2> QED
    BY <1>1, <1>2, <1>3, <2>1, ProcType DEF IInv, OwingInv, TypeOK
<1>6. /\ Serving' = Serving \cup {c} /\ c \notin Serving
      /\ Counted' = Counted \cup {c} /\ c \notin Counted
      /\ Forking' = Forking \ {p} /\ p \in Forking
  BY <1>1, <1>3, ProcType DEF Serving, Counted, Forking, ServingPc
<1>7. /\ Cardinality(Serving') = Cardinality(Serving) + 1
      /\ Cardinality(Counted') = Cardinality(Counted) + 1
      /\ Cardinality(Forking') = Cardinality(Forking) - 1
  BY <1>6, Finite, FS_AddElement, FS_RemoveElement DEF IInv
<1>8. CountInv'
  <2> SUFFICES ASSUME ~removed, ~driverReaped
               PROVE  Cardinality(Counted') <= count' + Cardinality(owing')
    BY <1>2 DEF CountInv
  <2>1. p \notin owing
    BY <1>1, ProcType DEF IInv, OwingInv
  <2>2. Cardinality(owing') = Cardinality(owing) + 1
    BY <1>2, <2>1, Finite, FS_AddElement DEF IInv
  <2> QED
    BY <1>2, <1>7, <2>2, Finite DEF IInv, CountInv, TypeOK
<1>9. LimitInv'
  BY <1>2, <1>7, Finite, MaxClientsAssumption DEF IInv, LimitInv
<1> QED
  BY <1>4, <1>5, <1>8, <1>9 DEF IInv

LEMMA CountIInv ==
    ASSUME IInv, TypeOK', NEW p \in Acceptor, Count(p), ~MyExit(p) PROVE IInv'
<1>1. /\ pc[p] = "count" /\ ~removed
      /\ pc' = [pc EXCEPT ![p] = "report"]
      /\ count' = count + 1
      /\ owing' = owing \ {p}
      /\ UNCHANGED <<mode, parent, removed, listening, ignoring, driverReaped>>
  BY DEF Count, Goto, Incremented
<1>2. \A q \in Proc : pc'[q] = IF q = p THEN "report" ELSE pc[q]
  BY <1>1 DEF IInv, TypeOK
<1>3. p \in owing
  BY <1>1 DEF IInv, OwingInv
<1>4. RootInv' /\ OwingInv'
  BY <1>1, <1>2, ProcType DEF IInv, RootInv, OwingInv, TypeOK
<1>5. Serving' = Serving /\ Counted' = Counted /\ Forking' = Forking
  BY <1>1, <1>2, ProcType DEF Serving, Counted, Forking, ServingPc
<1>6. Cardinality(owing') = Cardinality(owing) - 1
  BY <1>1, <1>3, Finite, FS_RemoveElement DEF IInv
<1>7. CountInv' /\ LimitInv'
  BY <1>1, <1>5, <1>6, Finite DEF IInv, CountInv, LimitInv, TypeOK
<1> QED
  BY <1>4, <1>7 DEF IInv

LEMMA ReapIInv ==
    ASSUME IInv, TypeOK', NEW p \in Acceptor, Reap(p), ~MyExit(p) PROVE IInv'
<1>1. PICK z \in Zombies : /\ count' = count - 1
                           /\ pc' = [pc EXCEPT ![z] = "gone"]
                           /\ driverReaped' = (driverReaped \/ z = Producer)
  BY DEF Reap, Goto
<1>2. UNCHANGED <<mode, parent, removed, listening, ignoring, owing>>
  BY DEF Reap
<1>3. z \in Proc /\ pc[z] = "zombie"
  BY DEF Zombies
<1>4. \A q \in Proc : pc'[q] = IF q = z THEN "gone" ELSE pc[q]
  BY <1>1, <1>3 DEF IInv, TypeOK
<1>5. RootInv' /\ OwingInv'
  BY <1>2, <1>3, <1>4, ProcType DEF IInv, RootInv, OwingInv, TypeOK
<1>6. ~driverReaped' => ~driverReaped /\ z \in Child
  <2>1. ~driverReaped' => ~driverReaped /\ z # Producer
    BY <1>1, Zenon
  <2>2. z # Server
    BY <1>3
    DEF IInv, TypeOK, ServerPc, AcceptorPc
  <2> QED
    BY <1>3, <2>1, <2>2, ProcType
<1>7. Serving' = Serving /\ Forking' = Forking /\ Counted' = Counted \ {z}
  BY <1>3, <1>4, ProcType DEF Serving, Forking, Counted, ServingPc
<1>8. z \in Child => Cardinality(Counted') = Cardinality(Counted) - 1
  <2>1. z \in Child => z \in Counted
    BY <1>3 DEF Counted
  <2> QED
    BY <1>7, <2>1, Finite, FS_RemoveElement DEF IInv
<1>9. CountInv'
  BY <1>1, <1>2, <1>6, <1>8, Finite DEF IInv, CountInv, TypeOK
<1>10. LimitInv'
  BY <1>6, <1>7 DEF IInv, LimitInv
<1> QED
  BY <1>5, <1>9, <1>10 DEF IInv

LEMMA SigintIInv ==
    ASSUME IInv, TypeOK', NEW p \in Acceptor, Sigint(p) PROVE IInv'
<1> DEFINE known == IF mode = 1 /\ ignoring /\ Alive(Producer) THEN {Producer} ELSE {}
<1>1. known \in SUBSET Proc /\ \A q \in known : Alive(q)
  BY ProcType
<1>2. /\ pc' = [PcAfterDeath(known) EXCEPT ![p] = "interrupted"]
      /\ Alive(p)
      /\ UNCHANGED <<mode, parent, count, removed, listening, ignoring, owing,
                     driverReaped>>
  BY DEF Sigint
<1>3. p \notin known /\ \A q \in Acceptor : q \notin known
  BY ProcType
<1> HIDE DEF known
<1>4. PcAfterDeath(known) \in [Proc -> AllPc]
  BY <1>1, DeathPc DEF IInv
<1>5. \A q \in Acceptor : \/ q = p /\ pc'[q] = "interrupted"
                          \/ q # p /\ pc'[q] = pc[q]
                          \/ q # p /\ pc[q] = "zombie" /\ pc'[q] = "gone"
  BY <1>1, <1>2, <1>3, <1>4, DeathPc, ProcType DEF IInv
<1>6. RootInv' /\ OwingInv'
  BY <1>2, <1>5, ProcType DEF IInv, RootInv, OwingInv, TypeOK
<1>7. \A c \in Child : /\ pc'[c] \notin {"unborn", "gone"}
                           => pc[c] \notin {"unborn", "gone"}
                       /\ pc'[c] \in ServingPc => pc[c] \in ServingPc
  BY <1>2, <1>5, ProcType DEF Alive, DeadPc, ServingPc
<1>8. \A q \in Acceptor : pc'[q] = "fork" => pc[q] = "fork"
  BY <1>5
<1> QED
  BY <1>2, <1>6, <1>7, <1>8, NoGrowth DEF IInv

LEMMA OtherIInv == ASSUME IInv, TypeOK', OtherSteps PROVE IInv'
<1>1. CASE \/ /\ pc[Server] = "setup"
              /\ pc' = [pc EXCEPT ![Server] = "dispose", ![Producer] = "start"]
              /\ UNCHANGED <<mode, parent, count, removed, listening, ignoring, owing,
                             driverReaped>>
           \/ Dispose
  <2>1. /\ UNCHANGED <<mode, parent, count, removed, owing, driverReaped>>
        /\ pc[Server] \in {"setup", "dispose"}
        /\ \A q \in Acceptor : \/ pc'[q] = pc[q]
                               \/ q = Server /\ pc'[q] \in {"dispose", "accept"}
    BY <1>1, ProcType DEF Dispose, Goto, IInv, TypeOK
  <2>2. RootInv' /\ OwingInv'
    BY <2>1, ProcType DEF IInv, RootInv, OwingInv, TypeOK
  <2>3. \A c \in Child : /\ pc'[c] \notin {"unborn", "gone"}
                             => pc[c] \notin {"unborn", "gone"}
                         /\ pc'[c] \in ServingPc => pc[c] \in ServingPc
    BY <2>1, ProcType
  <2>4. \A q \in Acceptor : pc'[q] = "fork" => pc[q] = "fork"
    BY <2>1
  <2> QED
    BY <2>1, <2>2, <2>3, <2>4, NoGrowth DEF IInv
<1>2. ASSUME NEW p \in Acceptor, Fork(p) \/ Count(p) \/ Reap(p) PROVE IInv'
  <2>1. CASE MyExit(p)
    <3>1. Alive(p)
      BY <1>2 DEF Fork, Count, Reap, Alive, DeadPc
    <3> QED
      BY <2>1, <3>1, ExitIInv, ProcType DEF Exits
  <2>2. CASE ~MyExit(p)
    BY <1>2, <2>2, ForkIInv, CountIInv, ReapIInv
  <2> QED
    BY <2>1, <2>2
<1>3. ASSUME NEW p \in Acceptor, Sigint(p) PROVE IInv'
  BY <1>3, SigintIInv
<1> QED
  BY <1>1, <1>2, <1>3 DEF OtherSteps

LEMMA InitIInv == Init => IInv
<1> SUFFICES ASSUME Init PROVE IInv
  OBVIOUS
<1>1. \A p \in Proc : pc[p] = IF p = Server THEN "setup" ELSE "unborn"
  BY DEF Init
<1>2. TypeOK /\ RootInv
  <2>1. count \in Int
    BY SMT DEF Init
  <2>2. removed \in BOOLEAN /\ listening \in BOOLEAN /\ ignoring \in BOOLEAN
        /\ driverReaped \in BOOLEAN
    BY Zenon DEF Init
  <2>3. mode \in {0, 1} /\ owing \subseteq Acceptor
    BY DEF Init
  <2>4. /\ pc \in [Proc -> AllPc] /\ pc[Server] \in ServerPc
        /\ pc[Producer] \in ProducerPc /\ \A c \in Child : pc[c] \in ChildPc
    BY ProcType DEF Init, AllPc, ServerPc, ChildPc, ProducerPc
  <2>5. parent \in [Proc -> Acceptor] /\ parent[Server] = Server
    BY ProcType DEF Init
  <2> QED
    BY <2>1, <2>2, <2>3, <2>4, <2>5 DEF TypeOK, RootInv, AllPc
<1>3. OwingInv
  BY <1>1, ProcType DEF Init, OwingInv
<1>4. Counted = {} /\ Serving = {} /\ Forking = {}
  BY <1>1, ProcType DEF Counted, Serving, Forking, ServingPc
<1>5. Cardinality({}) = 0
  BY FS_EmptySet
<1>6. CountInv
  BY <1>4, <1>5 DEF Init, CountInv
<1>7. LimitInv
  BY <1>4, <1>5, MaxClientsAssumption DEF LimitInv
<1> QED
  BY <1>2, <1>3, <1>6, <1>7 DEF IInv

LEMMA NextIInv == IInv /\ [Next]_vars => IInv'
<1> SUFFICES ASSUME IInv, [Next]_vars PROVE IInv'
  OBVIOUS
<1>1. TypeOK'
  BY NextTypeOK DEF IInv
<1>2. CASE Next
  BY <1>1, <1>2, StepKinds, ExitIInv, MoveIInv, OtherIInv DEF IInv
<1>3. CASE UNCHANGED vars
  BY <1>1, <1>3, NoGrowth DEF vars, IInv, RootInv, OwingInv
<1> QED
  BY <1>2, <1>3

\* The inductive invariant holds in every reachable state.
THEOREM Invariance == Spec => []IInv
BY InitIInv, NextIInv, PTL DEF Spec

-----------------------------------------------------------------------------
\* Every variable keeps its type: no child sets up, the server never serves.
THEOREM TypeCorrect == Spec => []TypeOK
<1>1. IInv => TypeOK
  BY DEF IInv
<1> QED
  BY <1>1, Invariance, PTL

\* client_count and the increments that are due cover every child not buried,
\* until the producer's death is counted or the semaphore is removed.
THEOREM CountCovers == Spec => []NeverUndercounts
<1>1. IInv => NeverUndercounts
  BY DEF IInv, CountInv, NeverUndercounts
<1> QED
  BY <1>1, Invariance, PTL

\* Whatever the number of processes that accept at the same time, no more than
\* max_simultaneous_clients clients are served at once.
THEOREM LimitKept == Spec => []ServingLimit
<1>1. IInv => ServingLimit
  <2> SUFFICES ASSUME IInv, ~driverReaped PROVE Cardinality(Serving) <= MaxClients
    BY DEF ServingLimit
  <2> QED
    BY Finite, MaxClientsAssumption DEF IInv, LimitInv
<1> QED
  BY <1>1, Invariance, PTL
=============================================================================
