------------------------------- MODULE Server -------------------------------
(***************************************************************************)
(* server.c and my_signals.c of 02_cuat/01_server: the tree of processes.  *)
(*                                                                         *)
(* The server forks a producer (a bash script in mode 0, the reader of the *)
(* I2C driver in mode 1) and then accepts connections.  For each one it    *)
(* looks at client_count, forks a child that serves the client, and adds   *)
(* one to client_count.  A child that returns from handle_client does not  *)
(* exit: it goes round the same loop, so it accepts connections and forks  *)
(* children too.  sigchld_handler takes one off client_count for each dead *)
(* child, the producer included.                                           *)
(*                                                                         *)
(* my_exit removes the semaphore, signals the producer (or, where its pid  *)
(* is 0, the whole group) and shuts the listening socket down, which is    *)
(* how the other processes learn of it.  An operation on the shared memory *)
(* is one step here (module SharedMemory takes it apart) and ends the      *)
(* process once the semaphore is gone.                                     *)
(***************************************************************************)
EXTENDS Integers, FiniteSets

CONSTANTS
    Server,         \* the process main() starts in
    Producer,       \* the child of execute_..._generator
    Child,          \* processes forked for clients; forks are bounded by it
    MaxClients      \* max_simultaneous_clients

ASSUME ProcessAssumption ==
    /\ Server # Producer /\ Server \notin Child /\ Producer \notin Child
    /\ IsFiniteSet(Child)
ASSUME MaxClientsAssumption == MaxClients \in Nat

Acceptor == Child \cup {Server}
Proc == Acceptor \cup {Producer}

VARIABLES
    mode,           \* producer_mode, from config.ini
    pc,             \* where each process is
    parent,         \* who forked it
    count,          \* client_count of the shared memory
    removed,        \* has cleanup_shm_sem removed the semaphore
    listening,      \* is server_socket not shut down
    ignoring,       \* has the server run the signal() calls of lines 125-126, 166
    \* history
    owing,          \* those that forked a child they have not counted yet
    driverReaped    \* has sigchld_handler counted the producer's death

vars == <<mode, pc, parent, count, removed, listening, ignoring, owing, driverReaped>>

AcceptorPc == {"accept",        \* in accept()
               "check",         \* a client has connected
               "fork",          \* there was room for it
               "reject",        \* there was none
               "count",         \* forked, about to increment_client_count
               "report",        \* about to get_client_count again
               "interrupted"}   \* in sigint_handler
DeadPc == {"zombie", "gone"}
ServerPc == AcceptorPc \cup {"setup", "dispose", "gone"}
ServingPc == {"shake",          \* in the handshake
              "send",           \* in the loop of handle_client
              "blocked"}        \* in a send() for which there is no room
ChildPc == AcceptorPc \cup ServingPc \cup DeadPc \cup {"unborn"}
ProducerPc == {"unborn", "start", "produce"} \cup DeadPc

Init ==
    /\ mode \in {0, 1}
    /\ pc = [p \in Proc |-> IF p = Server THEN "setup" ELSE "unborn"]
    /\ parent = [p \in Proc |-> Server]
    /\ count = 0
    /\ removed = FALSE
    /\ listening = TRUE
    /\ ignoring = FALSE
    /\ owing = {}
    /\ driverReaped = FALSE

Alive(p) == pc[p] \notin DeadPc \cup {"unborn"}
Serving == {c \in Child : pc[c] \in ServingPc}
Zombies == {p \in Proc : pc[p] = "zombie"}

\* A fault: SIGCHLD is ignored in mode 1 too.
HandlesSigchld_Not == ~ignoring

\* The disposition of SIGCHLD, inherited by the children.
HandlesSigchld == mode = 1 \/ ~ignoring

Goto(p, where) == pc' = [pc EXCEPT ![p] = where]

\* pc after the death of some processes: a parent that handles SIGCHLD has a
\* zombie, which init buries when the parent dies too.
PcAfterDeath(dead) ==
    [q \in Proc |->
        IF q \in dead
        THEN IF HandlesSigchld /\ Alive(parent[q]) /\ parent[q] \notin dead
             THEN "zombie" ELSE "gone"
        ELSE IF pc[q] = "zombie" /\ parent[q] \in dead THEN "gone" ELSE pc[q]]

-----------------------------------------------------------------------------
\* Whom the SIGUSR1 and SIGUSR2 of p's my_exit end: in mode 0 driver_pid is 0,
\* so that SIGUSR2 goes to the group, where the script dies of it and the
\* server too as long as it does not ignore it.  In mode 1 SIGUSR2 goes to the
\* driver's reader, which dies of it before setup_sigusr2, and, from a server
\* that has not stored the pid yet, to the group.  (A SIGUSR1 handler that runs
\* inside finds the semaphore removed, if it looks.)
Casualties(p) ==
    {q \in {Server, Producer} :
        /\ Alive(q)
        /\ \/ mode = 0 /\ q = Producer
           \/ mode = 0 /\ q = Server /\ ~ignoring
           \/ mode = 1 /\ q = Producer /\ pc[q] = "start"
           \/ mode = 1 /\ q = Server /\ p = Server /\ ~ignoring}

\* A process that dies of its own signal does not reach shutdown().
MyExit(p) ==
    /\ removed' = TRUE
    /\ listening' = (listening /\ p \in Casualties(p))
    /\ pc' = PcAfterDeath(Casualties(p) \cup {p})
    /\ UNCHANGED <<mode, parent, count, ignoring, owing, driverReaped>>

\* The process dies of a signal it does not handle.
Dies(p) ==
    /\ pc' = PcAfterDeath({p})
    /\ UNCHANGED <<mode, parent, count, removed, listening, ignoring, owing,
                   driverReaped>>

Moves(p, where) ==
    /\ Goto(p, where)
    /\ UNCHANGED <<mode, parent, count, removed, listening, ignoring, owing,
                   driverReaped>>

-----------------------------------------------------------------------------
\* execute_random_number_generator_script, execute_i2c_driver_generator: fork.
ForkProducer ==
    /\ pc[Server] = "setup"
    /\ \/ /\ pc' = [pc EXCEPT ![Server] = "dispose", ![Producer] = "start"]
          /\ UNCHANGED <<mode, parent, count, removed, listening, ignoring, owing,
                         driverReaped>>
       \/ MyExit(Server)

\* The rest of them in the parent: the pid is stored, signals are ignored.
Dispose ==
    /\ pc[Server] = "dispose"
    /\ Goto(Server, "accept")
    /\ ignoring' = TRUE
    /\ UNCHANGED <<mode, parent, count, removed, listening, owing, driverReaped>>

\* The script is executed; the driver is open and SIGUSR2 handled.  Or that
\* fails.
ProducerStarts ==
    /\ pc[Producer] = "start"
    /\ Moves(Producer, "produce") \/ MyExit(Producer)

\* In mode 1 the next write finds the semaphore gone; in mode 0 the script
\* finds the server gone.
ProducerStops ==
    /\ pc[Producer] = "produce"
    /\ \/ mode = 1 /\ removed /\ MyExit(Producer)
       \/ mode = 0 /\ ~Alive(Server) /\ Dies(Producer)

\* Something else ends the producer.
ProducerKilled == pc[Producer] = "produce" /\ Dies(Producer)

-----------------------------------------------------------------------------
\* accept() returns a connection.
Accept(p) == pc[p] = "accept" /\ listening /\ Moves(p, "check")

\* accept() fails once the socket is shut down.
AcceptFails(p) == pc[p] = "accept" /\ ~listening /\ MyExit(p)

\* A fault: <= for < in line 315.
HasRoom_AtLimit == count <= MaxClients

HasRoom == count < MaxClients

\* Line 315.
Check(p) ==
    /\ pc[p] = "check"
    /\ \/ removed /\ MyExit(p)
       \/ ~removed /\ HasRoom /\ Moves(p, "fork")
       \/ ~removed /\ ~HasRoom /\ Moves(p, "reject")

\* Line 340: close, and a second of sleep.
Reject(p) == pc[p] = "reject" /\ Moves(p, "accept")

\* A fault: the branches of the parent and the child are swapped.
Forked_Swapped(p, c) == [pc EXCEPT ![p] = "shake", ![c] = "count"]

Forked(p, c) == [pc EXCEPT ![p] = "count", ![c] = "shake"]

\* The pid the kernel gives the next child; which one makes no difference.
FreePid == CHOOSE c \in Child : pc[c] = "unborn"

\* Line 317.
Fork(p) ==
    /\ pc[p] = "fork"
    /\ \/ /\ \E c \in Child : pc[c] = "unborn"
          /\ pc' = Forked(p, FreePid)
          /\ parent' = [parent EXCEPT ![FreePid] = p]
          /\ owing' = owing \cup {p}
          /\ UNCHANGED <<mode, count, removed, listening, ignoring, driverReaped>>
       \/ MyExit(p)

\* A fault: increment_client_count does not increment.
Incremented_Not == count

Incremented == count + 1

\* Line 333.
Count(p) ==
    /\ pc[p] = "count"
    /\ \/ removed /\ MyExit(p)
       \/ /\ ~removed
          /\ count' = Incremented
          /\ owing' = owing \ {p}
          /\ Goto(p, "report")
          /\ UNCHANGED <<mode, parent, removed, listening, ignoring, driverReaped>>

\* Lines 334-335.
Report(p) ==
    /\ pc[p] = "report"
    /\ (removed /\ MyExit(p)) \/ (~removed /\ Moves(p, "accept"))

\* handle_client up to its loop: it fails where the client is slow, says the
\* wrong thing or goes away; a send to a client that went may raise SIGPIPE.
Handshake(c) ==
    /\ pc[c] = "shake"
    /\ Moves(c, "send") \/ Moves(c, "accept") \/ Dies(c)

\* A fault: lock_semaphore tries for ever, so a read never ends the process.
Send_Forever(c) ==
    pc[c] = "send" /\ ~removed /\ (Moves(c, "accept") \/ Moves(c, "blocked") \/ Dies(c))

\* A turn of its loop: read_from_shared_memory finds the semaphore gone, or
\* else send() the client, or it waits for room (the other turns change nothing
\* here).
Send(c) ==
    /\ pc[c] = "send"
    /\ \/ removed /\ MyExit(c)
       \/ ~removed /\ (Moves(c, "accept") \/ Moves(c, "blocked") \/ Dies(c))

\* The client reads on, or goes.  Nothing says when: send() has no timeout.
Unblock(c) ==
    /\ pc[c] = "blocked"
    /\ Moves(c, "send") \/ Moves(c, "accept") \/ Dies(c)

-----------------------------------------------------------------------------
\* sigchld_handler, for one dead child.
Reap(p) ==
    /\ HandlesSigchld
    /\ Alive(p)
    /\ \E z \in Zombies :
        /\ parent[z] = p
        /\ \/ removed /\ MyExit(p)
           \/ /\ ~removed
              /\ count' = count - 1
              /\ Goto(z, "gone")
              /\ driverReaped' = (driverReaped \/ z = Producer)
              /\ UNCHANGED <<mode, parent, removed, listening, ignoring, owing>>

\* SIGINT: sigint_handler ends the driver's reader, if it knows its pid.
Sigint(p) ==
    LET known == IF mode = 1 /\ ignoring /\ Alive(Producer) THEN {Producer} ELSE {}
    IN  /\ Alive(p)
        /\ pc[p] # "interrupted"
        /\ pc' = [PcAfterDeath(known) EXCEPT ![p] = "interrupted"]
        /\ UNCHANGED <<mode, parent, count, removed, listening, ignoring, owing,
                       driverReaped>>

\* Its end.  The zombies it still finds are not counted.
Interrupted(p) == pc[p] = "interrupted" /\ MyExit(p)

\* SIGUSR2 sent to the server: ignored in mode 0, not handled in mode 1.
Sigusr2 ==
    /\ Alive(Server)
    /\ mode = 1 \/ ~ignoring
    /\ Dies(Server)

\* Steps a process takes by itself.
Runs(p) ==
    \/ AcceptFails(p) \/ Check(p) \/ Reject(p) \/ Fork(p) \/ Count(p) \/ Report(p)
    \/ Reap(p) \/ Interrupted(p)

Next ==
    \/ ForkProducer \/ Dispose
    \/ ProducerStarts \/ ProducerStops \/ ProducerKilled
    \/ \E p \in Acceptor : Accept(p) \/ Runs(p) \/ Sigint(p)
    \/ \E c \in Child : Handshake(c) \/ Send(c) \/ Unblock(c)
    \/ Sigusr2

Spec == Init /\ [][Next]_vars

\* Clients need not come and signals need not be sent.  Everybody else goes
\* on: SO_RCVTIMEO bounds the handshake, and a turn of the loops that serve
\* and produce takes a second, so they meet a removed semaphore.  A child that
\* is blocked in send() is owed nothing: its client may never read.
Fairness ==
    /\ WF_vars(ForkProducer) /\ WF_vars(Dispose)
    /\ WF_vars(ProducerStarts) /\ WF_vars(ProducerStops)
    /\ \A p \in Child \cup {Server} : WF_vars(Runs(p))
    /\ \A c \in Child : WF_vars(Handshake(c)) /\ WF_vars(removed /\ Send(c))

FairSpec == Spec /\ Fairness

-----------------------------------------------------------------------------
(* Properties.                                                             *)

\* The variables keep their types: only children serve, only the server sets
\* up, and the producer never accepts.
TypeOK ==
    /\ mode \in {0, 1}
    /\ pc \in [Proc -> ServerPc \cup ChildPc \cup ProducerPc]
    /\ pc[Server] \in ServerPc
    /\ pc[Producer] \in ProducerPc
    /\ \A c \in Child : pc[c] \in ChildPc
    /\ parent \in [Proc -> Acceptor]
    /\ count \in Int
    /\ removed \in BOOLEAN
    /\ listening \in BOOLEAN
    /\ ignoring \in BOOLEAN
    /\ owing \subseteq Acceptor
    /\ driverReaped \in BOOLEAN

\* Children forked and neither buried nor taken off the count.
Counted == {c \in Child : pc[c] \notin {"unborn", "gone"}}

\* As long as the producer's death has not been counted as a client's, the
\* counter never falls behind: it and the forks not counted yet cover every
\* child, though a child may die before its parent counts it.
NeverUndercounts ==
    ~removed /\ ~driverReaped =>
        Cardinality(Counted) <= count + Cardinality(owing)

\* Under that condition no more clients are served at once than config.ini
\* allows.  The look at client_count and the fork are not atomic and several
\* processes accept at once; but each of them besides the server is a child
\* that still has its unit of the count.
ServingLimit == ~driverReaped => Cardinality(Serving) <= MaxClients

\* One my_exit that shuts the socket down ends the whole tree, acceptors in
\* accept, those that serve or produce at the lock.  What survives is in send()
\* (server.c:236), for a client that does not read and does not go: nothing in
\* the code reaches such a child.
ExitCascade ==
    removed /\ ~listening ~> \A p \in Proc : ~Alive(p) \/ pc[p] = "blocked"

\* In mode 1 a driver that cannot be opened ends the server, although its
\* reader dies of its own SIGUSR2 before it shuts the socket down.
FailedDriverEndsServer ==
    mode = 1 /\ removed /\ Alive(Server) ~> ~Alive(Server)

\* README.md:70-73: what is limited is the number of active connections, so a
\* full counter means that somebody is being served, or has just been.
FullMeansServing ==
    count >= MaxClients =>
        Serving # {} \/ owing # {} \/ Zombies # {} \/ removed
=============================================================================
