-------------------------- MODULE MCSharedMemory ---------------------------
(***************************************************************************)
(* SharedMemory with the server's main process, a child that serves a      *)
(* client and, in mode 1, the driver's child.  In mode 1 the driver's      *)
(* child writes the strings and the server's handler is SIGCHLD's; in mode *)
(* 0 a script produces the data and sends SIGUSR1, whose handler in the    *)
(* server writes.  A client's child accepts connections too once its       *)
(* client has gone (server.c:326-329), so it may increment.                *)
(***************************************************************************)
EXTENDS SharedMemory

CONSTANTS server, driver, client, Mode

MCMainOps ==
    [p \in Proc |-> CASE p = server -> {"get", "increment"}
                      [] p = driver -> {"write"}
                      [] p = client -> {"read", "increment"}]

MCHandlerOps ==
    [p \in Proc |-> IF p # server THEN {}
                    ELSE IF Mode = 1 THEN {"decrement"} ELSE {"write"}]

\* execute_i2c_driver_generator makes the driver's child ignore SIGINT.
MCSigintProcs == Proc \ {driver}

\* In mode 1 every process knows driver_pid (sigint_handler's SIGTERM), and
\* random_pid is 0, so my_exit sends SIGUSR1 to the whole group, where only
\* the driver's child has the default action.
MCKills == [p \in Proc |-> IF Mode = 1 THEN {driver} ELSE {}]
=============================================================================
