----------------------------- MODULE Connection -----------------------------
(***************************************************************************)
(* The conversation of 02_cuat: handle_client() of 01_server/server.c at   *)
(* one end of a TCP connection, main() of 02_client/client.c at the other. *)
(* A greeting in three messages, then the server sends the contents of the *)
(* shared memory whenever they differ from what it sent last, and the      *)
(* client prints what it gets and answers KA, which nobody reads.          *)
(*                                                                         *)
(* TCP carries units and no message boundaries: a recv returns any part of *)
(* what is under way, from the front.  A message is two units, KA is one.  *)
(* Either end may find the connection closed (fin) or reset (rst).         *)
(*                                                                         *)
(* A client served after another one meets a fork of the process that      *)
(* served the former: it inherits that one's static last_sent.             *)
(***************************************************************************)
EXTENDS Integers, Sequences

CONSTANTS
    MaxValue,       \* the producer writes the values 1 .. MaxValue, in order
    MaxClients,     \* clients that connect, one after the other
    Cap,            \* units the way to the client holds
    CapReply        \* units the way to the server holds

ASSUME BoundsAssumption ==
    /\ MaxValue \in Nat
    /\ MaxClients \in Nat
    /\ Cap \in Nat \ {0}
    /\ CapReply \in Nat \ {0, 1}

Ok == 0                         \* "OK"
Ack == -1                       \* "ACK"
Ka == -2                        \* "KA"
Empty == 0                      \* no data: last_sent and the memory start ""
Junk == <<-3, 0>>               \* a byte of an uninitialised buffer
Units(m) == <<<<m, 1>>, <<m, 2>>>>
Values == 1 .. MaxValue

VARIABLES
    shm,            \* data of the shared memory
    \* the server's child
    srv,            \* where handle_client is; "accept" outside it
    unsent,         \* what the present send() has not placed yet
    copy,           \* shm_copy of read_from_shared_memory
    last_sent,      \* static, of handle_client
    \* the client
    cli,            \* where main() is
    buffer,         \* the first two bytes of its buffer
    expired,        \* has client_lifetime passed
    clients,        \* clients so far
    \* the connection
    toClient, toServer,     \* units under way
    srvEnd, cliEnd,         \* each end: open, fin (closed) or rst (reset)
    \* history of this connection
    agreed,         \* the server has accepted the client's ACK
    ended,          \* the client's greeting met the end of the stream
    split,          \* a recv of the greeting ended inside a message
    lastTaken,      \* the last unit a recv of the client took
    lastShown       \* the last unit the client printed

serverVars == <<srv, unsent, copy, last_sent>>
clientVars == <<cli, buffer, expired>>
history == <<agreed, ended, split, lastTaken, lastShown>>
vars == <<shm, serverVars, clientVars, clients, toClient, toServer, srvEnd,
          cliEnd, history>>

Nothing == <<-4, 0>>

Init ==
    /\ shm = Empty
    /\ srv = "accept"
    /\ unsent = <<>>
    /\ copy = Empty
    /\ last_sent = Empty
    /\ cli = "none"
    /\ buffer = <<Junk, Junk>>
    /\ expired = FALSE
    /\ clients = 0
    /\ toClient = <<>>
    /\ toServer = <<>>
    /\ srvEnd = "fin"
    /\ cliEnd = "fin"
    /\ agreed = FALSE
    /\ ended = FALSE
    /\ split = FALSE
    /\ lastTaken = Nothing
    /\ lastShown = Nothing

-----------------------------------------------------------------------------
(* The environment.                                                        *)

\* The producer writes the next value into the shared memory.
Produce ==
    /\ shm < MaxValue
    /\ shm' = shm + 1
    /\ UNCHANGED <<serverVars, clientVars, clients, toClient, toServer, srvEnd,
                   cliEnd, history>>

\* A client connects: it is served, or closed at once because there are too
\* many (server.c:340).
Connect ==
    /\ clients < MaxClients
    /\ cli \in {"none", "closed"}
    /\ srv = "accept"
    /\ clients' = clients + 1
    /\ cli' = "greeting1"
    /\ buffer' = <<Junk, Junk>>
    /\ expired' = FALSE
    /\ toClient' = <<>>
    /\ toServer' = <<>>
    /\ cliEnd' = "open"
    /\ \/ /\ srv' = "greet1"
          /\ unsent' = Units(Ok)
          /\ srvEnd' = "open"
       \/ /\ srvEnd' = "fin"
          /\ UNCHANGED <<srv, unsent>>
    /\ agreed' = FALSE
    /\ ended' = FALSE
    /\ split' = FALSE
    /\ lastTaken' = Nothing
    /\ lastShown' = Nothing
    /\ UNCHANGED <<shm, copy, last_sent>>

Expire ==
    /\ cli \in {"check", "recv", "reply"}
    /\ ~expired
    /\ expired' = TRUE
    /\ UNCHANGED <<shm, serverVars, cli, buffer, clients, toClient, toServer,
                   srvEnd, cliEnd, history>>

-----------------------------------------------------------------------------
(* The server's child.                                                     *)

\* close(client_socket) and back to accept.  With replies unread, TCP resets
\* the connection, and what the client has not got yet may be lost.
CloseServer ==
    /\ srv' = "accept"
    /\ unsent' = <<>>
    /\ IF toServer = <<>>
       THEN srvEnd' = "fin" /\ UNCHANGED toClient
       ELSE /\ srvEnd' = "rst"
            /\ \E n \in 0 .. Len(toClient) : toClient' = SubSeq(toClient, 1, n)

\* Fault: what is remembered is read from the shared memory again.
Remembered_Reread == shm

\* strncpy(last_sent, shm_copy).
Remembered == copy

\* A send() has placed all its units: the second OK follows the first once
\* the ACK is there; a value sent is remembered.
AfterSend ==
    CASE srv = "greet1" -> srv' = "ack" /\ UNCHANGED last_sent
      [] srv = "greet2" -> srv' = "loop" /\ UNCHANGED last_sent
      [] srv = "send" -> srv' = "sleep" /\ last_sent' = Remembered

Sending == srv \in {"greet1", "greet2", "send"}

\* Fault: send() does not wait for room.
PutUnit_NoRoom ==
    /\ Sending
    /\ cliEnd = "open"
    /\ toClient' = Append(toClient, Head(unsent))
    /\ unsent' = Tail(unsent)
    /\ IF Tail(unsent) = <<>> THEN AfterSend ELSE UNCHANGED <<srv, last_sent>>
    /\ UNCHANGED <<shm, copy, clientVars, clients, toServer, srvEnd, cliEnd,
                   history>>

\* send() puts a unit on its way; it waits while there is no room.
PutUnit ==
    /\ Sending
    /\ cliEnd = "open"
    /\ Len(toClient) < Cap
    /\ toClient' = Append(toClient, Head(unsent))
    /\ unsent' = Tail(unsent)
    /\ IF Tail(unsent) = <<>> THEN AfterSend ELSE UNCHANGED <<srv, last_sent>>
    /\ UNCHANGED <<shm, copy, clientVars, clients, toServer, srvEnd, cliEnd,
                   history>>

\* The client has closed: the first send() is taken and answered with a reset.
PutInVain ==
    /\ Sending
    /\ cliEnd = "fin"
    /\ cliEnd' = "rst"
    /\ unsent' = <<>>
    /\ AfterSend
    /\ UNCHANGED <<shm, copy, clientVars, clients, toClient, toServer, srvEnd,
                   history>>

\* Any other fails, or SIGPIPE ends the process.
PutFails ==
    /\ Sending
    /\ cliEnd = "rst"
    /\ CloseServer
    /\ UNCHANGED <<shm, copy, last_sent, clientVars, clients, toServer, cliEnd,
                   history>>

SigPipe ==
    /\ Sending
    /\ cliEnd = "rst"
    /\ srv' = "gone"
    /\ unsent' = <<>>
    /\ srvEnd' = "rst"
    /\ UNCHANGED <<shm, copy, last_sent, clientVars, clients, toClient, toServer,
                   cliEnd, history>>

\* The recv of the handshake: ACK has to come in one piece, first.
ReceiveAck ==
    /\ srv = "ack"
    /\ toServer # <<>>
    /\ \E n \in 1 .. Len(toServer) :
          /\ toServer' = SubSeq(toServer, n + 1, Len(toServer))
          /\ IF SubSeq(toServer, 1, n) = Units(Ack)
             THEN /\ srv' = "greet2"
                  /\ unsent' = Units(Ok)
                  /\ agreed' = TRUE
                  /\ UNCHANGED <<toClient, srvEnd>>
             ELSE /\ srv' = "accept"
                  /\ unsent' = <<>>
                  /\ srvEnd' = IF toServer' = <<>> THEN "fin" ELSE "rst"
                  /\ UNCHANGED <<toClient, agreed>>
    /\ UNCHANGED <<shm, copy, last_sent, clientVars, clients, cliEnd, ended,
                   split, lastTaken, lastShown>>

\* It fails after five seconds, at the end of the stream, or by a reset.
NoAck ==
    /\ srv = "ack"
    /\ toServer = <<>>
    /\ CloseServer
    /\ UNCHANGED <<shm, copy, last_sent, clientVars, clients, toServer, cliEnd,
                   history>>

\* read_from_shared_memory, and strcmp with what was sent last.
ReadMemory ==
    /\ srv = "loop"
    /\ copy' = shm
    /\ IF shm # last_sent
       THEN srv' = "send" /\ unsent' = Units(shm)
       ELSE srv' = "sleep" /\ UNCHANGED unsent
    /\ UNCHANGED <<shm, last_sent, clientVars, clients, toClient, toServer,
                   srvEnd, cliEnd, history>>

\* The semaphore is gone: lock_semaphore gives up and calls my_exit.
Removed ==
    /\ srv = "loop"
    /\ srv' = "gone"
    /\ srvEnd' = IF toServer = <<>> THEN "fin" ELSE "rst"
    /\ UNCHANGED <<shm, unsent, copy, last_sent, clientVars, clients, toClient,
                   toServer, cliEnd, history>>

\* sleep(1) is over.
Wake ==
    /\ srv = "sleep"
    /\ srv' = "loop"
    /\ UNCHANGED <<shm, unsent, copy, last_sent, clientVars, clients, toClient,
                   toServer, srvEnd, cliEnd, history>>

-----------------------------------------------------------------------------
(* The client.                                                             *)

\* Fault: the client goes without closing its socket.
CloseClient_Keeps == cli' = "closed" /\ UNCHANGED cliEnd

\* close(sockfd), or exit: with data unread, TCP resets the connection.
CloseClient ==
    /\ cli' = "closed"
    /\ cliEnd' = IF toClient' = <<>> /\ srvEnd # "rst" THEN "fin" ELSE "rst"

\* The buffer once got lies over its beginning.
Overlay(got) == <<got[1], IF Len(got) > 1 THEN got[2] ELSE buffer[2]>>

\* strncmp(b, "OK", 2): bytes never written compare any way.
MayBeOk(b) == \A i \in 1 .. 2 : b[i] \in {Units(Ok)[i], Junk}
MayNotBeOk(b) == \E i \in 1 .. 2 : b[i] # Units(Ok)[i]

\* strncmp(buffer, "OK", 2) after a recv of the greeting: on to next, or out.
Greeted(next) ==
    \/ MayBeOk(buffer') /\ cli' = next /\ UNCHANGED cliEnd
    \/ MayNotBeOk(buffer') /\ CloseClient

\* Fault: there is no second recv.
AfterAck_Loop == "check"
AfterAck == "greeting2"

\* A recv of the greeting takes units, or the end of the stream as a message
\* of no bytes: the buffer then keeps what it had.
ReceiveGreeting(at, next) ==
    /\ cli = at
    /\ \/ \E n \in 1 .. Len(toClient) :
             LET got == SubSeq(toClient, 1, n)
             IN  /\ toClient' = SubSeq(toClient, n + 1, Len(toClient))
                 /\ buffer' = Overlay(got)
                 /\ split' = (split \/ got[n] = Units(Ok)[1])
                 /\ lastTaken' = got[n]
                 /\ UNCHANGED ended
       \/ /\ toClient = <<>>
          /\ srvEnd = "fin"
          /\ ended' = TRUE
          /\ UNCHANGED <<toClient, buffer, split, lastTaken>>
    /\ Greeted(next)
    /\ UNCHANGED <<shm, serverVars, expired, clients, toServer, srvEnd, agreed,
                   lastShown>>

Greeting1 == ReceiveGreeting("greeting1", "ack")
Greeting2 == ReceiveGreeting("greeting2", "check")

\* recv fails: ten seconds without data, or a reset.
GreetingFails ==
    /\ cli \in {"greeting1", "greeting2"}
    /\ toClient = <<>>
    /\ srvEnd # "fin"
    /\ UNCHANGED toClient
    /\ CloseClient
    /\ UNCHANGED <<shm, serverVars, buffer, expired, clients, toServer, srvEnd,
                   history>>

\* send(sockfd, "ACK", 3): a server that has closed answers with a reset.
SendAck ==
    /\ cli = "ack"
    /\ UNCHANGED toClient
    /\ CASE srvEnd = "open" -> /\ toServer' = toServer \o Units(Ack)
                               /\ cli' = AfterAck
                               /\ UNCHANGED <<srvEnd, cliEnd>>
         [] srvEnd = "fin" -> /\ srvEnd' \in {"fin", "rst"}
                              /\ cli' = AfterAck
                              /\ UNCHANGED <<toServer, cliEnd>>
         [] srvEnd = "rst" -> CloseClient /\ UNCHANGED <<toServer, srvEnd>>
    /\ UNCHANGED <<shm, serverVars, buffer, expired, clients, history>>

\* The head of the while loop.
CheckLifetime ==
    /\ cli = "check"
    /\ UNCHANGED toClient
    /\ IF expired THEN CloseClient ELSE cli' = "recv" /\ UNCHANGED cliEnd
    /\ UNCHANGED <<shm, serverVars, buffer, expired, clients, toServer, srvEnd,
                   history>>

\* recv returns data, which is printed.
ReceiveValue ==
    /\ cli = "recv"
    /\ \E n \in 1 .. Len(toClient) :
          /\ toClient' = SubSeq(toClient, n + 1, Len(toClient))
          /\ buffer' = Overlay(SubSeq(toClient, 1, n))
          /\ lastTaken' = toClient[n]
          /\ lastShown' = toClient[n]
    /\ cli' = "reply"
    /\ UNCHANGED <<shm, serverVars, expired, clients, toServer, srvEnd, cliEnd,
                   agreed, ended, split>>

\* Fault: no receive timeout.
ReceiveTimeout_Never == FALSE

\* Ten seconds without data: EAGAIN, and round the loop.
ReceiveTimeout ==
    /\ cli = "recv"
    /\ toClient = <<>>
    /\ srvEnd = "open"
    /\ cli' = "check"
    /\ UNCHANGED <<shm, serverVars, buffer, expired, clients, toClient, toServer,
                   srvEnd, cliEnd, history>>

\* The server has closed, or reset, the connection.
ReceiveEnd ==
    /\ cli = "recv"
    /\ toClient = <<>>
    /\ srvEnd # "open"
    /\ UNCHANGED toClient
    /\ CloseClient
    /\ UNCHANGED <<shm, serverVars, buffer, expired, clients, toServer, srvEnd,
                   history>>

\* send(sockfd, "KA", 2) waits for room.  Its result is ignored, but SIGPIPE
\* ends a client that sends into a reset connection.
SendKa ==
    /\ cli = "reply"
    /\ UNCHANGED toClient
    /\ CASE srvEnd = "open" -> /\ Len(toServer) < CapReply
                               /\ toServer' = Append(toServer, <<Ka, 1>>)
                               /\ cli' = "check"
                               /\ UNCHANGED <<srvEnd, cliEnd>>
         [] srvEnd = "fin" -> /\ srvEnd' \in {"fin", "rst"}
                              /\ cli' = "check"
                              /\ UNCHANGED <<toServer, cliEnd>>
         [] srvEnd = "rst" -> /\ \/ CloseClient
                                 \/ cli' = "check" /\ UNCHANGED cliEnd
                              /\ UNCHANGED <<toServer, srvEnd>>
    /\ UNCHANGED <<shm, serverVars, buffer, expired, clients, history>>

ServerStep ==
    \/ PutUnit \/ PutInVain \/ PutFails \/ SigPipe
    \/ ReceiveAck \/ NoAck \/ ReadMemory \/ Wake

ClientStep ==
    \/ Greeting1 \/ Greeting2 \/ GreetingFails \/ SendAck
    \/ CheckLifetime \/ ReceiveValue \/ ReceiveTimeout \/ ReceiveEnd \/ SendKa

Next ==
    \/ Produce
    \/ Connect
    \/ Expire
    \/ ServerStep
    \/ Removed
    \/ ClientStep

Spec == Init /\ [][Next]_vars

\* Either program goes on when it can; their calls to recv return at the
\* latest after the timeouts both set.  Nobody has to connect or to produce.
Fairness == WF_vars(ServerStep) /\ WF_vars(ClientStep)
FairSpec == Spec /\ Fairness

-----------------------------------------------------------------------------
(* Properties.                                                             *)

Unit == [1 .. 2 -> Int]
Ends == {"open", "fin", "rst"}

\* The variables keep their types, and the connection its capacity.
TypeOK ==
    /\ shm \in 0 .. MaxValue
    /\ srv \in {"accept", "greet1", "ack", "greet2", "loop", "send", "sleep",
                "gone"}
    /\ Len(unsent) <= 2
    /\ unsent # <<>> <=> Sending
    /\ copy \in 0 .. MaxValue
    /\ last_sent \in 0 .. MaxValue
    /\ cli \in {"none", "greeting1", "ack", "greeting2", "check", "recv", "reply",
                "closed"}
    /\ buffer \in [1 .. 2 -> Unit]
    /\ expired \in BOOLEAN
    /\ clients \in 0 .. MaxClients
    /\ Len(toClient) <= Cap
    /\ Len(toServer) <= CapReply
    /\ srvEnd \in Ends
    /\ cliEnd \in Ends

InLoop == cli \in {"check", "recv", "reply"}

\* A client that says the handshake was successful talks to a server that
\* thinks so too, whatever the timeouts and refusals on the way; except that
\* the end of the stream passes for the second OK, because the first is still
\* in the buffer, and that a stream cut inside a greeting can pass for one.
AgreedHandshake == InLoop => agreed \/ ended \/ split

\* Nothing of the greeting is shown as a value, unless it was cut in two.
NoGreetingShown == lastShown[1] = Ok => split

\* With both ends open, nothing under way, and the server asleep having found
\* nothing new, the last thing the client took is the end of the present
\* value, however often it changed on the way, and it was printed, unless it
\* came with the second OK: that recv drops what follows the OK.  And except
\* for a client nothing was sent to: last_sent is static, and the value went
\* to a client before this one.
UpToDate ==
    /\ cli = "recv" /\ srv = "sleep"
    /\ toClient = <<>> /\ srvEnd = "open" /\ cliEnd = "open"
    /\ shm = last_sent
    => \/ lastTaken = Units(shm)[2] /\ lastShown \in {lastTaken, Nothing}
       \/ lastTaken = Units(Ok)[2]

\* The client waits for room for an answer nobody will read.
Stuck == cli = "reply" /\ srvEnd = "open" /\ Len(toServer) = CapReply

\* client_lifetime ends a client even if the server never sends anything,
\* unless its answers, which nobody reads, have filled the connection.
LifetimeEnds == (InLoop /\ expired) ~> (~InLoop \/ Stuck)

\* The server does not wait in send() for ever: the client takes what is
\* under way or goes, unless it is itself waiting to answer.
SendCompletes == Sending ~> (~Sending \/ Stuck)
=============================================================================
