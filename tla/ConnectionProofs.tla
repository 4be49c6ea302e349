--------------------------- MODULE ConnectionProofs ---------------------------
(***************************************************************************)
(* Connection proved for any number of clients and of values, and for any  *)
(* room on the two ways.                                                   *)
(*                                                                         *)
(* What is under way to the client is known at each place it may be in: a  *)
(* beginning of the first OK before it answers, nothing while it waits for *)
(* the server's agreement, the second OK and then only values after that,  *)
(* and only values once the greeting is over (StreamInv).  And the last    *)
(* unit that was put is known when the server is between two values        *)
(* (LastInv).                                                              *)
(***************************************************************************)
EXTENDS Connection, SequenceTheorems, TLAPS

Second(m) == <<<<m, 2>>>>

Client == cli \in {"greeting1", "ack", "greeting2", "check", "recv", "reply"}
Serving == srv \notin {"accept", "gone"}

Types ==
    /\ shm \in 0 .. MaxValue /\ copy \in 0 .. MaxValue /\ last_sent \in 0 .. MaxValue
    /\ srv \in {"accept", "greet1", "ack", "greet2", "loop", "send", "sleep",
                "gone"}
    /\ cli \in {"none", "greeting1", "ack", "greeting2", "check", "recv", "reply",
                "closed"}
    /\ buffer \in [1 .. 2 -> Unit]
    /\ clients \in 0 .. MaxClients
    /\ toClient \in Seq(Unit) /\ Len(toClient) <= Cap
    /\ toServer \in Seq(Unit) /\ Len(toServer) <= CapReply
    /\ srvEnd \in Ends /\ cliEnd \in Ends
    /\ lastTaken \in Unit /\ lastShown \in Unit
    /\ expired \in BOOLEAN /\ agreed \in BOOLEAN /\ ended \in BOOLEAN
    /\ split \in BOOLEAN

\* What the server's child still has to put, and what it knows.
ServerInv ==
    /\ copy <= shm /\ last_sent <= shm
    /\ Serving => srvEnd = "open"
    /\ srv \in {"greet1", "ack"} => ~agreed
    /\ srv \in {"greet2", "loop", "send", "sleep"} => agreed
    /\ srv \in {"greet1", "greet2"} => unsent \in {Units(Ok), Second(Ok)}
    /\ srv = "send" => copy > 0 /\ unsent \in {Units(copy), Second(copy)}
    /\ ~Sending => unsent = <<>>

\* What the client has done so far.
ClientInv ==
    /\ Client => cliEnd = "open"
    /\ cli \in {"greeting1", "ack"} => ~agreed /\ toServer = <<>>
    /\ cli \in {"greeting1", "ack", "greeting2"} => lastShown = Nothing
    /\ lastShown \in {lastTaken, Nothing}
    /\ ended => srvEnd # "open" /\ toClient = <<>>

\* A greeting under way from the server, of which the client has taken nothing.
Untouched ==
    \/ toClient = <<>> /\ unsent = Units(Ok)
    \/ toClient = <<<<Ok, 1>>>> /\ unsent = Second(Ok)

StreamInv ==
    /\ cli = "greeting1"
         => /\ toClient \in {<<>>, <<<<Ok, 1>>>>, Units(Ok)}
            /\ srv = "greet1" => Untouched
    /\ cli \in {"ack", "greeting2"} /\ ~split /\ ~agreed
         => toClient = <<>> /\ srv # "greet1"
    /\ cli = "greeting2" /\ ~split /\ agreed
         => /\ toClient # <<>> => toClient[1] = <<Ok, 1>>
            /\ \A k \in 1 .. Len(toClient) : toClient[k][1] = Ok => k <= 2
            /\ srv = "greet2" => Untouched
            /\ srv \in {"loop", "send", "sleep"} => toClient # <<>>
    /\ InLoop /\ ~split
         => /\ agreed \/ ended
            /\ \A k \in 1 .. Len(toClient) : toClient[k][1] # Ok
            /\ srv \notin {"greet1", "ack", "greet2"}

\* The last unit put on the way to the client.
LastPut == IF toClient # <<>> THEN toClient[Len(toClient)] ELSE lastTaken

LastInv ==
    /\ Client
    /\ \/ srv \in {"loop", "sleep"}
       \/ srv = "send" /\ unsent = Units(copy)
    => LastPut \in {<<Ok, 2>>, <<last_sent, 2>>}

IInv == Types /\ ServerInv /\ ClientInv /\ StreamInv /\ LastInv /\ NoGreetingShown

-----------------------------------------------------------------------------
(* Units, and what is taken from a stream and put on it.                   *)

LEMMA Pieces ==
    ASSUME NEW m
    PROVE  /\ Head(Units(m)) = <<m, 1>> /\ Tail(Units(m)) = Second(m)
           /\ Head(Second(m)) = <<m, 2>> /\ Tail(Second(m)) = <<>>
           /\ Len(Units(m)) = 2 /\ Len(Second(m)) = 1
           /\ Units(m) # <<>> /\ Second(m) # <<>> /\ Units(m) # Second(m)
           /\ Units(m)[1] = <<m, 1>> /\ Units(m)[2] = <<m, 2>>
BY DEF Units, Second

LEMMA UnitTypes ==
    /\ \A m \in Int : <<m, 1>> \in Unit /\ <<m, 2>> \in Unit
    /\ \A m \in Int : Units(m) \in Seq(Unit) /\ Second(m) \in Seq(Unit)
    /\ Junk \in Unit /\ Nothing \in Unit /\ <<Ka, 1>> \in Unit
    /\ \A u \in Unit : u[1] \in Int
    /\ Nothing[1] # Ok
BY DEF Unit, Units, Second, Junk, Nothing, Ka, Ok

LEMMA Take ==
    ASSUME NEW s \in Seq(Unit), NEW n \in 1 .. Len(s)
    PROVE  /\ SubSeq(s, 1, n) \in Seq(Unit) /\ Len(SubSeq(s, 1, n)) = n
           /\ \A k \in 1 .. n : SubSeq(s, 1, n)[k] = s[k]
           /\ SubSeq(s, n + 1, Len(s)) \in Seq(Unit)
           /\ Len(SubSeq(s, n + 1, Len(s))) = Len(s) - n
           /\ \A k \in 1 .. Len(s) - n : SubSeq(s, n + 1, Len(s))[k] = s[n + k]
           /\ s # <<>>
           /\ SubSeq(s, n + 1, Len(s)) = <<>> <=> n = Len(s)
<1>1. Len(s) \in Nat /\ \A k \in 1 .. Len(s) : s[k] \in Unit
  BY LenProperties, ElementOfSeq
<1>2. /\ SubSeq(s, 1, n) \in Seq(Unit) /\ Len(SubSeq(s, 1, n)) = n
      /\ \A k \in 1 .. n : SubSeq(s, 1, n)[k] = s[k]
  BY <1>1, SubSeqProperties
<1>3. /\ SubSeq(s, n + 1, Len(s)) \in Seq(Unit)
      /\ Len(SubSeq(s, n + 1, Len(s))) = Len(s) - n
      /\ \A k \in 1 .. Len(s) - n : SubSeq(s, n + 1, Len(s))[k] = s[n + k]
  <2>1. n + 1 \in Int /\ Len(s) \in Int /\ \A k \in n + 1 .. Len(s) : s[k] \in Unit
    BY <1>1
  <2>2. /\ SubSeq(s, n + 1, Len(s)) \in Seq(Unit)
        /\ Len(SubSeq(s, n + 1, Len(s)))
             = IF n + 1 <= Len(s) THEN Len(s) - (n + 1) + 1 ELSE 0
        /\ \A k \in 1 .. Len(s) - (n + 1) + 1 :
              SubSeq(s, n + 1, Len(s))[k] = s[n + 1 + k - 1]
    BY <2>1, SubSeqProperties
  <2> QED
    BY <1>1, <2>2
<1> DEFINE rest == SubSeq(s, n + 1, Len(s))
<1>4. s # <<>>
  BY <1>1, EmptySeq
<1>5. rest = <<>> <=> n = Len(s)
  <2>1. rest \in Seq(Unit) /\ Len(rest) = Len(s) - n
    BY <1>3
  <2> HIDE DEF rest
  <2>2. rest = <<>> <=> Len(rest) = 0
    BY <2>1, EmptySeq
  <2> QED
    BY <1>1, <2>1, <2>2
<1> QED
  BY <1>2, <1>3, <1>4, <1>5

LEMMA Put ==
    ASSUME NEW s \in Seq(Unit), NEW u \in Unit
    PROVE  /\ Append(s, u) \in Seq(Unit) /\ Len(Append(s, u)) = Len(s) + 1
           /\ Len(s) \in Nat
           /\ \A k \in 1 .. Len(s) : Append(s, u)[k] = s[k]
           /\ Append(s, u)[Len(s) + 1] = u
           /\ Append(s, u) # <<>>
BY AppendProperties, LenProperties

LEMMA Cut ==
    ASSUME NEW s \in Seq(Unit), NEW n \in 0 .. Len(s)
    PROVE  /\ SubSeq(s, 1, n) \in Seq(Unit) /\ Len(SubSeq(s, 1, n)) = n
           /\ Len(s) \in Nat
           /\ \A k \in 1 .. n : SubSeq(s, 1, n)[k] = s[k]
<1>1. Len(s) \in Nat /\ \A k \in 1 .. Len(s) : s[k] \in Unit
  BY LenProperties, ElementOfSeq
<1> QED
  BY <1>1, SubSeqProperties

-----------------------------------------------------------------------------
(* What the larger actions do.                                             *)

\* What the server's child is sending.
Message == IF srv = "send" THEN copy ELSE Ok

LEMMA PutEffect ==
    ASSUME Types, ServerInv, PutUnit
    PROVE  /\ Message \in Int /\ cliEnd = "open" /\ Len(toClient) < Cap
           /\ UNCHANGED <<shm, copy, clientVars, clients, toServer, srvEnd, cliEnd,
                          history>>
           /\ \/ /\ unsent = Units(Message) /\ unsent' = Second(Message)
                 /\ toClient' = Append(toClient, <<Message, 1>>)
                 /\ Sending /\ UNCHANGED <<srv, last_sent>>
              \/ /\ unsent = Second(Message) /\ unsent' = <<>>
                 /\ toClient' = Append(toClient, <<Message, 2>>)
                 /\ \/ srv = "greet1" /\ srv' = "ack" /\ UNCHANGED last_sent
                    \/ srv = "greet2" /\ srv' = "loop" /\ UNCHANGED last_sent
                    \/ srv = "send" /\ srv' = "sleep" /\ last_sent' = copy
<1>1. Sending /\ Message \in Int /\ unsent \in {Units(Message), Second(Message)}
  BY DEF PutUnit, Sending, ServerInv, Types, Message, Ok
<1>2. /\ toClient' = Append(toClient, Head(unsent)) /\ unsent' = Tail(unsent)
      /\ IF Tail(unsent) = <<>> THEN AfterSend ELSE UNCHANGED <<srv, last_sent>>
      /\ cliEnd = "open" /\ Len(toClient) < Cap
      /\ UNCHANGED <<shm, copy, clientVars, clients, toServer, srvEnd, cliEnd,
                     history>>
  BY DEF PutUnit
<1>3. AfterSend => \/ srv = "greet1" /\ srv' = "ack" /\ UNCHANGED last_sent
                   \/ srv = "greet2" /\ srv' = "loop" /\ UNCHANGED last_sent
                   \/ srv = "send" /\ srv' = "sleep" /\ last_sent' = copy
  BY <1>1 DEF AfterSend, Sending, Remembered
<1>4. /\ Head(Units(Message)) = <<Message, 1>> /\ Tail(Units(Message)) = Second(Message)
      /\ Head(Second(Message)) = <<Message, 2>> /\ Tail(Second(Message)) = <<>>
      /\ Second(Message) # <<>>
  BY Pieces
<1>5. CASE unsent = Units(Message)
  BY <1>1, <1>2, <1>4, <1>5
<1>6. CASE unsent = Second(Message)
  BY <1>1, <1>2, <1>3, <1>4, <1>6
<1> QED
  BY <1>1, <1>5, <1>6

LEMMA InVainEffect ==
    PutInVain =>
        /\ cliEnd = "fin" /\ cliEnd' = "rst" /\ unsent' = <<>>
        /\ \/ srv = "greet1" /\ srv' = "ack" /\ UNCHANGED last_sent
           \/ srv = "greet2" /\ srv' = "loop" /\ UNCHANGED last_sent
           \/ srv = "send" /\ srv' = "sleep" /\ last_sent' = copy
        /\ UNCHANGED <<shm, copy, clientVars, clients, toClient, toServer, srvEnd,
                       history>>
BY DEF PutInVain, Sending, AfterSend, Remembered

\* The child has left the connection, which may have lost its end.
LEMMA LeaveEffect ==
    ASSUME Types, PutFails \/ NoAck
    PROVE  /\ srv' = "accept" /\ unsent' = <<>> /\ srvEnd' \in {"fin", "rst"}
           /\ \E n \in 0 .. Len(toClient) :
                 toClient' = SubSeq(toClient, 1, n)
           /\ srv \notin {"accept", "gone"}
           /\ UNCHANGED <<shm, copy, last_sent, clientVars, clients, toServer,
                          cliEnd, history>>
<1>1. toClient = SubSeq(toClient, 1, Len(toClient)) /\ Len(toClient) \in Nat
  BY SubSeqFull, LenProperties DEF Types
<1>2. CloseServer => \E n \in 0 .. Len(toClient) : toClient' = SubSeq(toClient, 1, n)
  BY <1>1 DEF CloseServer
<1> QED
  BY <1>2 DEF PutFails, NoAck, CloseServer, Sending

\* A recv of the greeting takes n units.
Takes(n) ==
    /\ toClient' = SubSeq(toClient, n + 1, Len(toClient))
    /\ buffer' = Overlay(SubSeq(toClient, 1, n))
    /\ split' = (split \/ SubSeq(toClient, 1, n)[n] = Units(Ok)[1])
    /\ lastTaken' = SubSeq(toClient, 1, n)[n]
    /\ UNCHANGED ended

LEMMA GreetingEffect ==
    ASSUME NEW at, NEW next, ReceiveGreeting(at, next)
    PROVE  /\ cli = at
           /\ UNCHANGED <<shm, serverVars, expired, clients, toServer, srvEnd, agreed,
                          lastShown>>
           /\ \/ cli' = next /\ UNCHANGED cliEnd
              \/ cli' = "closed" /\ cliEnd' \in {"fin", "rst"}
           /\ \/ \E n \in 1 .. Len(toClient) : Takes(n)
              \/ /\ toClient = <<>> /\ srvEnd = "fin" /\ ended' = TRUE
                 /\ UNCHANGED <<toClient, buffer, split, lastTaken>>
<1>1. \/ cli' = next /\ UNCHANGED cliEnd
      \/ cli' = "closed" /\ cliEnd' \in {"fin", "rst"}
  BY DEF ReceiveGreeting, Greeted, CloseClient
<1> QED
  BY <1>1, Zenon DEF ReceiveGreeting, Takes

\* A greeting, of either kind, by what it does to the stream.
LEMMA Greeting ==
    ASSUME Types, Greeting1 \/ Greeting2
    PROVE  /\ \/ cli = "greeting1" /\ cli' \in {"ack", "closed"}
              \/ cli = "greeting2" /\ cli' \in {"check", "closed"}
           /\ UNCHANGED <<shm, serverVars, expired, clients, toServer, srvEnd, agreed,
                          lastShown>>
           /\ cli' # "closed" => UNCHANGED cliEnd
           /\ cliEnd' \in Ends
           /\ buffer' \in [1 .. 2 -> Unit]
           /\ toClient' \in Seq(Unit) /\ Len(toClient') <= Len(toClient)
           /\ lastTaken' \in Unit /\ split' \in BOOLEAN /\ ended' \in BOOLEAN
           /\ \/ \E n \in 1 .. Len(toClient) :
                    /\ toClient' = SubSeq(toClient, n + 1, Len(toClient))
                    /\ (~split' => ~split /\ toClient[n] # <<Ok, 1>>)
                    /\ lastTaken' = toClient[n]
                    /\ UNCHANGED ended
              \/ /\ toClient = <<>> /\ srvEnd = "fin" /\ ended' = TRUE
                 /\ UNCHANGED <<toClient, split, lastTaken>>
<1>1. PICK at \in {"greeting1", "greeting2"}, next \in {"ack", "check"} :
         /\ ReceiveGreeting(at, next)
         /\ at = "greeting1" => next = "ack"
         /\ at = "greeting2" => next = "check"
  <2>1. CASE Greeting1
    BY <2>1 DEF Greeting1
  <2>2. CASE Greeting2
    BY <2>2 DEF Greeting2
  <2> QED
    BY <2>1, <2>2
<1>2. /\ cli = at
      /\ UNCHANGED <<shm, serverVars, expired, clients, toServer, srvEnd, agreed,
                     lastShown>>
      /\ \/ cli' = next /\ UNCHANGED cliEnd
         \/ cli' = "closed" /\ cliEnd' \in {"fin", "rst"}
  BY <1>1, GreetingEffect
<1>3. cliEnd' \in Ends
  BY <1>2 DEF Types, Ends
<1>4. CASE /\ toClient = <<>> /\ srvEnd = "fin" /\ ended' = TRUE
           /\ UNCHANGED <<toClient, buffer, split, lastTaken>>
  <2>1. /\ buffer' \in [1 .. 2 -> Unit] /\ toClient' \in Seq(Unit)
        /\ Len(toClient') <= Len(toClient) /\ lastTaken' \in Unit
    BY <1>4, LenProperties DEF Types
  <2>2. split' \in BOOLEAN /\ ended' \in BOOLEAN
    BY <1>4 DEF Types
  <2> QED
    BY <1>1, <1>2, <1>3, <1>4, <2>1, <2>2
<1>5. ASSUME NEW n \in 1 .. Len(toClient), Takes(n)
      PROVE  /\ buffer' \in [1 .. 2 -> Unit]
             /\ toClient' \in Seq(Unit) /\ Len(toClient') <= Len(toClient)
             /\ lastTaken' \in Unit /\ split' \in BOOLEAN /\ ended' \in BOOLEAN
             /\ (~split' => ~split /\ toClient[n] # <<Ok, 1>>)
             /\ lastTaken' = toClient[n]
             /\ UNCHANGED ended
  <2> DEFINE got == SubSeq(toClient, 1, n)
  <2>0. toClient \in Seq(Unit) /\ Len(toClient) \in Nat /\ toClient[n] \in Unit
    BY LenProperties, ElementOfSeq DEF Types
  <2>1. /\ got \in Seq(Unit) /\ Len(got) = n /\ \A k \in 1 .. n : got[k] = toClient[k]
        /\ toClient' \in Seq(Unit) /\ Len(toClient') = Len(toClient) - n
    BY <1>5, <2>0, Take DEF Takes
  <2>2. \A k \in 1 .. n : got[k] \in Unit
    BY <2>1, ElementOfSeq
  <2>3. got[n] = toClient[n] /\ Units(Ok)[1] = <<Ok, 1>>
    BY <2>1, Pieces
  <2>4. split' \in BOOLEAN /\ (~split' => ~split /\ toClient[n] # <<Ok, 1>>)
    <3>1. split' = (split \/ toClient[n] = <<Ok, 1>>)
      BY <1>5, <2>3 DEF Takes
    <3> QED
      BY <3>1, Zenon
  <2> HIDE DEF got
  <2>5. Overlay(got) \in [1 .. 2 -> Unit]
    <3>1. got[1] \in Unit /\ buffer[2] \in Unit
      BY <2>2 DEF Types
    <3>2. (IF Len(got) > 1 THEN got[2] ELSE buffer[2]) \in Unit
      BY <2>1, <2>2, <3>1
    <3> QED
      BY <3>1, <3>2 DEF Overlay
  <2>6. ended' \in BOOLEAN
    BY <1>5 DEF Types, Takes
  <2> QED
    BY <1>5, <2>0, <2>1, <2>3, <2>4, <2>5, <2>6 DEF got, Takes
<1>6. \/ \E n \in 1 .. Len(toClient) : Takes(n)
      \/ /\ toClient = <<>> /\ srvEnd = "fin" /\ ended' = TRUE
         /\ UNCHANGED <<toClient, buffer, split, lastTaken>>
  BY <1>1, GreetingEffect
<1>7. CASE \E n \in 1 .. Len(toClient) : Takes(n)
  <2>1. PICK n \in 1 .. Len(toClient) : Takes(n)
    BY <1>7
  <2>2. /\ buffer' \in [1 .. 2 -> Unit]
        /\ toClient' \in Seq(Unit) /\ Len(toClient') <= Len(toClient)
        /\ lastTaken' \in Unit /\ split' \in BOOLEAN /\ ended' \in BOOLEAN
        /\ (~split' => ~split /\ toClient[n] # <<Ok, 1>>)
        /\ lastTaken' = toClient[n]
        /\ UNCHANGED ended
    BY <1>5, <2>1
  <2> QED
    BY <1>1, <1>2, <1>3, <2>1, <2>2 DEF Takes
<1> QED
  BY <1>4, <1>6, <1>7

\* A recv of the loop.
LEMMA ValueEffect ==
    ASSUME Types, ReceiveValue
    PROVE  /\ buffer' \in [1 .. 2 -> Unit]
           /\ toClient' \in Seq(Unit) /\ Len(toClient') <= Len(toClient)
           /\ \E n \in 1 .. Len(toClient) :
                 /\ toClient' = SubSeq(toClient, n + 1, Len(toClient))
                 /\ toClient[n] \in Unit
                 /\ lastTaken' = toClient[n] /\ lastShown' = toClient[n]
<1>1. PICK n \in 1 .. Len(toClient) :
         /\ toClient' = SubSeq(toClient, n + 1, Len(toClient))
         /\ buffer' = Overlay(SubSeq(toClient, 1, n))
         /\ lastTaken' = toClient[n] /\ lastShown' = toClient[n]
  BY DEF ReceiveValue
<1> DEFINE got == SubSeq(toClient, 1, n)
<1>2. toClient \in Seq(Unit) /\ Len(toClient) \in Nat /\ toClient[n] \in Unit
  BY LenProperties, ElementOfSeq DEF Types
<1>3. /\ got \in Seq(Unit) /\ Len(got) = n
      /\ toClient' \in Seq(Unit) /\ Len(toClient') = Len(toClient) - n
  BY <1>1, <1>2, Take
<1>4. \A k \in 1 .. n : got[k] \in Unit
  BY <1>3, ElementOfSeq
<1> HIDE DEF got
<1>5. Overlay(got) \in [1 .. 2 -> Unit]
  <2>1. got[1] \in Unit /\ buffer[2] \in Unit
    BY <1>4 DEF Types
  <2>2. (IF Len(got) > 1 THEN got[2] ELSE buffer[2]) \in Unit
    BY <1>3, <1>4, <2>1
  <2> QED
    BY <2>1, <2>2 DEF Overlay
<1> QED
  BY <1>1, <1>2, <1>3, <1>5 DEF got

LEMMA AckEffect ==
    ASSUME Types, ReceiveAck
    PROVE  /\ toServer' \in Seq(Unit) /\ Len(toServer') <= Len(toServer)
           /\ srv = "ack" /\ toServer # <<>>
           /\ \/ /\ srv' = "greet2" /\ unsent' = Units(Ok) /\ agreed' = TRUE
                 /\ UNCHANGED srvEnd
              \/ /\ srv' = "accept" /\ unsent' = <<>> /\ UNCHANGED agreed
                 /\ srvEnd' \in {"fin", "rst"}
           /\ UNCHANGED <<shm, copy, last_sent, clientVars, clients, toClient, cliEnd,
                          ended, split, lastTaken, lastShown>>
<1>1. PICK n \in 1 .. Len(toServer) :
         /\ toServer' = SubSeq(toServer, n + 1, Len(toServer))
         /\ IF SubSeq(toServer, 1, n) = Units(Ack)
            THEN /\ srv' = "greet2" /\ unsent' = Units(Ok) /\ agreed' = TRUE
                 /\ UNCHANGED <<toClient, srvEnd>>
            ELSE /\ srv' = "accept" /\ unsent' = <<>>
                 /\ srvEnd' = IF toServer' = <<>> THEN "fin" ELSE "rst"
                 /\ UNCHANGED <<toClient, agreed>>
  BY DEF ReceiveAck
<1>2. toServer \in Seq(Unit) /\ Len(toServer) \in Nat
  BY LenProperties DEF Types
<1>3. toServer' \in Seq(Unit) /\ Len(toServer') = Len(toServer) - n
  BY <1>1, <1>2, Take
<1>4. Len(toServer') <= Len(toServer)
  BY <1>2, <1>3
<1> QED
  BY <1>1, <1>3, <1>4 DEF ReceiveAck

\* An answer of the client, ACK or KA.
LEMMA AnswerEffect ==
    ASSUME Types, ClientInv, SendAck \/ SendKa
    PROVE  /\ \/ SendAck /\ cli = "ack" /\ cli' \in {"greeting2", "closed"}
              \/ SendKa /\ cli = "reply" /\ cli' \in {"check", "closed"}
           /\ toServer' \in Seq(Unit) /\ Len(toServer') <= CapReply
           /\ srvEnd = "open" => UNCHANGED srvEnd
           /\ srvEnd # "open" => UNCHANGED toServer /\ srvEnd' # "open"
           /\ srvEnd' \in Ends /\ cliEnd' \in Ends
           /\ cli' # "closed" => UNCHANGED cliEnd
           /\ UNCHANGED <<shm, serverVars, buffer, expired, clients, toClient,
                          history>>
<1>0. srvEnd \in {"open", "fin", "rst"} /\ cliEnd \in Ends
  BY DEF Types, Ends
<1>1. toServer \in Seq(Unit) /\ Len(toServer) <= CapReply
  BY DEF Types
<1>2. CapReply \in Nat /\ CapReply >= 2
  BY BoundsAssumption
<1>3. UNCHANGED toServer => toServer' \in Seq(Unit) /\ Len(toServer') <= CapReply
  BY <1>1
<1>4. CASE SendAck
  <2>1. toServer = <<>> /\ cli = "ack"
    BY <1>4 DEF SendAck, ClientInv
  <2>2. toServer \o Units(Ack) \in Seq(Unit) /\ Len(toServer \o Units(Ack)) = 2
    <3>1. Ack \in Int
      BY DEF Ack
    <3>2. Units(Ack) \in Seq(Unit) /\ Len(Units(Ack)) = 2
      BY <3>1, UnitTypes, Pieces
    <3>3. <<>> \o Units(Ack) = Units(Ack)
      BY <3>2, ConcatEmptySeq
    <3> QED
      BY <2>1, <3>2, <3>3
  <2>3. toServer' = toServer \o Units(Ack) \/ UNCHANGED toServer
    BY <1>0, <1>4 DEF SendAck
  <2>4. toServer' \in Seq(Unit) /\ Len(toServer') <= CapReply
    BY <2>2, <2>3, <1>2, <1>3
  <2> QED
    BY <1>0, <1>4, <2>4 DEF SendAck, AfterAck, CloseClient, Ends
<1>5. CASE SendKa
  <2>1. toServer \in Seq(Unit) /\ <<Ka, 1>> \in Unit
    BY UnitTypes DEF Types
  <2>2. /\ Append(toServer, <<Ka, 1>>) \in Seq(Unit)
        /\ Len(Append(toServer, <<Ka, 1>>)) = Len(toServer) + 1
        /\ Len(toServer) \in Nat
    BY <2>1, Put
  <2>3. \/ toServer' = Append(toServer, <<Ka, 1>>) /\ Len(toServer) < CapReply
        \/ UNCHANGED toServer
    BY <1>0, <1>5 DEF SendKa
  <2>4. toServer' \in Seq(Unit) /\ Len(toServer') <= CapReply
    BY <2>2, <2>3, <1>2, <1>3
  <2> QED
    BY <1>0, <1>5, <2>4 DEF SendKa, CloseClient, Ends
<1> QED
  BY <1>4, <1>5

\* The client goes round its loop, or out of it, without data.
LEMMA EmptyHandedEffect ==
    (GreetingFails \/ CheckLifetime \/ ReceiveTimeout \/ ReceiveEnd) =>
        /\ \/ cli \in {"check", "recv"} /\ cli' \in {"check", "recv"}
              /\ UNCHANGED cliEnd
           \/ cli' = "closed" /\ cliEnd' \in Ends
           \/ cli' = "closed" /\ UNCHANGED cliEnd
        /\ UNCHANGED <<shm, serverVars, buffer, expired, clients, toClient, toServer,
                       srvEnd, history>>
BY DEF GreetingFails, CheckLifetime, ReceiveTimeout, ReceiveEnd, CloseClient, Ends

-----------------------------------------------------------------------------
(* The parts of the invariant, step by step.                               *)

LEMMA InitInv == Init => IInv
<1> SUFFICES ASSUME Init PROVE IInv
  OBVIOUS
<1>1. Types
  <2>1. Junk \in Unit /\ Nothing \in Unit
    BY UnitTypes
  <2>2. buffer \in [1 .. 2 -> Unit]
    BY <2>1 DEF Init
  <2>3. /\ expired \in BOOLEAN /\ agreed \in BOOLEAN /\ ended \in BOOLEAN
        /\ split \in BOOLEAN
    BY DEF Init
  <2>4. /\ toClient \in Seq(Unit) /\ Len(toClient) <= Cap
        /\ toServer \in Seq(Unit) /\ Len(toServer) <= CapReply
    BY BoundsAssumption, EmptySeq DEF Init
  <2> QED
    BY <2>1, <2>2, <2>3, <2>4, BoundsAssumption DEF Init, Types, Ends, Empty
<1>2. ServerInv /\ ClientInv /\ StreamInv /\ LastInv
  BY DEF Init, ServerInv, ClientInv, StreamInv, LastInv, Serving, Sending, Client,
         InLoop, Empty
<1>3. NoGreetingShown
  BY UnitTypes DEF Init, NoGreetingShown
<1> QED
  BY <1>1, <1>2, <1>3 DEF IInv

LEMMA Shorter ==
    ASSUME NEW s \in Seq(Unit), NEW t \in Seq(Unit), NEW c \in Nat,
           Len(s) <= c, Len(t) <= Len(s)
    PROVE  Len(t) <= c
BY LenProperties

LEMMA NextTypes ==
    ASSUME Types, ServerInv, ClientInv, [Next]_vars
    PROVE  Types'
<1> USE DEF Types
<1>0. /\ MaxValue \in Nat /\ MaxClients \in Nat /\ Cap \in Nat /\ CapReply \in Nat
      /\ \A s \in Seq(Unit) : Len(s) \in Nat
  BY BoundsAssumption, LenProperties
<1>1. CASE Produce
  BY <1>0, <1>1 DEF Produce, serverVars, clientVars, history
<1>2. CASE Connect
  <2>1. /\ agreed' \in BOOLEAN /\ ended' \in BOOLEAN /\ split' \in BOOLEAN
        /\ expired' \in BOOLEAN
    BY <1>2 DEF Connect
  <2>2. /\ buffer' \in [1 .. 2 -> Unit] /\ lastTaken' \in Unit /\ lastShown' \in Unit
    BY <1>2, UnitTypes DEF Connect
  <2>3. /\ toClient' \in Seq(Unit) /\ Len(toClient') <= Cap
        /\ toServer' \in Seq(Unit) /\ Len(toServer') <= CapReply
    BY <1>0, <1>2, EmptySeq DEF Connect
  <2>4. srvEnd' \in Ends /\ cliEnd' \in Ends /\ clients' \in 0 .. MaxClients
    BY <1>0, <1>2 DEF Connect, Ends
  <2> QED
    BY <1>2, <2>1, <2>2, <2>3, <2>4 DEF Connect
<1>3. CASE Expire
  <2>1. expired' \in BOOLEAN
    BY <1>3 DEF Expire
  <2> QED
    BY <1>3, <2>1 DEF Expire, serverVars, history
<1>4. CASE PutUnit
  <2>1. \E u \in Unit : toClient' = Append(toClient, u)
    BY <1>4, PutEffect, UnitTypes
  <2>2. toClient' \in Seq(Unit) /\ Len(toClient') <= Cap
    BY <1>0, <1>4, <2>1, Put, PutEffect
  <2> QED
    BY <1>4, <2>2, PutEffect DEF clientVars, history
<1>5. CASE PutInVain
  BY <1>5, InVainEffect DEF clientVars, history, Ends
<1>6. CASE PutFails \/ NoAck
  <2>1. toClient' \in Seq(Unit) /\ Len(toClient') <= Cap
    <3>1. PICK n \in 0 .. Len(toClient) : toClient' = SubSeq(toClient, 1, n)
      BY <1>6, LeaveEffect
    <3>2. toClient' \in Seq(Unit) /\ Len(toClient') = n /\ Len(toClient) \in Nat
      BY <3>1, Cut
    <3>3. Len(toClient') <= Len(toClient)
      BY <3>1, <3>2
    <3> QED
      BY <1>0, <3>2, <3>3, Shorter
  <2> QED
    BY <1>6, <2>1, LeaveEffect DEF clientVars, history, Ends
<1>7. CASE SigPipe
  BY <1>7 DEF SigPipe, clientVars, history, Ends
<1>8. CASE ReceiveAck
  <2>1. agreed' \in BOOLEAN
    BY <1>8, AckEffect
  <2>2. toServer' \in Seq(Unit) /\ Len(toServer') <= CapReply
    <3>1. toServer' \in Seq(Unit) /\ Len(toServer') <= Len(toServer)
      BY <1>8, AckEffect
    <3> QED
      BY <1>0, <3>1, Shorter
  <2> QED
    BY <1>8, <2>1, <2>2, AckEffect DEF clientVars, Ends
<1>9. CASE ReadMemory
  BY <1>9 DEF ReadMemory, clientVars, history
<1>10. CASE Removed
  BY <1>10 DEF Removed, clientVars, history, Ends
<1>11. CASE Wake
  BY <1>11 DEF Wake, clientVars, history
<1>12. CASE Greeting1 \/ Greeting2
  <2>1. toClient' \in Seq(Unit) /\ Len(toClient') <= Cap
    <3>1. toClient' \in Seq(Unit) /\ Len(toClient') <= Len(toClient)
      BY <1>12, Greeting
    <3> QED
      BY <1>0, <3>1, Shorter
  <2> QED
    BY <1>12, <2>1, Greeting DEF serverVars
<1>13. CASE SendAck \/ SendKa
  BY <1>13, AnswerEffect DEF serverVars, history
<1>14. CASE GreetingFails \/ CheckLifetime \/ ReceiveTimeout \/ ReceiveEnd
  BY <1>14, EmptyHandedEffect DEF serverVars, history
<1>15. CASE ReceiveValue
  <2>1. toClient' \in Seq(Unit) /\ Len(toClient') <= Cap
    BY <1>0, <1>15, ValueEffect
  <2> QED
    BY <1>15, <2>1, ValueEffect DEF ReceiveValue, serverVars
<1>16. CASE UNCHANGED vars
  BY <1>16 DEF vars, serverVars, clientVars, history
<1> QED
  BY <1>1, <1>2, <1>3, <1>4, <1>5, <1>6, <1>7, <1>8, <1>9, <1>10, <1>11, <1>12,
     <1>13, <1>14, <1>15, <1>16 DEF Next, ServerStep, ClientStep

LEMMA NextServer ==
    ASSUME Types, ServerInv, ClientInv, [Next]_vars
    PROVE  ServerInv'
<1> USE DEF ServerInv, Serving, Sending
<1>0. /\ shm \in Nat /\ copy \in Nat /\ last_sent \in Nat
      /\ \A m : Units(m) # <<>> /\ Second(m) # <<>> /\ Units(m) # Second(m)
  BY BoundsAssumption, Pieces DEF Types
<1>1. CASE Produce
  BY <1>0, <1>1 DEF Produce, serverVars, clientVars, history
<1>2. CASE Connect
  BY <1>0, <1>2 DEF Connect
<1>3. CASE Expire
  BY <1>0, <1>3 DEF Expire, serverVars, history
<1>4. CASE PutUnit
  BY <1>0, <1>4, PutEffect DEF Message, history
<1>5. CASE PutInVain
  BY <1>0, <1>5, InVainEffect DEF history
<1>6. CASE PutFails \/ NoAck
  BY <1>0, <1>6, LeaveEffect DEF history
<1>7. CASE SigPipe \/ Removed \/ Wake
  BY <1>0, <1>7 DEF SigPipe, Removed, Wake, history
<1>8. CASE ReceiveAck
  BY <1>0, <1>8, AckEffect
<1>9. CASE ReadMemory
  BY <1>0, <1>9 DEF ReadMemory, history
<1>10. CASE Greeting1 \/ Greeting2
  <2>1. UNCHANGED <<shm, srv, unsent, copy, last_sent, srvEnd, agreed>>
    BY <1>10, Greeting DEF serverVars
  <2> QED
    BY <1>0, <2>1
<1>11. CASE SendAck \/ SendKa
  BY <1>0, <1>11, AnswerEffect DEF serverVars, history
<1>12. CASE GreetingFails \/ CheckLifetime \/ ReceiveTimeout \/ ReceiveEnd
  BY <1>0, <1>12, EmptyHandedEffect DEF serverVars, history
<1>13. CASE ReceiveValue \/ UNCHANGED vars
  BY <1>0, <1>13 DEF ReceiveValue, vars, serverVars, history
<1> QED
  BY <1>1, <1>2, <1>3, <1>4, <1>5, <1>6, <1>7, <1>8, <1>9, <1>10, <1>11, <1>12,
     <1>13 DEF Next, ServerStep, ClientStep

LEMMA NextClient ==
    ASSUME Types, ServerInv, ClientInv, [Next]_vars
    PROVE  ClientInv'
<1> USE DEF ClientInv, Client
<1>1. CASE Produce
  BY <1>1 DEF Produce, clientVars, history
<1>2. CASE Connect
  BY <1>2 DEF Connect
<1>3. CASE Expire
  BY <1>3 DEF Expire, history
<1>4. CASE PutUnit
  <2>1. srvEnd = "open"
    BY <1>4, PutEffect DEF ServerInv, Serving, Sending
  <2> QED
    BY <1>4, <2>1, PutEffect DEF clientVars, history
<1>5. CASE PutInVain
  BY <1>5, InVainEffect DEF clientVars, history
<1>6. CASE PutFails \/ NoAck
  <2>1. srvEnd = "open"
    BY <1>6, LeaveEffect DEF ServerInv, Serving
  <2> QED
    BY <1>6, <2>1, LeaveEffect DEF clientVars, history
<1>7. CASE SigPipe \/ Removed \/ Wake
  BY <1>7 DEF SigPipe, Removed, Wake, clientVars, history, ServerInv, Serving,
              Sending
<1>8. CASE ReceiveAck
  <2>1. srvEnd = "open" /\ cli \notin {"greeting1", "ack"}
    BY <1>8, AckEffect DEF ServerInv, Serving
  <2> QED
    BY <1>8, <2>1, AckEffect DEF clientVars
<1>9. CASE ReadMemory
  BY <1>9 DEF ReadMemory, clientVars, history
<1>10. CASE Greeting1 \/ Greeting2
  <2>1. /\ cli \in {"greeting1", "greeting2"} /\ (cli' = "ack" => cli = "greeting1")
        /\ cli' \in {"ack", "check", "closed"}
        /\ cli' # "closed" => UNCHANGED cliEnd
        /\ UNCHANGED <<toServer, srvEnd, agreed, lastShown>>
    BY <1>10, Greeting DEF serverVars
  <2>2. ended' => srvEnd' # "open" /\ toClient' = <<>>
    <3>1. CASE toClient = <<>> /\ srvEnd = "fin" /\ UNCHANGED toClient
      BY <2>1, <3>1
    <3>2. CASE toClient # <<>> /\ UNCHANGED ended
      BY <3>2
    <3>3. (\E n \in 1 .. Len(toClient) : TRUE) => toClient # <<>>
      BY Take DEF Types
    <3> QED
      BY <1>10, <3>1, <3>2, <3>3, Greeting
  <2> QED
    BY <2>1, <2>2
<1>11. CASE SendAck \/ SendKa
  BY <1>11, AnswerEffect DEF history
<1>12. CASE GreetingFails \/ CheckLifetime \/ ReceiveTimeout \/ ReceiveEnd
  BY <1>12, EmptyHandedEffect DEF history
<1>13. CASE ReceiveValue \/ UNCHANGED vars
  <2>1. CASE ReceiveValue
    <3>1. PICK n \in 1 .. Len(toClient) :
             lastTaken' = toClient[n] /\ lastShown' = toClient[n]
      BY <2>1, ValueEffect
    <3>2. toClient # <<>>
      BY <3>1, Take DEF Types
    <3> QED
      BY <2>1, <3>1, <3>2 DEF ReceiveValue
  <2> QED
    BY <1>13, <2>1 DEF vars, clientVars, history
<1> QED
  BY <1>1, <1>2, <1>3, <1>4, <1>5, <1>6, <1>7, <1>8, <1>9, <1>10, <1>11, <1>12,
     <1>13 DEF Next, ServerStep, ClientStep

-----------------------------------------------------------------------------
(* What is under way to the client.                                        *)

LEMMA ShortSequences ==
    ASSUME NEW s \in Seq(Unit)
    PROVE  /\ \A u \in Unit : Len(s) = 1 /\ s[1] = u => s = <<u>>
           /\ \A u, v \in Unit : Len(s) = 2 /\ s[1] = u /\ s[2] = v => s = <<u, v>>
<1>1. ASSUME NEW u \in Unit, Len(s) = 1, s[1] = u
      PROVE  s = <<u>>
  <2>1. <<u>> \in Seq(Unit) /\ Len(<<u>>) = 1 /\ <<u>>[1] = u
    OBVIOUS
  <2>2. \A i \in 1 .. Len(s) : s[i] = <<u>>[i]
    BY <1>1, <2>1
  <2> QED
    BY <1>1, <2>1, <2>2, SeqEqual
<1>2. ASSUME NEW u \in Unit, NEW v \in Unit, Len(s) = 2, s[1] = u, s[2] = v
      PROVE  s = <<u, v>>
  <2>1. /\ <<u, v>> \in Seq(Unit) /\ Len(<<u, v>>) = 2
        /\ <<u, v>>[1] = u /\ <<u, v>>[2] = v
    OBVIOUS
  <2>2. \A i \in 1 .. Len(s) : s[i] = <<u, v>>[i]
    BY <1>2, <2>1
  <2> QED
    BY <1>2, <2>1, <2>2, SeqEqual
<1> QED
  BY <1>1, <1>2

LEMMA Beginnings ==
    ASSUME NEW s \in {<<>>, <<<<Ok, 1>>>>, Units(Ok)}
    PROVE  /\ s \in Seq(Unit) /\ Len(s) <= 2
           /\ \A k \in 1 .. Len(s) : s[k] = <<Ok, k>>
           /\ s # <<>> => s[1] = <<Ok, 1>>
           /\ \A n \in 0 .. Len(s) :
                 SubSeq(s, 1, n) \in {<<>>, <<<<Ok, 1>>>>, Units(Ok)}
<1>1. <<Ok, 1>> \in Unit /\ <<Ok, 2>> \in Unit
  BY UnitTypes DEF Ok
<1>2. CASE s = <<>>
  <2>1. \A n \in 0 .. Len(s) : SubSeq(s, 1, n) = <<>>
    BY <1>2, SubSeqEmpty
  <2> QED
    BY <1>2, <2>1
<1>3. CASE s = <<<<Ok, 1>>>>
  <2>1. s \in Seq(Unit) /\ Len(s) = 1 /\ s[1] = <<Ok, 1>>
    BY <1>1, <1>3
  <2>2. SubSeq(s, 1, 0) = <<>> /\ SubSeq(s, 1, 1) = s
    BY <2>1, SubSeqEmpty, SubSeqFull
  <2> QED
    BY <1>3, <2>1, <2>2
<1>4. CASE s = Units(Ok)
  <2>1. s \in Seq(Unit) /\ Len(s) = 2 /\ s[1] = <<Ok, 1>> /\ s[2] = <<Ok, 2>>
    BY <1>1, <1>4 DEF Units
  <2>2. SubSeq(s, 1, 0) = <<>> /\ SubSeq(s, 1, 2) = s
    BY <2>1, SubSeqEmpty, SubSeqFull
  <2>3. SubSeq(s, 1, 1) = <<<<Ok, 1>>>>
    <3>1. /\ SubSeq(s, 1, 1) \in Seq(Unit) /\ Len(SubSeq(s, 1, 1)) = 1
          /\ SubSeq(s, 1, 1)[1] = <<Ok, 1>>
      BY <2>1, Cut
    <3> QED
      BY <1>1, <3>1, ShortSequences
  <2> QED
    BY <1>4, <2>1, <2>2, <2>3
<1> QED
  BY <1>2, <1>3, <1>4

\* The server's child puts a unit of a greeting the client has not touched.
LEMMA PutsGreeting ==
    ASSUME Types, ServerInv, PutUnit, Untouched, srv # "send"
    PROVE  /\ toClient' \in {<<<<Ok, 1>>>>, Units(Ok)}
           /\ UNCHANGED srv => Untouched'
<1>1. Message = Ok
  BY DEF Message
<1>2. Append(<<>>, <<Ok, 1>>) = <<<<Ok, 1>>>>
  OBVIOUS
<1>3. Append(<<<<Ok, 1>>>>, <<Ok, 2>>) = Units(Ok)
  <2>1. <<Ok, 1>> \in Unit /\ <<Ok, 2>> \in Unit
    BY UnitTypes DEF Ok
  <2>2. /\ <<<<Ok, 1>>>> \in Seq(Unit) /\ Len(<<<<Ok, 1>>>>) = 1
        /\ <<<<Ok, 1>>>>[1] = <<Ok, 1>>
    BY <2>1
  <2> DEFINE s == Append(<<<<Ok, 1>>>>, <<Ok, 2>>)
  <2>3. s \in Seq(Unit) /\ Len(s) = 2 /\ s[1] = <<Ok, 1>> /\ s[2] = <<Ok, 2>>
    BY <2>1, <2>2, Put
  <2> HIDE DEF s
  <2>4. s = <<<<Ok, 1>>, <<Ok, 2>>>>
    BY <2>1, <2>3, ShortSequences
  <2> QED
    BY <2>4 DEF s, Units
<1>4. Units(Ok) # Second(Ok)
  BY Pieces
<1>5. CASE toClient = <<>> /\ unsent = Units(Ok)
  BY <1>1, <1>2, <1>4, <1>5, PutEffect DEF Untouched
<1>6. CASE toClient = <<<<Ok, 1>>>> /\ unsent = Second(Ok)
  <2>1. toClient' = Units(Ok) /\ srv' # srv
    BY <1>1, <1>3, <1>4, <1>6, PutEffect
  <2> QED
    BY <2>1
<1> QED
  BY <1>5, <1>6 DEF Untouched

LEMMA PutStream ==
    ASSUME Types, ServerInv, ClientInv, StreamInv, PutUnit
    PROVE  StreamInv'
<1>1. /\ UNCHANGED <<cli, agreed, ended, split>>
      /\ srv \in {"greet1", "greet2", "send"}
      /\ srv' # srv => srv' \in {"ack", "loop", "sleep"}
      /\ srv = "greet1" => srv' \in {"greet1", "ack"}
      /\ srv = "greet2" => srv' \in {"greet2", "loop"}
      /\ srv = "send" => srv' \in {"send", "sleep"}
  BY PutEffect DEF clientVars, history, Sending
<1>2. srv = "greet1" => ~agreed
  BY DEF ServerInv
<1>3. srv \in {"greet2", "send"} => agreed
  BY DEF ServerInv
<1>4. srv = "send" =>
         /\ toClient # <<>> => toClient' # <<>> /\ toClient'[1] = toClient[1]
         /\ Len(toClient') = Len(toClient) + 1 /\ Len(toClient) \in Nat
         /\ \A k \in 1 .. Len(toClient) : toClient'[k] = toClient[k]
         /\ toClient'[Len(toClient) + 1][1] # Ok
  <2> SUFFICES ASSUME srv = "send"
               PROVE  /\ toClient # <<>>
                           => toClient' # <<>> /\ toClient'[1] = toClient[1]
                      /\ Len(toClient') = Len(toClient) + 1 /\ Len(toClient) \in Nat
                      /\ \A k \in 1 .. Len(toClient) : toClient'[k] = toClient[k]
                      /\ toClient'[Len(toClient) + 1][1] # Ok
    OBVIOUS
  <2>1. copy \in Int /\ copy > 0
    BY DEF ServerInv, Types
  <2>2. PICK u \in {<<copy, 1>>, <<copy, 2>>} : toClient' = Append(toClient, u)
    BY PutEffect DEF Message
  <2>3. u \in Unit /\ u[1] # Ok
    <3>1. <<copy, 1>> \in Unit /\ <<copy, 2>> \in Unit
      BY <2>1, UnitTypes
    <3>2. <<copy, 1>>[1] # Ok /\ <<copy, 2>>[1] # Ok
      BY <2>1 DEF Ok
    <3> QED
      BY <2>2, <3>1, <3>2
  <2>4. toClient \in Seq(Unit)
    BY DEF Types
  <2>5. /\ toClient' # <<>> /\ Len(toClient') = Len(toClient) + 1
        /\ Len(toClient) \in Nat
        /\ \A k \in 1 .. Len(toClient) : toClient'[k] = toClient[k]
        /\ toClient'[Len(toClient) + 1] = u
    BY <2>2, <2>3, <2>4, Put
  <2>6. toClient # <<>> => Len(toClient) > 0
    BY <2>4, <2>5, EmptySeq
  <2> QED
    BY <2>3, <2>5, <2>6
<1>5. CASE cli = "greeting1"
  <2>1. srv = "greet1" /\ Untouched
    BY <1>1, <1>3, <1>5 DEF ClientInv, StreamInv
  <2>2. toClient' \in {<<<<Ok, 1>>>>, Units(Ok)} /\ (UNCHANGED srv => Untouched')
    BY <2>1, PutsGreeting
  <2> QED
    BY <1>1, <1>5, <2>1, <2>2 DEF StreamInv, InLoop
<1>6. CASE cli \in {"ack", "greeting2"} /\ ~split /\ ~agreed
  BY <1>1, <1>3, <1>6 DEF StreamInv
<1>7. CASE cli = "greeting2" /\ ~split /\ agreed
  <2>1. CASE srv = "greet2"
    <3>1. toClient' \in {<<<<Ok, 1>>>>, Units(Ok)} /\ (UNCHANGED srv => Untouched')
      BY <1>7, <2>1, PutsGreeting DEF StreamInv
    <3>2. /\ toClient' # <<>> /\ toClient'[1] = <<Ok, 1>>
          /\ Len(toClient') <= 2 /\ toClient' \in Seq(Unit)
      <4>1. toClient' \in {<<>>, <<<<Ok, 1>>>>, Units(Ok)}
        BY <3>1
      <4>2. toClient' # <<>>
        BY <3>1, Pieces
      <4> QED
        BY <4>1, <4>2, Beginnings
    <3>3. \A k \in 1 .. Len(toClient') : k <= 2
      BY <3>2, LenProperties
    <3> QED
      BY <1>1, <1>7, <2>1, <3>1, <3>2, <3>3 DEF StreamInv, InLoop
  <2>2. CASE srv = "send"
    <3>1. /\ toClient # <<>> /\ toClient[1] = <<Ok, 1>>
          /\ \A k \in 1 .. Len(toClient) : toClient[k][1] = Ok => k <= 2
      BY <1>7, <2>2 DEF StreamInv
    <3>2. \A k \in 1 .. Len(toClient') : toClient'[k][1] = Ok => k <= 2
      BY <1>4, <2>2, <3>1
    <3> QED
      BY <1>1, <1>4, <1>7, <2>2, <3>1, <3>2 DEF StreamInv, InLoop
  <2> QED
    BY <1>1, <1>2, <1>7, <2>1, <2>2
<1>8. CASE InLoop /\ ~split
  <2>1. /\ srv = "send" /\ (agreed \/ ended)
        /\ \A k \in 1 .. Len(toClient) : toClient[k][1] # Ok
    BY <1>1, <1>8 DEF StreamInv
  <2>2. \A k \in 1 .. Len(toClient') : toClient'[k][1] # Ok
    BY <1>4, <2>1
  <2> QED
    BY <1>1, <1>8, <2>1, <2>2 DEF StreamInv, InLoop
<1> QED
  BY <1>1, <1>5, <1>6, <1>7, <1>8 DEF StreamInv, InLoop

\* The server's child leaves, and the end of what is under way may be lost.
LEMMA LeaveStream ==
    ASSUME Types, StreamInv, PutFails \/ NoAck
    PROVE  StreamInv'
<1>1. /\ UNCHANGED <<cli, agreed, ended, split>> /\ srv' = "accept"
      /\ toClient \in Seq(Unit)
  BY LeaveEffect DEF clientVars, history, Types
<1>2. PICK n \in 0 .. Len(toClient) : toClient' = SubSeq(toClient, 1, n)
  BY LeaveEffect
<1>3. /\ toClient' \in Seq(Unit) /\ Len(toClient') = n /\ Len(toClient) \in Nat
      /\ \A k \in 1 .. n : toClient'[k] = toClient[k]
  BY <1>1, <1>2, Cut
<1>4. toClient' # <<>> => n > 0 /\ toClient # <<>>
  <2>1. toClient' # <<>> => n > 0
    BY <1>2, <1>3, EmptySeq
  <2>2. toClient = <<>> => Len(toClient) = 0
    BY EmptySeq
  <2> QED
    BY <1>2, <1>3, <2>1, <2>2
<1>5. CASE cli = "greeting1"
  <2>1. toClient \in {<<>>, <<<<Ok, 1>>>>, Units(Ok)}
    BY <1>5 DEF StreamInv
  <2>2. toClient' \in {<<>>, <<<<Ok, 1>>>>, Units(Ok)}
    BY <1>2, <2>1, Beginnings
  <2> QED
    BY <1>1, <1>5, <2>2 DEF StreamInv, InLoop
<1>6. CASE cli \in {"ack", "greeting2"} /\ ~split /\ ~agreed
  BY <1>1, <1>4, <1>6 DEF StreamInv, InLoop
<1>7. CASE cli = "greeting2" /\ ~split /\ agreed
  <2>1. /\ toClient # <<>> => toClient[1] = <<Ok, 1>>
        /\ \A k \in 1 .. Len(toClient) : toClient[k][1] = Ok => k <= 2
    BY <1>7 DEF StreamInv
  <2>2. toClient' # <<>> => toClient'[1] = <<Ok, 1>>
    BY <1>3, <1>4, <2>1
  <2>3. \A k \in 1 .. Len(toClient') : toClient'[k][1] = Ok => k <= 2
    BY <1>2, <1>3, <2>1
  <2> QED
    BY <1>1, <1>7, <2>2, <2>3 DEF StreamInv, InLoop
<1>8. CASE InLoop /\ ~split
  <2>1. /\ agreed \/ ended
        /\ \A k \in 1 .. Len(toClient) : toClient[k][1] # Ok
    BY <1>8 DEF StreamInv
  <2>2. \A k \in 1 .. Len(toClient') : toClient'[k][1] # Ok
    BY <1>2, <1>3, <2>1
  <2> QED
    BY <1>1, <1>8, <2>1, <2>2 DEF StreamInv, InLoop
<1> QED
  BY <1>1, <1>5, <1>6, <1>7, <1>8 DEF StreamInv, InLoop

\* The client takes the first OK, or the beginning of it, or meets the end.
LEMMA Greeting1Stream ==
    ASSUME Types, ServerInv, ClientInv, StreamInv, Greeting1 \/ Greeting2,
           cli = "greeting1"
    PROVE  StreamInv'
<1>1. /\ cli' \in {"ack", "closed"} /\ UNCHANGED <<srv, unsent, srvEnd, agreed>>
      /\ ~agreed
  BY Greeting DEF ClientInv, serverVars
<1>2. SUFFICES ASSUME ~split'
               PROVE  toClient' = <<>> /\ srv # "greet1"
  BY <1>1 DEF StreamInv, InLoop
<1>3. CASE toClient = <<>> /\ srvEnd = "fin" /\ UNCHANGED toClient
  BY <1>3 DEF ServerInv, Serving
<1>4. ASSUME NEW n \in 1 .. Len(toClient),
             toClient' = SubSeq(toClient, n + 1, Len(toClient)),
             toClient[n] # <<Ok, 1>>
      PROVE  toClient' = <<>> /\ srv # "greet1"
  <2>1. toClient \in {<<>>, <<<<Ok, 1>>>>, Units(Ok)}
    BY DEF StreamInv
  <2>2. /\ toClient \in Seq(Unit) /\ Len(toClient) \in Nat /\ Len(toClient) <= 2
        /\ toClient # <<>> => toClient[1] = <<Ok, 1>>
    BY <2>1, Beginnings, LenProperties DEF Types
  <2>3. toClient # <<>> /\ (toClient' = <<>> <=> n = Len(toClient))
    BY <1>4, <2>2, Take
  <2>4. n = 2 /\ Len(toClient) = 2
    <3>1. n # 1
      <4>1. toClient[1] = <<Ok, 1>>
        BY <2>2, <2>3
      <4> QED
        BY <1>4, <4>1, Zenon
    <3>2. Len(toClient) \in Nat /\ Len(toClient) <= 2
      BY <2>2
    <3>3. \A l \in Nat : l <= 2 /\ n \in 1 .. l /\ n # 1 => n = 2 /\ l = 2
      OBVIOUS
    <3> QED
      BY <3>1, <3>2, <3>3
  <2>5. ~Untouched
    <3>1. Len(<<>>) = 0 /\ Len(<<<<Ok, 1>>>>) = 1
      OBVIOUS
    <3> QED
      BY <2>4, <3>1 DEF Untouched
  <2> QED
    BY <2>3, <2>4, <2>5 DEF StreamInv
<1> QED
  BY <1>2, <1>3, <1>4, Greeting

\* The client takes the second OK and what came with it, or meets the end.
LEMMA Greeting2Stream ==
    ASSUME Types, ServerInv, ClientInv, StreamInv, Greeting1 \/ Greeting2,
           cli = "greeting2"
    PROVE  StreamInv'
<1>1. cli' \in {"check", "closed"} /\ UNCHANGED <<srv, unsent, srvEnd, agreed>>
  BY Greeting DEF serverVars
<1>2. SUFFICES ASSUME ~split'
               PROVE  /\ agreed \/ ended'
                      /\ \A k \in 1 .. Len(toClient') : toClient'[k][1] # Ok
                      /\ srv \notin {"greet1", "ack", "greet2"}
  BY <1>1 DEF StreamInv, InLoop
<1>3. CASE /\ toClient = <<>> /\ srvEnd = "fin" /\ ended' = TRUE
           /\ UNCHANGED toClient
  <2>1. srv \notin {"greet1", "ack", "greet2"}
    BY <1>3 DEF ServerInv, Serving
  <2>2. Len(<<>>) = 0
    OBVIOUS
  <2>3. \A k \in 1 .. Len(toClient') : FALSE
    BY <1>3, <2>2
  <2> QED
    BY <1>3, <2>1, <2>3
<1>4. ASSUME NEW n \in 1 .. Len(toClient), ~split,
             toClient' = SubSeq(toClient, n + 1, Len(toClient)),
             toClient[n] # <<Ok, 1>>
      PROVE  /\ agreed
             /\ \A k \in 1 .. Len(toClient') : toClient'[k][1] # Ok
             /\ srv \notin {"greet1", "ack", "greet2"}
  <2>1. toClient \in Seq(Unit) /\ Len(toClient) \in Nat
    BY LenProperties DEF Types
  <2>2. /\ toClient # <<>> /\ Len(toClient') = Len(toClient) - n
        /\ \A k \in 1 .. Len(toClient) - n : toClient'[k] = toClient[n + k]
    BY <1>4, <2>1, Take
  <2>3. agreed
    BY <1>4, <2>2 DEF StreamInv
  <2>4. /\ toClient[1] = <<Ok, 1>>
        /\ \A k \in 1 .. Len(toClient) : toClient[k][1] = Ok => k <= 2
        /\ srv = "greet2" => Untouched
    BY <1>4, <2>2, <2>3 DEF StreamInv
  <2>5. n >= 2
    BY <1>4, <2>1, <2>4
  <2>6. \A k \in 1 .. Len(toClient') : toClient'[k][1] # Ok
    <3> SUFFICES ASSUME NEW k \in 1 .. Len(toClient')
                 PROVE  toClient'[k][1] # Ok
      OBVIOUS
    <3>1. k \in 1 .. Len(toClient) - n
      BY <2>2
    <3>2. toClient'[k] = toClient[n + k] /\ n + k \in 1 .. Len(toClient) /\ n + k > 2
      BY <2>1, <2>2, <2>5, <3>1
    <3> QED
      BY <2>4, <3>2
  <2>7. ~Untouched
    <3>1. Len(<<>>) = 0 /\ Len(<<<<Ok, 1>>>>) = 1
      OBVIOUS
    <3>2. Len(toClient) >= 2
      BY <2>1, <2>5
    <3> QED
      BY <3>1, <3>2 DEF Untouched
  <2>8. srv \notin {"greet1", "ack"}
    BY <2>3 DEF ServerInv
  <2> QED
    BY <2>3, <2>4, <2>6, <2>7, <2>8
<1> QED
  BY <1>2, <1>3, <1>4, Greeting

\* The client takes values.
LEMMA ValueStream ==
    ASSUME Types, StreamInv, ReceiveValue
    PROVE  StreamInv'
<1>1. /\ cli = "recv" /\ cli' = "reply"
      /\ UNCHANGED <<srv, unsent, agreed, ended, split>>
      /\ toClient \in Seq(Unit) /\ Len(toClient) \in Nat
  BY LenProperties DEF ReceiveValue, serverVars, Types
<1>2. PICK n \in 1 .. Len(toClient) :
         toClient' = SubSeq(toClient, n + 1, Len(toClient))
  BY ValueEffect
<1>3. /\ Len(toClient') = Len(toClient) - n
      /\ \A k \in 1 .. Len(toClient) - n : toClient'[k] = toClient[n + k]
  BY <1>1, <1>2, Take
<1>4. (\A k \in 1 .. Len(toClient) : toClient[k][1] # Ok)
        => \A k \in 1 .. Len(toClient') : toClient'[k][1] # Ok
  <2> SUFFICES ASSUME \A k \in 1 .. Len(toClient) : toClient[k][1] # Ok,
                      NEW k \in 1 .. Len(toClient')
               PROVE  toClient'[k][1] # Ok
    OBVIOUS
  <2>1. k \in 1 .. Len(toClient) - n /\ n + k \in 1 .. Len(toClient)
    BY <1>1, <1>3
  <2> QED
    BY <1>3, <2>1
<1> QED
  BY <1>1, <1>4 DEF StreamInv, InLoop

LEMMA NextStream ==
    ASSUME Types, ServerInv, ClientInv, StreamInv, [Next]_vars
    PROVE  StreamInv'
<1>1. CASE Produce \/ Expire
  <2>1. UNCHANGED <<toClient, cli, srv, unsent, split, agreed, ended>>
    BY <1>1 DEF Produce, Expire, serverVars, clientVars, history
  <2> QED
    BY <2>1 DEF StreamInv, InLoop, Untouched
<1>2. CASE Connect
  <2>1. /\ cli' = "greeting1" /\ toClient' = <<>> /\ srv = "accept"
        /\ srv' = "greet1" => unsent' = Units(Ok)
    BY <1>2 DEF Connect
  <2> QED
    BY <2>1 DEF StreamInv, InLoop, Untouched
<1>3. CASE PutUnit
  BY <1>3, PutStream
<1>4. CASE PutInVain
  <2>1. ~Client /\ UNCHANGED cli
    BY <1>4, InVainEffect DEF ClientInv, clientVars
  <2> QED
    BY <2>1 DEF StreamInv, InLoop, Client
<1>5. CASE PutFails \/ NoAck
  BY <1>5, LeaveStream
<1>6. CASE SigPipe \/ Removed \/ Wake
  <2>1. /\ UNCHANGED <<toClient, cli, split, agreed, ended>>
        /\ srv' = "gone" \/ (srv = "sleep" /\ srv' = "loop")
    BY <1>6 DEF SigPipe, Removed, Wake, clientVars, history
  <2> QED
    BY <2>1 DEF StreamInv, InLoop
<1>7. CASE ReceiveAck
  <2>1. /\ srv = "ack" /\ toServer # <<>> /\ ~agreed
        /\ UNCHANGED <<toClient, cli, split, ended>>
        /\ \/ srv' = "greet2" /\ unsent' = Units(Ok) /\ agreed' = TRUE
           \/ srv' = "accept" /\ UNCHANGED agreed
    BY <1>7, AckEffect DEF ServerInv, clientVars
  <2>2. cli \notin {"greeting1", "ack"}
    BY <2>1 DEF ClientInv
  <2>3. cli = "greeting2" /\ ~split => toClient = <<>>
    BY <2>1 DEF StreamInv
  <2>4. InLoop => split
    BY <2>1 DEF StreamInv
  <2>5. Len(<<>>) = 0 /\ \A k \in 1 .. 0 : FALSE
    OBVIOUS
  <2> QED
    BY <2>1, <2>2, <2>3, <2>4, <2>5 DEF StreamInv, InLoop, Untouched
<1>8. CASE ReadMemory
  <2>1. /\ UNCHANGED <<toClient, cli, split, agreed, ended>>
        /\ srv = "loop" /\ srv' \in {"send", "sleep"}
    BY <1>8 DEF ReadMemory, clientVars, history
  <2> QED
    BY <2>1 DEF StreamInv, InLoop
<1>9. CASE Greeting1 \/ Greeting2
  BY <1>9, Greeting, Greeting1Stream, Greeting2Stream
<1>10. CASE SendAck \/ SendKa
  <2>1. /\ UNCHANGED <<toClient, srv, unsent, split, agreed, ended>>
        /\ \/ cli = "ack" /\ cli' \in {"greeting2", "closed"}
           \/ cli = "reply" /\ cli' \in {"check", "closed"}
    BY <1>10, AnswerEffect DEF serverVars, history
  <2>2. cli = "ack" => ~agreed
    BY DEF ClientInv
  <2> QED
    BY <2>1, <2>2 DEF StreamInv, InLoop
<1>11. CASE GreetingFails \/ CheckLifetime \/ ReceiveTimeout \/ ReceiveEnd
  <2>1. /\ UNCHANGED <<toClient, srv, unsent, split, agreed, ended>>
        /\ \/ cli \in {"check", "recv"} /\ cli' \in {"check", "recv"}
           \/ cli' = "closed"
    BY <1>11, EmptyHandedEffect DEF serverVars, history
  <2> QED
    BY <2>1 DEF StreamInv, InLoop
<1>12. CASE ReceiveValue
  BY <1>12, ValueStream
<1>13. CASE UNCHANGED vars
  <2>1. UNCHANGED <<toClient, cli, srv, unsent, split, agreed, ended>>
    BY <1>13 DEF vars, serverVars, clientVars, history
  <2> QED
    BY <2>1 DEF StreamInv, InLoop, Untouched
<1> QED
  BY <1>1, <1>2, <1>3, <1>4, <1>5, <1>6, <1>7, <1>8, <1>9, <1>10, <1>11, <1>12,
     <1>13 DEF Next, ServerStep, ClientStep

-----------------------------------------------------------------------------
(* The last unit put, and the last one shown.                              *)

LEMMA TakingKeepsLast ==
    ASSUME Types, NEW n \in 1 .. Len(toClient),
           toClient' = SubSeq(toClient, n + 1, Len(toClient)),
           lastTaken' = toClient[n]
    PROVE  LastPut' = LastPut
<1>1. toClient \in Seq(Unit) /\ Len(toClient) \in Nat
  BY LenProperties DEF Types
<1>2. /\ toClient # <<>> /\ Len(toClient') = Len(toClient) - n
      /\ \A k \in 1 .. Len(toClient) - n : toClient'[k] = toClient[n + k]
      /\ toClient' = <<>> <=> n = Len(toClient)
  BY <1>1, Take
<1>3. CASE n = Len(toClient)
  BY <1>2, <1>3 DEF LastPut
<1>4. CASE n # Len(toClient)
  <2>1. /\ Len(toClient') \in 1 .. Len(toClient) - n
        /\ n + Len(toClient') = Len(toClient)
    BY <1>1, <1>2, <1>4
  <2>2. toClient'[Len(toClient')] = toClient[Len(toClient)]
    BY <1>2, <2>1
  <2> QED
    BY <1>2, <1>4, <2>2 DEF LastPut
<1> QED
  BY <1>3, <1>4

LEMMA NextLast ==
    ASSUME Types, ServerInv, ClientInv, LastInv, [Next]_vars
    PROVE  LastInv'
<1> USE DEF LastInv
<1>1. CASE Produce \/ Expire
  <2>1. UNCHANGED <<srv, unsent, copy, last_sent, cli, toClient, lastTaken>>
    BY <1>1 DEF Produce, Expire, serverVars, clientVars, history
  <2> QED
    BY <2>1 DEF Client, LastPut
<1>2. CASE Connect
  <2>1. srv' \in {"greet1", "accept"}
    BY <1>2 DEF Connect
  <2> QED
    BY <2>1
<1>3. CASE PutUnit
  <2>1. /\ Message \in Int /\ UNCHANGED <<copy, lastTaken>>
        /\ \/ /\ unsent' = Second(Message) /\ srv' \in {"greet1", "greet2", "send"}
              /\ UNCHANGED srv
           \/ /\ toClient' = Append(toClient, <<Message, 2>>)
              /\ \/ srv = "greet1" /\ srv' = "ack" /\ UNCHANGED last_sent
                 \/ srv = "greet2" /\ srv' = "loop" /\ UNCHANGED last_sent
                 \/ srv = "send" /\ srv' = "sleep" /\ last_sent' = copy
    BY <1>3, PutEffect DEF Sending, history
  <2>2. CASE unsent' = Second(Message) /\ UNCHANGED srv /\ srv' # "loop" /\ srv' # "sleep"
    <3>1. srv' = "send" => unsent' # Units(copy')
      BY <2>1, <2>2, Pieces DEF Message
    <3> QED
      BY <2>2, <3>1
  <2>3. CASE toClient' = Append(toClient, <<Message, 2>>)
    <3>1. <<Message, 2>> \in Unit /\ toClient \in Seq(Unit)
      BY <2>1, UnitTypes DEF Types
    <3>2. /\ toClient' # <<>> /\ Len(toClient') = Len(toClient) + 1
          /\ toClient'[Len(toClient) + 1] = <<Message, 2>>
      BY <2>3, <3>1, Put
    <3>3. LastPut' = <<Message, 2>>
      BY <3>2 DEF LastPut
    <3>4. srv' = "loop" => Message = Ok
      BY <2>1, <1>3, PutEffect DEF Message, Sending
    <3>5. srv' = "sleep" => Message = last_sent'
      BY <2>1, <1>3, PutEffect DEF Message, Sending
    <3>6. srv' = "send" => unsent' # Units(copy')
      <4>1. srv' = "send" => unsent' = Second(Message)
        BY <1>3, PutEffect DEF Sending
      <4> QED
        BY <2>1, <4>1, Pieces, <1>3, PutEffect DEF Message
    <3> QED
      BY <3>3, <3>4, <3>5, <3>6
  <2> QED
    BY <2>1, <2>2, <2>3
<1>4. CASE PutInVain
  <2>1. ~Client'
    BY <1>4, InVainEffect DEF ClientInv, clientVars, Client
  <2> QED
    BY <2>1
<1>5. CASE PutFails \/ NoAck
  <2>1. srv' = "accept"
    BY <1>5, LeaveEffect
  <2> QED
    BY <2>1
<1>6. CASE SigPipe \/ Removed \/ Wake
  <2>1. /\ UNCHANGED <<copy, last_sent, cli, toClient, lastTaken>>
        /\ srv' = "gone" \/ (srv = "sleep" /\ srv' = "loop")
    BY <1>6 DEF SigPipe, Removed, Wake, clientVars, history
  <2> QED
    BY <2>1 DEF Client, LastPut
<1>7. CASE ReceiveAck
  <2>1. srv' \in {"greet2", "accept"}
    BY <1>7, AckEffect
  <2> QED
    BY <2>1
<1>8. CASE ReadMemory
  <2>1. UNCHANGED <<last_sent, cli, toClient, lastTaken>> /\ srv = "loop"
    BY <1>8 DEF ReadMemory, clientVars, history
  <2> QED
    BY <2>1 DEF Client, LastPut
<1>9. CASE Greeting1 \/ Greeting2
  <2>1. /\ UNCHANGED <<srv, unsent, copy, last_sent>> /\ Client
        /\ \/ \E n \in 1 .. Len(toClient) :
                 /\ toClient' = SubSeq(toClient, n + 1, Len(toClient))
                 /\ lastTaken' = toClient[n]
           \/ UNCHANGED <<toClient, lastTaken>>
    BY <1>9, Greeting DEF serverVars, Client
  <2>2. LastPut' = LastPut
    <3>1. CASE UNCHANGED <<toClient, lastTaken>>
      BY <3>1 DEF LastPut
    <3> QED
      BY <2>1, <3>1, TakingKeepsLast
  <2> QED
    BY <2>1, <2>2
<1>10. CASE SendAck \/ SendKa
  <2>1. /\ UNCHANGED <<srv, unsent, copy, last_sent, toClient, lastTaken>>
        /\ Client
    BY <1>10, AnswerEffect DEF serverVars, history, Client
  <2> QED
    BY <2>1 DEF LastPut
<1>11. CASE GreetingFails \/ CheckLifetime \/ ReceiveTimeout \/ ReceiveEnd
  <2>1. /\ UNCHANGED <<srv, unsent, copy, last_sent, toClient, lastTaken>>
        /\ Client' => Client
    BY <1>11, EmptyHandedEffect DEF serverVars, history, Client
  <2> QED
    BY <2>1 DEF LastPut
<1>12. CASE ReceiveValue
  <2>1. UNCHANGED <<srv, unsent, copy, last_sent>> /\ Client
    BY <1>12 DEF ReceiveValue, serverVars, Client
  <2>2. LastPut' = LastPut
    BY <1>12, ValueEffect, TakingKeepsLast
  <2> QED
    BY <2>1, <2>2
<1>13. CASE UNCHANGED vars
  <2>1. UNCHANGED <<srv, unsent, copy, last_sent, cli, toClient, lastTaken>>
    BY <1>13 DEF vars, serverVars, clientVars, history
  <2> QED
    BY <2>1 DEF Client, LastPut
<1> QED
  BY <1>1, <1>2, <1>3, <1>4, <1>5, <1>6, <1>7, <1>8, <1>9, <1>10, <1>11, <1>12,
     <1>13 DEF Next, ServerStep, ClientStep

LEMMA NextShown ==
    ASSUME Types, ServerInv, ClientInv, StreamInv, NoGreetingShown, [Next]_vars
    PROVE  NoGreetingShown'
<1> USE DEF NoGreetingShown
<1>1. CASE ReceiveValue
  <2>1. InLoop /\ UNCHANGED split
    BY <1>1 DEF ReceiveValue, InLoop
  <2>2. PICK n \in 1 .. Len(toClient) : lastShown' = toClient[n]
    BY <1>1, ValueEffect
  <2> QED
    BY <2>1, <2>2 DEF StreamInv
<1>2. CASE Connect
  BY <1>2, UnitTypes DEF Connect
<1>3. CASE Greeting1 \/ Greeting2
  <2>1. (~split' => ~split) /\ UNCHANGED lastShown
    BY <1>3, Greeting
  <2> QED
    BY <2>1
<1>4. CASE Produce \/ Expire
  BY <1>4 DEF Produce, Expire, history
<1>5. CASE PutUnit
  BY <1>5, PutEffect DEF history
<1>6. CASE PutInVain
  BY <1>6, InVainEffect DEF history
<1>7. CASE PutFails \/ NoAck
  BY <1>7, LeaveEffect DEF history
<1>8. CASE SigPipe \/ Removed \/ Wake \/ ReadMemory
  BY <1>8 DEF SigPipe, Removed, Wake, ReadMemory, history
<1>9. CASE ReceiveAck
  BY <1>9, AckEffect
<1>10. CASE SendAck \/ SendKa
  BY <1>10, AnswerEffect DEF history
<1>11. CASE GreetingFails \/ CheckLifetime \/ ReceiveTimeout \/ ReceiveEnd
  BY <1>11, EmptyHandedEffect DEF history
<1>12. CASE UNCHANGED vars
  BY <1>12 DEF vars, history
<1> QED
  BY <1>1, <1>2, <1>3, <1>4, <1>5, <1>6, <1>7, <1>8, <1>9, <1>10, <1>11, <1>12
     DEF Next, ServerStep, ClientStep

LEMMA Invariant == Spec => []IInv
<1>1. IInv /\ [Next]_vars => IInv'
  BY NextTypes, NextServer, NextClient, NextStream, NextLast, NextShown DEF IInv
<1> QED
  BY InitInv, <1>1, PTL DEF Spec

-----------------------------------------------------------------------------
(* The theorems.                                                           *)

\* The variables of both programs and of the connection between them keep
\* their types, neither way holds more than its room, and send() has something
\* left to place exactly while handle_client is in it.
THEOREM TypeCorrect == Spec => []TypeOK
<1>1. IInv => TypeOK
  <2> SUFFICES ASSUME IInv PROVE TypeOK
    OBVIOUS
  <2>1. Types /\ ServerInv
    BY DEF IInv
  <2>2. CASE srv \in {"greet1", "greet2"}
    <3>1. Len(unsent) <= 2 /\ unsent # <<>>
      BY <2>1, <2>2, Pieces DEF ServerInv
    <3> QED
      BY <2>1, <2>2, <3>1 DEF Types, TypeOK, Sending
  <2>3. CASE srv = "send"
    <3>1. Len(unsent) <= 2 /\ unsent # <<>>
      BY <2>1, <2>3, Pieces DEF ServerInv
    <3> QED
      BY <2>1, <2>3, <3>1 DEF Types, TypeOK, Sending
  <2>4. CASE ~Sending
    <3>1. unsent = <<>> /\ Len(<<>>) = 0
      BY <2>1, <2>4 DEF ServerInv
    <3> QED
      BY <2>1, <2>4, <3>1 DEF Types, TypeOK
  <2> QED
    BY <2>2, <2>3, <2>4 DEF Sending
<1> QED
  BY Invariant, <1>1, PTL

\* A client that has printed that the handshake was successful is served by a
\* handle_client that has received its ACK, for any number of clients and any
\* room on the connection; unless the end of the stream stood for the second
\* OK, or a recv of the greeting ended inside a message.
THEOREM HandshakeAgreed == Spec => []AgreedHandshake
<1>1. IInv => AgreedHandshake
  BY DEF IInv, StreamInv, AgreedHandshake
<1> QED
  BY Invariant, <1>1, PTL

\* What the client's loop prints comes from the shared memory, never from the
\* greeting, unless a recv of the greeting ended inside a message.
THEOREM GreetingNeverShown == Spec => []NoGreetingShown
<1>1. IInv => NoGreetingShown
  BY DEF IInv
<1> QED
  BY Invariant, <1>1, PTL

\* When everything sent was taken and handle_client found nothing new, the
\* client has the present contents of the shared memory, however many values
\* went by and however its recvs cut them; or the second OK was the last it
\* took.
THEOREM ClientUpToDate == Spec => []UpToDate
<1>1. IInv => UpToDate
  <2> SUFFICES ASSUME IInv, cli = "recv", srv = "sleep", toClient = <<>>,
                      shm = last_sent
               PROVE  \/ lastTaken = Units(shm)[2] /\ lastShown \in {lastTaken, Nothing}
                      \/ lastTaken = Units(Ok)[2]
    BY DEF UpToDate
  <2>1. lastTaken \in {<<Ok, 2>>, <<shm, 2>>}
    BY DEF IInv, LastInv, LastPut, Client
  <2>2. lastShown \in {lastTaken, Nothing}
    BY DEF IInv, ClientInv
  <2>3. Units(shm)[2] = <<shm, 2>> /\ Units(Ok)[2] = <<Ok, 2>>
    BY Pieces
  <2> QED
    BY <2>1, <2>2, <2>3
<1> QED
  BY Invariant, <1>1, PTL
=============================================================================
