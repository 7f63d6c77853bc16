----------------------- MODULE ReactorServiceProofs -----------------------
(***************************************************************************)
(* The echo server of Reactor implements EchoService, step by step, for    *)
(* any number of clients, bytes and descriptors.  A '\0' among the bytes   *)
(* cuts an answer short of what the service promises (strcpy stops there), *)
(* so the theorem is about clients that send none: NulAt[c] = 0.           *)
(***************************************************************************)
EXTENDS ReactorBytesProofs, SequenceTheorems

USE TcpAssumption, ReactorAssumption
USE DEF getFd, getInEpoll, getEvent, getREvent, getCurRlen, getCurWlen,
        BindRecvCallback, BindSendCallback

\* The mode of the service, as the refinement mapping of Reactor says.
Mode == CASE server \in {"boot", "listening"} -> "starting"
          [] server = "up" -> "up"
          [] OTHER -> "down"

\* The mode, for each state of the server's process.
LEMMA ModeIs ==
  /\ server \in {"boot", "listening"} => Mode = "starting"
  /\ server = "up" => Mode = "up"
  /\ server \notin {"boot", "listening", "up"} => Mode = "down"
BY DEF Mode
-----------------------------------------------------------------------------
\* The accepted clients have a descriptor each, so that there are fewer of them than
\* descriptors as long as accept() finds one free.
LEMMA CapacityLeft ==
  ASSUME IInv, FreeFds # {}
  PROVE  Cardinality({c \in Clients : link[c] = "accepted"}) < Cardinality(ClientFds)
<1> DEFINE fdOf == [c \in Accepted |-> conn[c].fd]
<1>1. {c \in Clients : link[c] = "accepted"} = Accepted
  BY DEF IInv, ClientObjects, Accepted
<1>2. openFds = {conn[c].fd : c \in Accepted} /\ openFds \subseteq ClientFds
  BY DEF IInv, Descriptors, Types, Streams
<1>3. IsFiniteSet(ClientFds)
  BY FS_Subset DEF ClientFds
<1>4. IsFiniteSet(openFds) /\ Cardinality(openFds) \in Nat
  BY <1>2, <1>3, FS_Subset, FS_CardinalityType
<1>5. Cardinality(Accepted) <= Cardinality(openFds)
  <2>1. fdOf \in [Accepted -> openFds]
    BY <1>2
  <2>2. ASSUME NEW a \in Accepted, NEW b \in Accepted, fdOf[a] = fdOf[b]
        PROVE  a = b
    <3>1. /\ a \in DOMAIN conn /\ b \in DOMAIN conn /\ conn[a].fd = conn[b].fd
          /\ conn[a].fd \in Fds
      BY <1>2, <2>2 DEF Accepted, ClientFds
    <3> QED BY <3>1, OwnDescriptor
  <2>3. fdOf \in Injection(Accepted, openFds)
    BY <2>1, <2>2 DEF Injection, IsInjective
  <2> HIDE DEF fdOf
  <2> QED BY <1>4, <2>3, FS_Injection
<1>6. Cardinality(openFds) < Cardinality(ClientFds)
  <2>1. LowestFd \in ClientFds /\ LowestFd \notin openFds
    BY LowestFree DEF FreeFds
  <2>2. openFds \cup {LowestFd} \subseteq ClientFds
    BY <1>2, <2>1
  <2>3. Cardinality(openFds \cup {LowestFd}) <= Cardinality(ClientFds)
    BY <1>3, <2>2, FS_Subset
  <2>4. Cardinality(openFds \cup {LowestFd}) = Cardinality(openFds) + 1
    BY <1>4, <2>1, FS_AddElement
  <2>5. Cardinality(ClientFds) \in Nat
    BY <1>3, FS_CardinalityType
  <2> QED BY <1>4, <2>3, <2>4, <2>5
<1>7. Cardinality(Accepted) \in Nat /\ Cardinality(ClientFds) \in Nat
  <2>1. IsFiniteSet(Accepted)
    BY FS_Subset DEF Accepted
  <2> QED BY <1>3, <2>1, FS_CardinalityType
<1>8. Cardinality({c \in Clients : link[c] = "accepted"}) = Cardinality(Accepted)
  BY <1>1, Zenon
<1> QED BY <1>4, <1>5, <1>6, <1>7, <1>8

\* Initially no one has arrived and the service is starting.
LEMMA ServiceInit == Init => Echo!EInit
BY ModeIs DEF Init, TcpInit, Echo!EInit, Mode

\* A step the clients do not notice.
LEMMA Unnoticed ==
  ASSUME UNCHANGED <<link, backlog, sentN, echoed>>, Mode' = Mode
  PROVE  UNCHANGED Echo!evars
BY DEF Echo!evars, Mode

\* accept() admits the oldest client.
LEMMA AcceptAdmits ==
  ASSUME IInv, NEW d \in Clients, AcceptClient(d)
  PROVE  Echo!Admit
<1>1. /\ Turn(Listener, "acceptCallback") /\ FreeFds # {}
      /\ backlog # <<>> /\ backlog' = Tail(backlog)
      /\ link' = [link EXCEPT ![Head(backlog)] = "accepted"]
      /\ UNCHANGED <<sentN, echoed, server>>
  BY DEF AcceptClient, TcpAccept
<1>2. server = "up" /\ Mode = "up" /\ Mode' = Mode
  BY <1>1, ModeIs DEF Turn, Mode
<1>3. Cardinality({c \in Clients : link[c] = "accepted"}) < Cardinality(ClientFds)
  BY <1>1, CapacityLeft
<1>4. Echo!Cardinality({c \in Clients : link[c] = "accepted"}) < Cardinality(ClientFds)
  BY <1>3, Zenon DEF Echo!Cardinality, Cardinality
<1> QED BY <1>1, <1>2, <1>4, Zenon DEF Echo!Admit, Mode

\* sendCallback answers with a prefix of what the client has sent.
LEMMA SendAnswers ==
  ASSUME IInv, BInv, IInv', BInv', NEW c \in Clients, NulAt[c] = 0, SendCallback(c)
  PROVE  Echo!Answer(c)
<1>1. /\ Turn(c, "sendCallback")
      /\ link' = [link EXCEPT ![c] = "closed"]
      /\ echoed' = IF peer[c] \in {"open", "fin"}
                   THEN [echoed EXCEPT ![c] = @ \o Written(conn[c])] ELSE echoed
      /\ UNCHANGED <<backlog, sentN, readN, server>>
  BY DEF SendCallback, TcpWriteClose
<1>2. server = "up" /\ Mode = "up" /\ Mode' = Mode
  BY <1>1, ModeIs DEF Turn, Mode
<1>3. link[c] = "accepted"
  BY <1>1, TurnTaken DEF Objs, IInv, ClientObjects
<1>4. link'[c] = "closed"
  BY <1>1 DEF IInv, Types, Streams
<1>5. /\ \A i \in DOMAIN echoed'[c] : (\A j \in 1..i : j # NulAt[c]) => echoed'[c][i] = i
      /\ Len(echoed'[c]) <= readN'[c] /\ readN'[c] <= sentN'[c]
  <2>1. Reply(c)' /\ Stream(c)'
    BY DEF BInv, ClientBytes
  <2> QED BY <1>4, <2>1 DEF Reply, Stream
<1>6. echoed \in [Clients -> Seq(Int)] /\ echoed' \in [Clients -> Seq(Int)]
  BY DEF BInv
<1> DEFINE n == Len(echoed'[c])
<1>7. n \in 0..sentN[c]
  <2>1. n \in Nat
    BY <1>6
  <2>2. readN'[c] \in Nat /\ sentN[c] \in Nat
    BY DEF IInv, Types, Streams
  <2> QED BY <1>1, <1>5, <2>1, <2>2
<1>8. echoed'[c] = [i \in 1..n |-> i]
  <2> DEFINE s == echoed'[c]
  <2>1. s \in Seq(Int) /\ n = Len(s)
    BY <1>6
  <2>2. n \in Nat /\ s \in [1..n -> Int] /\ DOMAIN s = 1..n
    BY <2>1, LenProperties
  <2>3. \A i \in 1..n : s[i] = i
    BY <1>5, <2>2
  <2> HIDE DEF s, n
  <2>4. s = [i \in 1..n |-> i]
    BY <2>2, <2>3
  <2> QED BY <2>4 DEF s
<1>9. echoed' = [echoed EXCEPT ![c] = [i \in 1..n |-> i]]
  <2>1. echoed' = [echoed EXCEPT ![c] = echoed'[c]]
    BY <1>1, <1>6
  <2> HIDE DEF n
  <2> QED BY <1>8, <2>1
<1>10. \E m \in 0..sentN[c] : echoed' = [echoed EXCEPT ![c] = [i \in 1..m |-> i]]
  <2> HIDE DEF n
  <2> QED BY <1>7, <1>9
<1> QED BY <1>1, <1>2, <1>3, <1>10 DEF Echo!Answer, Mode

\* Every step of the server or of a client is a step of the service or none.
LEMMA ServiceStep ==
  ASSUME \A c \in Clients : NulAt[c] = 0
  PROVE  IInv /\ BInv /\ IInv' /\ BInv' /\ [Next]_vars => [Echo!ENext]_(Echo!evars)
<1> SUFFICES ASSUME IInv, BInv, IInv', BInv', [Next]_vars
             PROVE  [Echo!ENext]_(Echo!evars)
  OBVIOUS
<1>1. ASSUME server \in {"boot", "listening", "up"}, server' \in {"failed", "loopcheck", "sigpipe"},
             UNCHANGED tcpVars
      PROVE  Echo!GoDown
  <2>1. Mode # "down" /\ Mode' = "down"
    BY <1>1, ModeIs DEF Mode
  <2> QED BY <1>1, <2>1 DEF Echo!GoDown, Mode, tcpVars
<1>2. ASSUME UNCHANGED <<link, backlog, sentN, echoed, server>>
      PROVE  UNCHANGED Echo!evars
  BY <1>2, Unnoticed DEF Mode
<1>3. CASE BootFailure \/ LoopCheck
  BY <1>3, <1>1 DEF BootFailure, LoopCheck, Echo!ENext
<1>4. CASE BootListen
  <2>1. Mode' = Mode
    BY <1>4 DEF BootListen, Mode
  <2> QED BY <1>4, <2>1, Unnoticed DEF BootListen, tcpVars
<1>5. CASE BootRegister
  <2>1. Mode = "starting" /\ Mode' = "up" /\ UNCHANGED tcpVars
    BY <1>5 DEF BootRegister, Mode
  <2>2. Echo!GoUp
    BY <2>1 DEF Echo!GoUp, Mode, tcpVars
  <2> QED BY <2>2 DEF Echo!ENext
<1>6. CASE \E S \in SUBSET ready : Poll(S)
  BY <1>6, <1>2 DEF Poll, tcpVars
<1>7. CASE AcceptFails
  BY <1>7, <1>2 DEF AcceptFails, tcpVars
<1>8. ASSUME NEW c \in Clients,
             \/ AcceptClient(c)
             \/ RecvBegin(c) \/ RecvSome(c) \/ RecvError(c) \/ RecvEnd(c)
             \/ SendCallback(c) \/ SendKilled(c)
      PROVE  [Echo!ENext]_(Echo!evars)
  <2>1. CASE AcceptClient(c)
    BY <2>1, AcceptAdmits DEF Echo!ENext
  <2>2. CASE RecvBegin(c) \/ RecvSome(c) \/ RecvError(c) \/ RecvEnd(c)
    BY <2>2, <1>2 DEF RecvBegin, RecvSome, TcpRecv, RecvError, TcpReportReset, RecvEnd, tcpVars
  <2>3. CASE SendCallback(c)
    BY <2>3, SendAnswers DEF Echo!ENext
  <2>4. CASE SendKilled(c)
    BY <2>4, <1>1 DEF SendKilled, Turn, Echo!ENext
  <2> QED BY <1>8, <2>1, <2>2, <2>3, <2>4
<1>9. ASSUME NEW c \in Clients, Connect(c)
      PROVE  Echo!Arrive(c)
  <2>1. Mode # "down" /\ Mode' = Mode
    BY <1>9, ModeIs DEF Connect, Mode
  <2> QED BY <1>9, <2>1 DEF Connect, TcpConnect, Echo!Arrive, Mode
<1>10. ASSUME NEW c \in Clients, Arrival(c)
       PROVE  Echo!Say(c) \/ UNCHANGED Echo!evars
  <2>1. Mode # "down" /\ Mode' = Mode
    BY <1>10, ModeIs DEF Arrival, Mode
  <2>2. CASE TcpByte(c)
    BY <1>10, <2>1, <2>2 DEF Arrival, TcpArrival, Connected, TcpByte, Echo!Say, Mode
  <2>3. CASE TcpFin(c) \/ TcpReset(c)
    BY <2>1, <2>3, Unnoticed DEF TcpFin, TcpReset
  <2> QED BY <1>10, <2>2, <2>3 DEF Arrival, TcpArrival
<1>11. CASE UNCHANGED vars
  BY <1>11, <1>2 DEF vars, tcpVars
<1>12. CASE Environment
  BY <1>9, <1>10, <1>12 DEF Environment, Echo!ENext
<1> QED BY <1>3, <1>4, <1>5, <1>6, <1>7, <1>8, <1>11, <1>12 DEF Next, ServerStep, Boot

\* The server implements EchoService for clients that send no '\0': it admits in order of
\* arrival, never more than there are descriptors, and answers each once, with its own
\* first bytes.
THEOREM ServerIsService ==
  ASSUME \A c \in Clients : NulAt[c] = 0
  PROVE  Spec => ImplementsEchoService
<1>1. Init => Echo!EInit
  BY ServiceInit
<1>2. IInv /\ BInv /\ IInv' /\ BInv' /\ [Next]_vars => [Echo!ENext]_(Echo!evars)
  BY ServiceStep
<1> QED BY <1>1, <1>2, Invariance, BytesInvariance, PTL DEF Spec, ImplementsEchoService, Echo!ESpec
============================================================================
