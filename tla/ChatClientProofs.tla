-------------------------- MODULE ChatClientProofs --------------------------
(***************************************************************************)
(* Proofs about the client program and the server together, for any number *)
(* of clients, lines and bytes: why no more than what a client sends first *)
(* arrives, and why what it prints is the answer to that.                  *)
(***************************************************************************)
EXTENDS ChatClient, ReactorServiceProofs

USE TcpAssumption, ReactorAssumption, ClientAssumption
USE DEF getFd, getInEpoll, getEvent, getREvent, getCurRlen, getCurWlen,
        BindRecvCallback, BindSendCallback

\* The first n bytes of a client.
Upto(n) == [k \in 1..n |-> k]

\* The answer to client c is not longer than the buffer of main().
FitsBuffer(c) == Len(echoed[c]) <= ClientBufLen

\* AnswerPrintedOnce, for what a process p of client c has printed.
Printed(c, p) ==
  \A i \in DOMAIN p.printed :
    LET n == Len(p.printed[i]) IN
    IF i = 1 THEN /\ p.printed[1] = Upto(n)
                  /\ n <= p.line1
                  /\ FitsBuffer(c) /\ ~ClosedHard(c) => n = Len(echoed[c])
             ELSE FitsBuffer(c) => n = 0

\* Before the first send().
Unsent(p) == /\ p.phase # "recv" /\ p.printed = <<>>
             /\ p.buffer = Unwritten
             /\ p.outN = 0 /\ p.gotN = 0

\* After it the buffer holds what recv() stored, as much as rlen says unless a reset was
\* counted.
Got(p) == /\ p.buffer \in Seq(1..MaxBytes) /\ Len(p.buffer) <= p.gotN
          /\ p.rlen \in {Len(p.buffer), Len(p.buffer) - 1}
          /\ p.sock # "reported" => p.rlen = Len(p.buffer)

\* As long as nothing is printed, no more than one line has been sent, and all that was
\* received is in the buffer.
First(p) == /\ p.phase \notin {"start", "input"}
            /\ p.outN <= p.line1
            /\ p.buffer = Upto(p.gotN)

\* From then on the connection is closed, and nothing more is received unless the answer
\* was too long.
Later(c, p) == /\ Closed(c)
               /\ FitsBuffer(c) => /\ p.sock = "reported" \/ p.gotN = Len(echoed[c])
                                   /\ p.phase = "recv" => p.buffer = <<>>

\* The process p of client c fits the connection's state in the kernel of the server.
Fits(c, p) ==
  /\ sentN[c] <= p.outN /\ sentN[c] <= p.line1
  /\ p.gotN <= Len(echoed[c])
  /\ p.first = "typed" => p.line1 <= MaxLine
  /\ IF p.first = "none" THEN Unsent(p)
     ELSE Got(p) /\ IF p.printed = <<>> THEN First(p) ELSE Later(c, p)
  /\ p.sock \in {"reset", "reported"} => ClosedHard(c)
  /\ p.sock = "poked" => Closed(c)
  /\ Printed(c, p)

\* The inductive invariant, on top of IInv and BInv.
CInv == CTypeOK /\ \A c \in Clients : Fits(c, proc[c])
-----------------------------------------------------------------------------
(* What the client's program needs to know of the server and the kernel. *)

\* What there is for client c to receive: its own first bytes, no more than have arrived,
\* and nothing before the server has closed the connection.
LEMMA AnswerOf ==
  ASSUME IInv, BInv, NEW c \in Clients
  PROVE  /\ sentN[c] \in 0..MaxBytes /\ readN[c] \in Nat
         /\ echoed[c] \in Seq(Int) /\ Len(echoed[c]) \in Nat /\ Len(echoed[c]) <= sentN[c]
         /\ \A i \in 1..Len(echoed[c]) : echoed[c][i] = i
         /\ link[c] # "closed" => Len(echoed[c]) = 0
         /\ link[c] \in {"idle", "queued", "accepted", "closed"}
<1>1. /\ sentN[c] \in 0..MaxBytes /\ readN[c] \in Nat
      /\ link[c] \in {"idle", "queued", "accepted", "closed"}
  BY DEF IInv, Types, Streams
<1>2. echoed[c] \in Seq(Int) /\ Reply(c) /\ readN[c] <= sentN[c]
  BY DEF BInv, ClientBytes, Stream
<1>3. Len(echoed[c]) \in Nat /\ DOMAIN echoed[c] = 1..Len(echoed[c])
  BY <1>2
<1>4. CASE link[c] = "closed"
  <2>1. \A i \in 1..Len(echoed[c]) : (\A j \in 1..i : j # NulAt[c]) => echoed[c][i] = i
    BY <1>2, <1>3, <1>4 DEF Reply
  <2>2. \A i \in 1..Len(echoed[c]) : \A j \in 1..i : j # NulAt[c]
    BY <1>3
  <2>3. Len(echoed[c]) <= readN[c]
    BY <1>2, <1>4 DEF Reply
  <2> QED BY <1>1, <1>2, <1>3, <1>4, <2>1, <2>2, <2>3
<1>5. CASE link[c] # "closed"
  <2>1. echoed[c] = <<>>
    BY <1>2, <1>5 DEF Reply
  <2>2. Len(echoed[c]) = 0
    BY <2>1
  <2> QED BY <1>1, <1>2, <2>2
<1> QED BY <1>4, <1>5

\* The server's thread only reads what has arrived.
LEMMA NothingArrives ==
  ASSUME ServerStep \/ ServerStops
  PROVE  sentN' = sentN
<1>1. CASE ServerStops
  BY <1>1 DEF ServerStops, tcpVars
<1>2. CASE Boot
  BY <1>2 DEF Boot, BootFailure, LoopCheck, BootListen, BootRegister, tcpVars
<1>3. CASE \E S \in SUBSET ready : Poll(S)
  BY <1>3 DEF Poll, tcpVars
<1>4. CASE AcceptFails
  BY <1>4 DEF AcceptFails, tcpVars
<1>5. ASSUME NEW c \in Clients,
             \/ AcceptClient(c)
             \/ RecvBegin(c) \/ RecvSome(c) \/ RecvError(c) \/ RecvEnd(c)
             \/ SendCallback(c) \/ SendKilled(c)
      PROVE  sentN' = sentN
  BY <1>5 DEF AcceptClient, TcpAccept, RecvBegin, RecvSome, TcpRecv, RecvError, TcpReportReset,
              RecvEnd, SendCallback, TcpWriteClose, SendKilled, tcpVars
<1> QED BY <1>1, <1>2, <1>3, <1>4, <1>5 DEF ServerStep

\* Nothing of client c changes in the server's kernel.
Same(c) == /\ link'[c] = link[c] /\ echoed'[c] = echoed[c]
           /\ sentN'[c] = sentN[c] /\ readN'[c] = readN[c]

\* A process that has ended does nothing, and no one reaches it.
LEMMA EndedForGood ==
  ASSUME Ended
  PROVE  ~Next /\ ~ServerStops
<1>1. ~ServerStops
  BY DEF Ended, ServerStops
<1>2. ~Boot
  BY DEF Ended, Boot, BootFailure, LoopCheck, BootListen, BootRegister
<1>3. /\ \A S \in SUBSET ready : ~Poll(S)
      /\ ~AcceptFails
      /\ \A c \in Clients : /\ ~AcceptClient(c)
                            /\ ~RecvBegin(c) /\ ~RecvSome(c) /\ ~RecvError(c) /\ ~RecvEnd(c)
                            /\ ~SendCallback(c) /\ ~SendKilled(c)
                            /\ ~Connect(c) /\ ~Arrival(c)
  BY DEF Ended, Poll, AcceptFails, AcceptClient, RecvBegin, RecvSome, RecvError, RecvEnd,
         SendCallback, SendKilled, Turn, Connect, Arrival
<1> QED BY <1>1, <1>2, <1>3 DEF Next, ServerStep, Environment

\* After the server has closed a connection nothing of it changes.
LEMMA ClosedForGood ==
  ASSUME IInv, NEW c \in Clients, link[c] = "closed", Next
  PROVE  Same(c)
<1> USE DEF Same
<1>1. ASSUME UNCHANGED tcpVars PROVE Same(c)
  BY <1>1 DEF tcpVars
<1>2. CASE Boot
  BY <1>1, <1>2 DEF Boot, BootFailure, LoopCheck, BootListen, BootRegister
<1>3. CASE \E S \in SUBSET ready : Poll(S)
  BY <1>1, <1>3 DEF Poll
<1>4. CASE AcceptFails
  BY <1>1, <1>4 DEF AcceptFails
<1>5. /\ link \in [Clients -> {"idle", "queued", "accepted", "closed"}]
      /\ readN \in [Clients -> 0..MaxBytes]
  BY DEF IInv, Types, Streams
<1>6. ASSUME NEW x \in Clients,
             \/ AcceptClient(x)
             \/ RecvBegin(x) \/ RecvSome(x) \/ RecvError(x) \/ RecvEnd(x)
             \/ SendCallback(x) \/ SendKilled(x)
      PROVE  Same(c)
  <2>1. CASE AcceptClient(x)
    <3>1. TcpAccept(x) /\ UNCHANGED <<sentN, readN, echoed>>
      BY <2>1 DEF AcceptClient, TcpAccept
    <3>2. \A y \in Clients : link'[y] = IF y = x THEN "accepted" ELSE link[y]
      BY <3>1, AcceptQueue DEF IInv, Types
    <3>3. link[x] = "queued"
      BY <3>1, AcceptQueue DEF IInv, Types
    <3> QED BY <3>1, <3>2, <3>3
  <2>2. CASE RecvBegin(x) \/ RecvEnd(x) \/ SendKilled(x)
    BY <1>1, <2>2 DEF RecvBegin, RecvEnd, SendKilled
  <2>3. CASE RecvSome(x)
    <3>1. /\ cur = x /\ \E k : readN' = [readN EXCEPT ![x] = @ + k]
          /\ UNCHANGED <<link, sentN, echoed>>
      BY <2>3 DEF RecvSome, TcpRecv
    <3>2. x # c
      BY <3>1, Reading
    <3> QED BY <1>5, <3>1, <3>2
  <2>4. CASE RecvError(x)
    BY <2>4 DEF RecvError, TcpReportReset
  <2>5. CASE SendCallback(x)
    <3>1. /\ Turn(x, "sendCallback")
          /\ \E s : echoed' = IF peer[x] \in {"open", "fin"}
                              THEN [echoed EXCEPT ![x] = s] ELSE echoed
          /\ link' = [link EXCEPT ![x] = "closed"]
          /\ UNCHANGED <<sentN, readN>>
      BY <2>5 DEF SendCallback, TcpWriteClose
    <3>2. link[x] = "accepted"
      BY <3>1, TurnTaken DEF Objs, IInv, ClientObjects
    <3>3. link'[c] = link[c]
      BY <1>5, <3>1, <3>2
    <3>4. echoed'[c] = echoed[c]
      BY <3>1, <3>2
    <3> QED BY <3>1, <3>3, <3>4
  <2> QED BY <1>6, <2>1, <2>2, <2>3, <2>4, <2>5
<1>7. ASSUME NEW x \in Clients, Connect(x)
      PROVE  Same(c)
  <2>1. /\ link[x] = "idle" /\ link' = [link EXCEPT ![x] = "queued"]
        /\ UNCHANGED <<sentN, readN, echoed>>
    BY <1>7 DEF Connect, TcpConnect
  <2> QED BY <1>5, <2>1
<1>8. ASSUME NEW x \in Clients, Arrival(x)
      PROVE  Same(c)
  <2>1. /\ UNCHANGED <<link, backlog, readN, echoed>>
        /\ link[x] \in {"queued", "accepted"}
        /\ \A y \in Clients : y # x => sentN'[y] = sentN[y]
    BY <1>8, ArrivalStreams DEF Arrival, IInv, Types
  <2> QED BY <2>1
<1> QED BY <1>2, <1>3, <1>4, <1>6, <1>7, <1>8 DEF Next, ServerStep, Environment

\* So it is for a connection that ends with the server's process.
LEMMA ClosedStays ==
  ASSUME IInv, NEW c \in Clients, Closed(c), Next \/ ServerStops
  PROVE  Same(c) /\ Closed(c)'
<1>1. link[c] = "closed"
  BY EndedForGood DEF Closed
<1>2. CASE Next
  <2>1. Same(c)
    BY <1>1, <1>2, ClosedForGood
  <2> QED BY <1>1, <2>1 DEF Same, Closed
<1>3. CASE ServerStops
  BY <1>1, <1>3 DEF ServerStops, tcpVars, Same, Closed
<1> QED BY <1>2, <1>3

\* A process that does nothing keeps fitting, whatever the server does and as long as
\* not more than it has sent arrives.
LEMMA FitsOn ==
  ASSUME IInv, BInv, BInv', IInv', NEW c \in Clients, NEW p \in Processes, Fits(c, p),
         Next \/ ServerStops
  PROVE  /\ p.gotN <= Len(echoed'[c])
         /\ p.sock \in {"reset", "reported"} => ClosedHard(c)'
         /\ p.sock = "poked" => Closed(c)'
         /\ p.first # "none" /\ p.printed # <<>> =>
              /\ Closed(c) /\ Closed(c)'
              /\ Len(echoed'[c]) = Len(echoed[c])
              /\ ClosedHard(c)' <=> ClosedHard(c)
<1>1. CASE Closed(c)
  <2>1. Same(c) /\ Closed(c)'
    BY <1>1, ClosedStays
  <2>2. ClosedHard(c)' <=> ClosedHard(c)
    BY <1>1, <2>1 DEF Same, ClosedHard, Unread
  <2> QED BY <1>1, <2>1, <2>2 DEF Same, Fits
<1>2. CASE ~Closed(c)
  <2>1. /\ p.first # "none" => p.printed = <<>>
        /\ p.sock \notin {"reset", "reported", "poked"}
    BY <1>2 DEF Fits, Later, ClosedHard
  <2>2. Len(echoed[c]) = 0 /\ p.gotN <= 0
    BY <1>2, AnswerOf DEF Closed, Fits
  <2>3. Len(echoed'[c]) \in Nat
    BY DEF BInv
  <2>4. p.gotN \in Int
    BY DEF Processes
  <2> QED BY <2>1, <2>2, <2>3, <2>4
<1> QED BY <1>1, <1>2

\* A process that fits, in terms of the next state.
LEMMA FitsNext ==
  ASSUME IInv, BInv, BInv', IInv', NEW c \in Clients, NEW p \in Processes, Fits(c, p),
         Next \/ ServerStops, proc'[c] = p,
         sentN'[c] <= p.outN, sentN'[c] <= p.line1
  PROVE  Fits(c, proc[c])'
<1>1. /\ p.gotN <= Len(echoed'[c])
      /\ p.sock \in {"reset", "reported"} => ClosedHard(c)'
      /\ p.sock = "poked" => Closed(c)'
      /\ p.first # "none" /\ p.printed # <<>> =>
           /\ Closed(c) /\ Closed(c)'
           /\ Len(echoed'[c]) = Len(echoed[c])
           /\ ClosedHard(c)' <=> ClosedHard(c)
  BY FitsOn
<1>2. /\ p.first = "typed" => p.line1 <= MaxLine
      /\ IF p.first = "none" THEN Unsent(p)
         ELSE Got(p) /\ IF p.printed = <<>> THEN First(p) ELSE Later(c, p)
      /\ Printed(c, p)
  BY DEF Fits
<1>3. p.first # "none" /\ p.printed # <<>> => Later(c, p)'
  BY <1>1, <1>2 DEF Later, FitsBuffer
<1>4. Printed(c, p)'
  <2>1. CASE p.printed = <<>>
    BY <2>1 DEF Printed
  <2>2. CASE p.printed # <<>>
    <3>1. p.first # "none"
      BY <1>2, <2>2 DEF Unsent
    <3> QED BY <1>1, <1>2, <2>2, <3>1 DEF Printed, FitsBuffer
  <2> QED BY <2>1, <2>2
<1>5. Fits(c, p)'
  <2>1. IF p.first = "none" THEN Unsent(p)
        ELSE Got(p) /\ IF p.printed = <<>> THEN First(p) ELSE Later(c, p)'
    BY <1>2, <1>3
  <2> QED BY <1>1, <1>2, <1>4, <2>1 DEF Fits, Unsent, Got, First
<1> QED BY <1>5 DEF Fits, Printed, FitsBuffer, Unsent, Got, First, Later

\* What replacing the process of one client leaves of the others.
LEMMA Updated ==
  ASSUME CTypeOK, NEW c \in Clients, NEW d \in Processes, proc' = [proc EXCEPT ![c] = d]
  PROVE  CTypeOK' /\ proc'[c] = d /\ \A o \in Clients : o # c => proc'[o] = proc[o]
BY DEF CTypeOK

\* A step of one client's program alone.
LEMMA OwnStep ==
  ASSUME CInv, NEW c \in Clients, NEW d \in Processes, proc' = [proc EXCEPT ![c] = d],
         UNCHANGED vars, Fits(c, d)
  PROVE  CInv'
<1>1. CTypeOK' /\ proc'[c] = d /\ \A o \in Clients : o # c => proc'[o] = proc[o]
  BY Updated DEF CInv
<1>2. /\ UNCHANGED <<link, peer, sentN, readN, echoed, server>>
  BY DEF vars, tcpVars
<1>3. \A o \in Clients : /\ Closed(o)' <=> Closed(o)
                         /\ ClosedHard(o)' <=> ClosedHard(o)
  BY <1>2 DEF Closed, ClosedHard, Unread, Ended
<1>4. ASSUME NEW o \in Clients PROVE Fits(o, proc[o])'
  <2>1. PICK p : p = proc'[o]
    OBVIOUS
  <2>2. Fits(o, p)
    BY <1>1, <2>1 DEF CInv
  <2>3. Fits(o, p)'
    BY <1>2, <1>3, <2>2 DEF Fits, Printed, FitsBuffer, Unsent, Got, First, Later
  <2> QED BY <2>1, <2>3 DEF Fits, Printed, FitsBuffer, Unsent, Got, First, Later
<1> QED BY <1>1, <1>4 DEF CInv
-----------------------------------------------------------------------------
(* The server and the network. *)

\* ServerStep, the clients' connections and the end of the process, as ChatClient
\* composes them, keep what was proved of the server alone.
LEMMA ServerKept ==
  ASSUME IInv, BInv, Next \/ ServerStops \/ UNCHANGED vars
  PROVE  IInv' /\ BInv'
<1>1. CASE Next \/ UNCHANGED vars
  BY <1>1, InductiveStep, InductiveBytes
<1>2. CASE ServerStops
  <2>1. IInv'
    BY <1>2, EndStep DEF ServerStops
  <2> QED BY <1>2, <2>1, StillStep DEF ServerStops
<1> QED BY <1>1, <1>2

\* Whatever happens in the server's kernel, the programs of the clients fit it still.
LEMMA WorldStep ==
  ASSUME IInv, BInv, CInv, UNCHANGED proc, Next \/ ServerStops,
         \A o \in Clients : sentN'[o] <= proc[o].outN /\ sentN'[o] <= proc[o].line1
  PROVE  CInv'
<1>1. IInv' /\ BInv'
  BY ServerKept
<1>2. CTypeOK'
  BY DEF CInv, CTypeOK
<1>3. ASSUME NEW o \in Clients PROVE Fits(o, proc[o])'
  <2>1. PICK p \in Processes : p = proc[o] /\ proc'[o] = p
    BY DEF CInv, CTypeOK
  <2>2. Fits(o, p)
    BY <2>1 DEF CInv
  <2>3. sentN'[o] <= p.outN /\ sentN'[o] <= p.line1
    BY <2>1
  <2> QED BY <1>1, <2>1, <2>2, <2>3, FitsNext
<1> QED BY <1>2, <1>3 DEF CInv

\* The server's thread, and the end of its process.
LEMMA ServerSide ==
  ASSUME IInv, BInv, CInv, UNCHANGED proc, ServerStep \/ ServerStops
  PROVE  CInv'
<1>1. sentN' = sentN
  BY NothingArrives
<1>2. \A o \in Clients : sentN'[o] <= proc[o].outN /\ sentN'[o] <= proc[o].line1
  BY <1>1 DEF CInv, Fits
<1> QED BY <1>2, WorldStep DEF Next

\* BytesArrive: the connection is open, so that nothing but the first line was sent.
LEMMA BytesArriveStep ==
  ASSUME IInv, BInv, CInv, NEW c \in Clients, BytesArrive(c)
  PROVE  CInv'
<1>1. /\ Arrival(c) /\ sentN[c] < proc[c].outN /\ sentN'[c] = sentN[c] + 1 /\ UNCHANGED proc
  BY DEF BytesArrive
<1>2. /\ link[c] \in {"queued", "accepted"} /\ server \in {"listening", "up"}
      /\ \A x \in Clients : x # c => sentN'[x] = sentN[x]
  BY <1>1, ArrivalStreams DEF Arrival, IInv, Types
<1>3. ~Closed(c)
  BY <1>2 DEF Closed, Ended
<1>4. sentN[c] \in Nat /\ proc[c].outN \in Nat /\ proc[c].line1 \in Nat
  BY AnswerOf DEF CInv, CTypeOK, Processes
<1>5. proc[c].outN <= proc[c].line1
  <2>1. Fits(c, proc[c])
    BY DEF CInv
  <2>2. proc[c].first = "none" => proc[c].outN = 0
    BY <2>1 DEF Fits, Unsent
  <2>3. proc[c].first # "none" => proc[c].outN <= proc[c].line1
    BY <1>3, <2>1 DEF Fits, First, Later
  <2> QED BY <1>4, <2>2, <2>3
<1>6. sentN'[c] <= proc[c].outN /\ sentN'[c] <= proc[c].line1
  BY <1>1, <1>4, <1>5
<1>7. \A o \in Clients : sentN'[o] <= proc[o].outN /\ sentN'[o] <= proc[o].line1
  BY <1>2, <1>6 DEF CInv, Fits
<1> QED BY <1>1, <1>7, WorldStep DEF Next, Environment

\* Hangup: the end of the stream is no byte.
LEMMA HangupStep ==
  ASSUME IInv, BInv, CInv, NEW c \in Clients, Hangup(c)
  PROVE  CInv'
<1>1. Arrival(c) /\ peer'[c] = "fin" /\ UNCHANGED proc
  BY DEF Hangup
<1>2. TcpArrival(c)
  BY <1>1 DEF Arrival
<1>3. peer[c] = "open" \/ sentN' = sentN
  BY <1>2 DEF TcpArrival, TcpByte, TcpFin, TcpReset
<1>4. sentN' = sentN
  BY <1>1, <1>2, <1>3 DEF TcpArrival, TcpByte, TcpFin, TcpReset
<1>5. \A o \in Clients : sentN'[o] <= proc[o].outN /\ sentN'[o] <= proc[o].line1
  BY <1>4 DEF CInv, Fits
<1> QED BY <1>1, <1>5, WorldStep DEF Next, Environment

\* ConnectOk: the connection enters the queue and the program its loop.
LEMMA ConnectOkStep ==
  ASSUME IInv, BInv, CInv, NEW c \in Clients, ConnectOk(c)
  PROVE  CInv'
<1>1. /\ proc[c].phase = "start" /\ Connect(c)
      /\ proc' = [proc EXCEPT ![c] = [proc[c] EXCEPT !.phase = "input"]]
  BY Zenon DEF ConnectOk
<1>2. proc[c] \in Processes
  BY DEF CInv, CTypeOK
<1>3. PICK d : d = [proc[c] EXCEPT !.phase = "input"]
  OBVIOUS
<1>4. /\ d \in Processes /\ d.phase = "input"
      /\ d.sock = proc[c].sock /\ d.first = proc[c].first /\ d.line1 = proc[c].line1
      /\ d.outN = proc[c].outN /\ d.gotN = proc[c].gotN
      /\ d.buffer = proc[c].buffer /\ d.rlen = proc[c].rlen /\ d.printed = proc[c].printed
  BY <1>2, <1>3 DEF Processes
<1>5. proc' = [proc EXCEPT ![c] = d]
  BY <1>1, <1>3
<1>6. CTypeOK' /\ proc'[c] = d /\ \A o \in Clients : o # c => proc'[o] = proc[o]
  BY <1>4, <1>5, Updated DEF CInv
<1>7. Fits(c, d)
  BY <1>1, <1>4 DEF CInv, Fits, Printed, Unsent, Got, First, Later
<1>8. sentN' = sentN /\ (Next \/ ServerStops) /\ IInv' /\ BInv'
  BY <1>1, ServerKept DEF Connect, TcpConnect, Next, Environment
<1>9. ASSUME NEW o \in Clients PROVE Fits(o, proc[o])'
  <2>1. PICK p \in Processes : p = proc'[o]
    BY <1>6 DEF CTypeOK
  <2>2. Fits(o, p)
    BY <1>6, <1>7, <2>1 DEF CInv
  <2>3. sentN'[o] <= p.outN /\ sentN'[o] <= p.line1
    BY <1>8, <2>2 DEF Fits
  <2> QED BY <1>8, <2>1, <2>2, <2>3, FitsNext
<1> QED BY <1>6, <1>9 DEF CInv
-----------------------------------------------------------------------------
(* The client's program: its variables, and the steps that only end it or its loop. *)

\* The types of one client's variables.
LEMMA ProcTyped ==
  ASSUME CInv, NEW c \in Clients
  PROVE  /\ proc[c] \in Processes
         /\ proc[c].phase \in {"start", "input", "recv", "exit", "quit", "sigpipe"}
         /\ proc[c].sock \in {"ok", "reset", "reported", "poked"}
         /\ proc[c].first \in {"none", "typed", "eof"}
         /\ proc[c].line1 \in 0..MaxBytes /\ proc[c].outN \in 0..MaxBytes
         /\ proc[c].gotN \in 0..MaxBytes /\ proc[c].rlen \in -1..ClientBufLen
         /\ proc[c].printed \in Seq(Seq(1..MaxBytes))
         /\ Fits(c, proc[c])
BY DEF CInv, CTypeOK, Processes

\* The buffer of main() holds a client's first n bytes.
LEMMA UptoTyped ==
  ASSUME NEW n \in 0..MaxBytes
  PROVE  Upto(n) \in Seq(1..MaxBytes) /\ Len(Upto(n)) = n
BY DEF Upto

\* recv() appends to the buffer: the bytes of a concatenation.
LEMMA Glued ==
  ASSUME NEW u \in Seq(Int), NEW t \in Seq(Int)
  PROVE  /\ u \o t \in Seq(Int) /\ Len(u \o t) = Len(u) + Len(t)
         /\ \A i \in 1..Len(u) + Len(t) : (u \o t)[i] = IF i <= Len(u) THEN u[i] ELSE t[i - Len(u)]
OBVIOUS

\* The same for bytes of a client.
LEMMA GluedBytes ==
  ASSUME NEW u \in Seq(1..MaxBytes), NEW t \in Seq(1..MaxBytes)
  PROVE  /\ u \o t \in Seq(1..MaxBytes) /\ Len(u \o t) = Len(u) + Len(t)
OBVIOUS

\* A piece of the answer of k bytes.
LEMMA PieceTyped ==
  ASSUME NEW g \in Nat, NEW k \in Nat, NEW s \in Seq(Int), g + k <= Len(s),
         Len(s) <= MaxBytes, \A i \in 1..Len(s) : s[i] = i
  PROVE  SubSeq(s, g + 1, g + k) \in Seq(1..MaxBytes) /\ Len(SubSeq(s, g + 1, g + k)) = k
<1>1. PICK t : t = SubSeq(s, g + 1, g + k)
  OBVIOUS
<1>2. t \in Seq(Int) /\ Len(t) = k /\ \A i \in 1..k : t[i] = s[g + i]
  BY <1>1
<1>3. MaxBytes \in Nat /\ Len(s) \in Nat
  OBVIOUS
<1>4. \A i \in 1..k : g + i \in 1..Len(s) /\ g + i \in 1..MaxBytes
  BY <1>3
<1>5. ASSUME NEW i \in 1..k
      PROVE  t[i] \in 1..MaxBytes
  <2>1. t[i] = s[g + i]
    BY <1>2
  <2>2. g + i \in 1..Len(s) /\ g + i \in 1..MaxBytes
    BY <1>4
  <2>3. s[g + i] = g + i
    BY <2>2
  <2> QED BY <2>1, <2>2, <2>3
<1>6. t \in Seq(1..MaxBytes)
  BY <1>2, <1>5
<1> QED BY <1>1, <1>2, <1>6

\* What recv() appends to the client's first g bytes are the k that follow them.
LEMMA UptoExtends ==
  ASSUME NEW g \in Nat, NEW k \in Nat, NEW s \in Seq(Int), g + k <= Len(s),
         \A i \in 1..Len(s) : s[i] = i
  PROVE  Upto(g) \o SubSeq(s, g + 1, g + k) = Upto(g + k)
<1>1. PICK u : u = Upto(g)
  OBVIOUS
<1>2. PICK t : t = SubSeq(s, g + 1, g + k)
  OBVIOUS
<1>3. u \in Seq(Int) /\ Len(u) = g /\ \A i \in 1..g : u[i] = i
  BY <1>1 DEF Upto
<1>4. t \in Seq(Int) /\ Len(t) = k /\ \A i \in 1..k : t[i] = g + i
  BY <1>2
<1>5. /\ u \o t \in Seq(Int) /\ Len(u \o t) = g + k
      /\ \A i \in 1..g + k : (u \o t)[i] = IF i <= g THEN u[i] ELSE t[i - g]
  <2>1. /\ u \o t \in Seq(Int) /\ Len(u \o t) = Len(u) + Len(t)
        /\ \A i \in 1..Len(u) + Len(t) :
              (u \o t)[i] = IF i <= Len(u) THEN u[i] ELSE t[i - Len(u)]
    BY <1>3, <1>4, Glued, Zenon
  <2> QED BY <1>3, <1>4, <2>1, Zenon
<1>6. ASSUME NEW i \in 1..g + k
      PROVE  (u \o t)[i] = i
  <2>1. CASE i <= g
    BY <1>3, <1>5, <2>1
  <2>2. CASE ~(i <= g)
    <3>1. i - g \in 1..k /\ g + (i - g) = i
      BY <2>2
    <3> QED BY <1>4, <1>5, <2>2, <3>1
  <2> QED BY <2>1, <2>2
<1>7. Upto(g + k) \in Seq(Int) /\ Len(Upto(g + k)) = g + k /\ \A i \in 1..g + k : Upto(g + k)[i] = i
  BY DEF Upto
<1>8. u \o t = Upto(g + k)
  BY <1>5, <1>6, <1>7, SeqEqual
<1> QED BY <1>1, <1>2, <1>8

\* A program that ends: by errif in connect(), by SIGPIPE or by its user.
LEMMA EndingStep ==
  ASSUME CInv, NEW c \in Clients, NEW ph \in {"exit", "quit", "sigpipe"},
         proc' = [proc EXCEPT ![c].phase = ph], UNCHANGED vars
  PROVE  CInv'
<1>1. proc' = [proc EXCEPT ![c] = [proc[c] EXCEPT !.phase = ph]]
  BY Zenon
<1>2. PICK d : d = [proc[c] EXCEPT !.phase = ph]
  OBVIOUS
<1>3. /\ d \in Processes /\ d.phase = ph
      /\ d.sock = proc[c].sock /\ d.first = proc[c].first /\ d.line1 = proc[c].line1
      /\ d.outN = proc[c].outN /\ d.gotN = proc[c].gotN
      /\ d.buffer = proc[c].buffer /\ d.rlen = proc[c].rlen /\ d.printed = proc[c].printed
  <2>1. proc[c] \in Processes
    BY ProcTyped
  <2>2. ph \in {"start", "input", "recv", "exit", "quit", "sigpipe"}
    OBVIOUS
  <2> QED BY <1>2, <2>1, <2>2, Zenon DEF Processes
<1>4. Fits(c, d)
  <2>1. Fits(c, proc[c])
    BY ProcTyped
  <2>2. ph \notin {"start", "input", "recv"}
    OBVIOUS
  <2>3. Printed(c, d)
    BY <1>3, <2>1, Zenon DEF Fits, Printed
  <2>4. IF d.first = "none" THEN Unsent(d)
        ELSE Got(d) /\ IF d.printed = <<>> THEN First(d) ELSE Later(c, d)
    BY <1>3, <2>1, <2>2 DEF Fits, Unsent, Got, First, Later
  <2> QED BY <1>3, <2>1, <2>3, <2>4 DEF Fits
<1> QED BY <1>1, <1>2, <1>3, <1>4, OwnStep

\* ResetArrives: only to a connection that the server has closed.
LEMMA ResetArrivesStep ==
  ASSUME CInv, NEW c \in Clients, ResetArrives(c)
  PROVE  CInv'
<1>1. PICK s : s = IF ClosedHard(c) THEN "reset" ELSE "poked"
  OBVIOUS
<1>2. /\ proc[c].sock = "ok" /\ Closed(c) /\ UNCHANGED vars
      /\ proc' = [proc EXCEPT ![c] = [proc[c] EXCEPT !.sock = s]]
  BY <1>1, Zenon DEF ResetArrives
<1>3. PICK d : d = [proc[c] EXCEPT !.sock = s]
  OBVIOUS
<1>4. /\ d \in Processes /\ d.sock = s
      /\ d.phase = proc[c].phase /\ d.first = proc[c].first /\ d.line1 = proc[c].line1
      /\ d.outN = proc[c].outN /\ d.gotN = proc[c].gotN
      /\ d.buffer = proc[c].buffer /\ d.rlen = proc[c].rlen /\ d.printed = proc[c].printed
  <2>1. s \in {"ok", "reset", "reported", "poked"} /\ proc[c] \in Processes
    BY <1>1, ProcTyped
  <2> QED BY <1>3, <2>1 DEF Processes
<1>5. Fits(c, d)
  <2>1. Fits(c, proc[c])
    BY ProcTyped
  <2>2. Printed(c, d)
    BY <1>4, <2>1, Zenon DEF Fits, Printed
  <2>3. s # "reported"
    BY <1>1
  <2>4. IF d.first = "none" THEN Unsent(d)
        ELSE Got(d) /\ IF d.printed = <<>> THEN First(d) ELSE Later(c, d)
    BY <1>2, <1>4, <2>1, <2>3 DEF Fits, Unsent, Got, First, Later
  <2> QED BY <1>1, <1>2, <1>4, <2>1, <2>2, <2>4 DEF Fits
<1> QED BY <1>2, <1>3, <1>4, <1>5, OwnStep
-----------------------------------------------------------------------------
(* The body of the client's loop. *)

\* Send: what is sent before anything is printed is the first line; afterwards the
\* connection is closed.
LEMMA SendStep ==
  ASSUME IInv, BInv, CInv, NEW c \in Clients, NEW how \in {"typed", "eof"}, NEW buf,
         NEW n \in Nat, how = "typed" => n <= MaxLine, Send(c, how, buf, n)
  PROVE  CInv'
<1> DEFINE p == proc[c]
<1>1. PICK s : s = IF p.sock = "reset" THEN "reported" ELSE p.sock
  OBVIOUS
<1>2. PICK o : o = IF p.sock = "ok" THEN p.outN + n ELSE p.outN
  OBVIOUS
<1>3. PICK l : l = IF p.printed = <<>> THEN n ELSE p.line1
  OBVIOUS
<1>4. PICK f : f = IF p.printed = <<>> THEN how ELSE p.first
  OBVIOUS
<1>5. PICK d : d = [proc[c] EXCEPT !.phase = "recv", !.sock = s, !.outN = o, !.line1 = l,
                                   !.first = f, !.rlen = 0, !.buffer = <<>>]
  OBVIOUS
<1>6. proc' = [proc EXCEPT ![c] = d] /\ UNCHANGED vars
  <2>1. /\ proc' = [proc EXCEPT
              ![c].phase = "recv",
              ![c].sock = IF @ = "reset" THEN "reported" ELSE @,
              ![c].outN = IF p.sock = "ok" THEN @ + n ELSE @,
              ![c].line1 = IF p.printed = <<>> THEN n ELSE @,
              ![c].first = IF p.printed = <<>> THEN how ELSE @,
              ![c].rlen = 0,
              ![c].buffer = <<>>]
        /\ UNCHANGED vars
    BY Zenon DEF Send, Length, Bzeroed
  <2>2. /\ s = IF p.sock = "reset" THEN "reported" ELSE p.sock
        /\ o = IF p.sock = "ok" THEN p.outN + n ELSE p.outN
        /\ l = IF p.printed = <<>> THEN n ELSE p.line1
        /\ f = IF p.printed = <<>> THEN how ELSE p.first
    BY <1>1, <1>2, <1>3, <1>4
  <2>3. proc' = [proc EXCEPT
              ![c].phase = "recv", ![c].sock = s, ![c].outN = o, ![c].line1 = l,
              ![c].first = f, ![c].rlen = 0, ![c].buffer = <<>>]
    BY <2>1, <2>2, Zenon
  <2>4. proc' = [proc EXCEPT ![c] = d]
    BY <1>5, <2>3, Zenon
  <2> QED BY <2>1, <2>4
<1>7. p.phase = "input" /\ p.sock \in {"ok", "reset"} /\ p.outN + n <= MaxSent[c]
  BY DEF Send
<1>8. /\ p \in Processes /\ Fits(c, p)
      /\ p.line1 \in 0..MaxBytes /\ p.outN \in 0..MaxBytes /\ p.gotN \in 0..MaxBytes
      /\ p.first \in {"none", "typed", "eof"}
  BY ProcTyped
<1>9. /\ s \in {"ok", "reset", "reported", "poked"} /\ o \in 0..MaxBytes /\ l \in 0..MaxBytes
      /\ f \in {"none", "typed", "eof"}
      /\ "recv" \in {"start", "input", "recv", "exit", "quit", "sigpipe"}
      /\ 0 \in -1..ClientBufLen /\ <<>> \in Seq(1..MaxBytes) \cup {Unwritten}
  <2>1. MaxSent[c] \in 0..MaxBytes
    OBVIOUS
  <2>2. n \in 0..MaxBytes /\ p.outN + n \in 0..MaxBytes
    BY <1>7, <1>8, <2>1
  <2>3. o \in 0..MaxBytes /\ l \in 0..MaxBytes
    BY <1>2, <1>3, <1>8, <2>2
  <2>4. s \in {"ok", "reset", "reported", "poked"} /\ f \in {"none", "typed", "eof"}
    BY <1>1, <1>4, <1>7, <1>8
  <2> QED BY <2>3, <2>4
<1>10. d \in Processes
  BY <1>5, <1>8, <1>9, Zenon DEF Processes
<1>11. /\ d.phase = "recv" /\ d.sock = s /\ d.outN = o /\ d.line1 = l /\ d.first = f
       /\ d.rlen = 0 /\ d.buffer = <<>> /\ d.gotN = p.gotN /\ d.printed = p.printed
  BY <1>5, <1>8, Zenon DEF Processes
<1>12. Upto(0) = <<>> /\ Len(<<>>) = 0 /\ <<>> \in Seq(1..MaxBytes)
  BY DEF Upto
<1>13. p.printed = <<>> => p.first = "none" /\ p.outN = 0 /\ p.gotN = 0
  BY <1>7, <1>8 DEF Fits, First, Unsent
<1>14. p.printed # <<>> => p.first # "none" /\ Later(c, p)
  BY <1>8 DEF Fits, Unsent
<1>15. sentN[c] <= o /\ sentN[c] <= l
  <2>1. sentN[c] \in Int /\ sentN[c] <= p.outN /\ sentN[c] <= p.line1
    BY <1>8, AnswerOf DEF Fits
  <2> QED BY <1>2, <1>3, <1>8, <1>13, <2>1
<1>16. f # "none" /\ (f = "typed" => l <= MaxLine)
  BY <1>3, <1>4, <1>8, <1>13, <1>14 DEF Fits
<1>17. Got(d)
  BY <1>8, <1>11, <1>12 DEF Got
<1>18. p.printed = <<>> => First(d)
  BY <1>2, <1>3, <1>11, <1>12, <1>13 DEF First
<1>19. p.printed # <<>> => Later(c, d)
  BY <1>7, <1>11, <1>14 DEF Later
<1>20. Printed(c, d)
  <2>1. p.printed = <<>> => DOMAIN d.printed = {}
    BY <1>11
  <2>2. p.printed # <<>> => d.line1 = p.line1 /\ d.printed = p.printed
    BY <1>3, <1>11
  <2>3. Printed(c, p)
    BY <1>8 DEF Fits
  <2> QED BY <2>1, <2>2, <2>3 DEF Printed
<1>21. d.gotN <= Len(echoed[c])
  BY <1>8, <1>11 DEF Fits
<1>22. (d.sock \in {"reset", "reported"} => ClosedHard(c)) /\ d.sock # "poked"
  BY <1>1, <1>7, <1>8, <1>11 DEF Fits
<1>23. Fits(c, d)
  BY <1>11, <1>15, <1>16, <1>17, <1>18, <1>19, <1>20, <1>21, <1>22 DEF Fits
<1> QED BY <1>6, <1>10, <1>23, OwnStep

\* A line that is typed and what the end of input leaves to be sent are both sent so.
LEMMA SendSteps ==
  ASSUME IInv, BInv, CInv, NEW c \in Clients,
         SendOld(c) \/ \E n \in 0..MaxLine : SendLine(c, n)
  PROVE  CInv'
<1>1. ASSUME NEW n \in 0..MaxLine, SendLine(c, n)
      PROVE  CInv'
  <2>1. n \in Nat /\ n <= MaxLine
    BY DEF MaxLine
  <2> QED BY <1>1, <2>1, SendStep DEF SendLine
<1>2. ASSUME SendOld(c)
      PROVE  CInv'
  <2>1. PICK n \in OldLengths(proc[c].buffer) : Send(c, "eof", proc[c].buffer, n)
    BY <1>2 DEF SendOld
  <2>2. n \in Nat
    <3>1. CASE proc[c].buffer = Unwritten
      BY <3>1 DEF OldLengths
    <3>2. CASE proc[c].buffer # Unwritten
      <4>1. proc[c].buffer \in Seq(1..MaxBytes)
        BY <3>2 DEF CInv, CTypeOK, Processes
      <4>2. Len(proc[c].buffer) \in Nat
        BY <4>1
      <4> QED BY <3>2, <4>2 DEF OldLengths
    <3> QED BY <3>1, <3>2
  <2> QED BY <2>1, <2>2, SendStep
<1> QED BY <1>1, <1>2

\* Bytes stored where a buffer ends.
LEMMA StoredAtEnd ==
  ASSUME NEW b \in Seq(Int), NEW t \in Seq(Int)
  PROVE  Stored(b, Len(b), t) = b \o t
<1>1. SubSeq(b, 1, Len(b)) = b
  OBVIOUS
<1>2. SubSeq(b, Len(b) + Len(t) + 1, Len(b)) = <<>>
  OBVIOUS
<1>3. b \o t \in Seq(Int)
  OBVIOUS
<1>4. (b \o t) \o <<>> = b \o t
  BY <1>3
<1> QED BY <1>1, <1>2, <1>4 DEF Stored

\* RecvData: there is something to receive for the first line, or of an answer that did
\* not fit; it goes on where the buffer ends.
LEMMA RecvDataStep ==
  ASSUME IInv, BInv, CInv, NEW c \in Clients, NEW k \in 1..ClientBufLen, RecvData(c, k)
  PROVE  CInv'
<1> DEFINE p == proc[c]
<1>1. PICK t : t = SubSeq(echoed[c], p.gotN + 1, p.gotN + k)
  OBVIOUS
<1>2. PICK b : b = Stored(p.buffer, p.rlen, t)
  OBVIOUS
<1>3. PICK d : d = [proc[c] EXCEPT !.buffer = b, !.gotN = p.gotN + k, !.rlen = p.rlen + k]
  OBVIOUS
<1>4. proc' = [proc EXCEPT ![c] = d] /\ UNCHANGED vars
  BY <1>1, <1>2, <1>3, Zenon DEF RecvData
<1>5. /\ p.phase = "recv" /\ p.sock # "reported"
      /\ k <= Len(echoed[c]) - p.gotN /\ k <= ClientBufLen - p.rlen
  BY DEF RecvData
<1>6. /\ p \in Processes /\ Fits(c, p)
      /\ p.gotN \in 0..MaxBytes /\ p.rlen \in -1..ClientBufLen /\ p.outN \in Nat /\ p.line1 \in Nat
  BY ProcTyped
<1>7. /\ sentN[c] \in 0..MaxBytes /\ echoed[c] \in Seq(Int)
      /\ Len(echoed[c]) \in Nat /\ Len(echoed[c]) <= sentN[c]
      /\ \A i \in 1..Len(echoed[c]) : echoed[c][i] = i
  BY AnswerOf
<1>8. k \in Nat /\ k >= 1 /\ p.gotN + k <= Len(echoed[c]) /\ p.gotN + k \in 0..MaxBytes
  <2>1. PICK g \in 0..MaxBytes : g = p.gotN
    BY <1>6
  <2>2. PICK n \in 0..MaxBytes : n = Len(echoed[c])
    BY <1>7
  <2>3. k \in Nat /\ k >= 1 /\ k <= n - g
    BY <1>5, <2>1, <2>2
  <2>4. g + k <= n /\ g + k \in 0..MaxBytes
    BY <2>3
  <2> QED BY <2>1, <2>2, <2>3, <2>4
<1>9. /\ p.first # "none" /\ p.buffer \in Seq(1..MaxBytes) /\ p.rlen = Len(p.buffer)
      /\ Len(p.buffer) <= p.gotN
      /\ IF p.printed = <<>> THEN First(p) ELSE Later(c, p)
  BY <1>5, <1>6 DEF Fits, Unsent, Got
<1>10. t \in Seq(1..MaxBytes) /\ Len(t) = k
  <2>1. PICK g \in 0..MaxBytes : g = p.gotN
    BY <1>6
  <2>2. PICK e : e = echoed[c]
    OBVIOUS
  <2>3. PICK m \in 0..MaxBytes : m = Len(e)
    BY <1>7, <2>2
  <2>4. /\ e \in Seq(Int) /\ \A i \in 1..m : e[i] = i
        /\ g + k <= m /\ g + k \in 0..MaxBytes /\ t = SubSeq(e, g + 1, g + k)
    BY <1>1, <1>7, <1>8, <2>1, <2>2, <2>3
  <2>5. g \in Nat /\ k \in Nat /\ g + k <= Len(e) /\ Len(e) <= MaxBytes
        /\ \A i \in 1..Len(e) : e[i] = i
    BY <1>8, <2>3, <2>4
  <2> QED BY <2>4, <2>5, PieceTyped
<1>11. b = p.buffer \o t
  <2>1. p.buffer \in Seq(Int) /\ t \in Seq(Int)
    BY <1>9, <1>10
  <2> QED BY <1>2, <1>9, <2>1, StoredAtEnd
<1>12. b \in Seq(1..MaxBytes) /\ Len(b) = p.rlen + k /\ Len(b) <= p.gotN + k
  <2>1. PICK u : u = p.buffer
    OBVIOUS
  <2>2. PICK g \in 0..MaxBytes : g = p.gotN
    BY <1>6
  <2>3. u \in Seq(1..MaxBytes) /\ b = u \o t /\ Len(u) <= g /\ p.rlen = Len(u)
    BY <1>9, <1>11, <2>1, <2>2
  <2>4. b \in Seq(1..MaxBytes) /\ Len(b) = Len(u) + k
    BY <1>10, <2>3, GluedBytes
  <2>5. Len(b) <= g + k
    BY <1>8, <2>3, <2>4
  <2> QED BY <2>2, <2>3, <2>4, <2>5
<1>13. p.rlen + k \in -1..ClientBufLen
  <2>1. PICK r \in -1..ClientBufLen : r = p.rlen
    BY <1>6
  <2>2. k \in Nat /\ k <= ClientBufLen - r
    BY <1>5, <1>8, <2>1
  <2>3. ClientBufLen \in Nat
    OBVIOUS
  <2>4. r + k \in -1..ClientBufLen
    BY <2>1, <2>2, <2>3
  <2> QED BY <2>1, <2>4
<1>14. d \in Processes
  <2>1. b \in Seq(1..MaxBytes) \cup {Unwritten}
    BY <1>12
  <2> QED BY <1>3, <1>6, <1>8, <1>13, <2>1, Zenon DEF Processes
<1>15. /\ d.phase = "recv" /\ d.sock = p.sock /\ d.outN = p.outN /\ d.line1 = p.line1
       /\ d.first = p.first /\ d.rlen = p.rlen + k /\ d.buffer = b /\ d.gotN = p.gotN + k
       /\ d.printed = p.printed
  BY <1>3, <1>5, <1>6, Zenon DEF Processes
<1>16. Got(d)
  BY <1>12, <1>15 DEF Got
<1>17. p.printed = <<>> => First(d)
  <2> SUFFICES ASSUME p.printed = <<>> PROVE First(d)
    OBVIOUS
  <2>1. p.gotN \in Nat /\ p.outN <= p.line1 /\ p.buffer = Upto(p.gotN)
    BY <1>6, <1>9 DEF First
  <2>2. Upto(p.gotN) \o t = Upto(p.gotN + k)
    BY <1>1, <1>7, <1>8, <2>1, UptoExtends
  <2>3. b = Upto(p.gotN + k)
    BY <1>11, <2>1, <2>2
  <2> QED BY <1>15, <2>1, <2>3 DEF First
<1>18. p.printed # <<>> => Later(c, d)
  <2> SUFFICES ASSUME p.printed # <<>> PROVE Later(c, d)
    OBVIOUS
  <2>1. Closed(c) /\ (FitsBuffer(c) => p.sock = "reported" \/ p.gotN = Len(echoed[c]))
    BY <1>9 DEF Later
  <2>2. PICK g \in 0..MaxBytes : g = p.gotN
    BY <1>6
  <2>3. g # Len(echoed[c])
    BY <1>7, <1>8, <2>2
  <2>4. ~FitsBuffer(c)
    BY <1>5, <2>1, <2>2, <2>3
  <2> QED BY <2>1, <2>4 DEF Later
<1>19. Printed(c, d)
  BY <1>6, <1>15 DEF Fits, Printed
<1>20. d.gotN <= Len(echoed[c])
  BY <1>8, <1>15
<1>21. Fits(c, d)
  BY <1>6, <1>9, <1>15, <1>16, <1>17, <1>18, <1>19, <1>20 DEF Fits
<1> QED BY <1>4, <1>14, <1>21, OwnStep

\* RecvFails: the loop's rlen is one less than what it has.
LEMMA RecvFailsStep ==
  ASSUME CInv, NEW c \in Clients, RecvFails(c)
  PROVE  CInv'
<1> DEFINE p == proc[c]
<1>1. PICK d : d = [proc[c] EXCEPT !.sock = "reported", !.rlen = p.rlen - 1]
  OBVIOUS
<1>2. proc' = [proc EXCEPT ![c] = d] /\ UNCHANGED vars
  BY <1>1, Zenon DEF RecvFails
<1>3. /\ p.phase = "recv" /\ p.sock = "reset"
  BY DEF RecvFails
<1>4. /\ p \in Processes /\ Fits(c, p) /\ p.rlen \in -1..ClientBufLen
  BY ProcTyped
<1>5. /\ p.first # "none" /\ p.buffer \in Seq(1..MaxBytes) /\ Len(p.buffer) <= p.gotN
      /\ p.rlen = Len(p.buffer) /\ ClosedHard(c)
      /\ IF p.printed = <<>> THEN First(p) ELSE Later(c, p)
  BY <1>3, <1>4 DEF Fits, Unsent, Got
<1>6. /\ p.rlen - 1 \in -1..ClientBufLen
      /\ "reported" \in {"ok", "reset", "reported", "poked"}
  BY <1>4, <1>5
<1>7. d \in Processes
  BY <1>1, <1>4, <1>6, Zenon DEF Processes
<1>8. /\ d.phase = "recv" /\ d.sock = "reported" /\ d.outN = p.outN /\ d.line1 = p.line1
      /\ d.first = p.first /\ d.rlen = p.rlen - 1 /\ d.buffer = p.buffer
      /\ d.gotN = p.gotN /\ d.printed = p.printed
  BY <1>1, <1>3, <1>4, Zenon DEF Processes
<1>9. Got(d)
  BY <1>5, <1>8 DEF Got
<1>10. /\ p.printed = <<>> => First(d)
       /\ p.printed # <<>> => Later(c, d)
       /\ Printed(c, d)
  BY <1>3, <1>4, <1>5, <1>8 DEF Fits, First, Later, Printed
<1>11. Fits(c, d)
  BY <1>4, <1>5, <1>8, <1>9, <1>10 DEF Fits
<1> QED BY <1>2, <1>7, <1>11, OwnStep

\* RecvDone: the first line prints what arrived of the answer, a later one nothing unless
\* the answer did not fit.
LEMMA RecvDoneStep ==
  ASSUME IInv, BInv, CInv, NEW c \in Clients, RecvDone(c)
  PROVE  CInv'
<1> DEFINE p == proc[c]
<1>1. PICK q : q = Append(p.printed, p.buffer)
  OBVIOUS
<1>2. PICK d : d = [proc[c] EXCEPT !.phase = "input", !.printed = q]
  OBVIOUS
<1>3. proc' = [proc EXCEPT ![c] = d] /\ UNCHANGED vars
  BY <1>1, <1>2, Zenon DEF RecvDone
<1>4. p.phase = "recv" /\ Breaks(c)
  BY DEF RecvDone
<1>5. /\ p \in Processes /\ Fits(c, p)
      /\ p.gotN \in 0..MaxBytes /\ p.rlen \in -1..ClientBufLen
      /\ p.outN \in Nat /\ p.line1 \in 0..MaxBytes
      /\ p.printed \in Seq(Seq(1..MaxBytes))
  BY ProcTyped
<1>6. /\ p.first # "none" /\ Got(p) /\ p.buffer \in Seq(1..MaxBytes)
      /\ IF p.printed = <<>> THEN First(p) ELSE Later(c, p)
  BY <1>4, <1>5 DEF Fits, Unsent, Got
<1>7. /\ q \in Seq(Seq(1..MaxBytes)) /\ Len(q) = Len(p.printed) + 1 /\ q # <<>>
      /\ q[Len(p.printed) + 1] = p.buffer
      /\ \A i \in 1..Len(p.printed) : q[i] = p.printed[i]
      /\ DOMAIN q = 1..Len(p.printed) + 1 /\ Len(p.printed) \in Nat
  <2>1. p.printed \in Seq(Seq(1..MaxBytes)) /\ p.buffer \in Seq(1..MaxBytes)
    BY <1>5, <1>6
  <2>2. /\ q \in Seq(Seq(1..MaxBytes)) /\ q # <<>> /\ Len(q) = Len(p.printed) + 1
        /\ \A i \in 1..Len(p.printed) : q[i] = p.printed[i]
        /\ q[Len(p.printed) + 1] = p.buffer
    <3>1. PICK a : a = p.printed
      OBVIOUS
    <3>2. PICK b : b = p.buffer
      OBVIOUS
    <3>3. a \in Seq(Seq(1..MaxBytes)) /\ b \in Seq(1..MaxBytes) /\ q = Append(a, b)
      BY <1>1, <2>1, <3>1, <3>2, Zenon
    <3>4. /\ q \in Seq(Seq(1..MaxBytes)) /\ q # <<>> /\ Len(q) = Len(a) + 1
          /\ \A i \in 1..Len(a) : q[i] = a[i]
          /\ q[Len(a) + 1] = b
      BY <3>3, AppendProperties
    <3> QED BY <3>1, <3>2, <3>4, Zenon
  <2>3. DOMAIN q = 1..Len(q) /\ Len(p.printed) \in Nat
    BY <2>1, <2>2
  <2> QED BY <2>2, <2>3
<1>8. "input" \in {"start", "input", "recv", "exit", "quit", "sigpipe"}
  OBVIOUS
<1>9. d \in Processes
  BY <1>2, <1>5, <1>7, <1>8, Zenon DEF Processes
<1>10. /\ d.phase = "input" /\ d.sock = p.sock /\ d.outN = p.outN /\ d.line1 = p.line1
       /\ d.first = p.first /\ d.rlen = p.rlen /\ d.buffer = p.buffer /\ d.gotN = p.gotN
       /\ d.printed = q
  BY <1>2, <1>5, Zenon DEF Processes
<1>11. PICK e \in Nat : /\ e = Len(echoed[c]) /\ e <= sentN[c] /\ sentN[c] \in 0..MaxBytes
                        /\ link[c] # "closed" => e = 0
  BY AnswerOf
<1>12. PICK g \in 0..MaxBytes : g = p.gotN
  BY <1>5
<1>13. g <= e /\ g <= p.line1
  <2>1. p.gotN <= Len(echoed[c]) /\ sentN[c] <= p.line1
    BY <1>5, Zenon DEF Fits
  <2>2. PICK l \in 0..MaxBytes : l = p.line1
    BY <1>5
  <2> QED BY <1>11, <1>12, <2>1, <2>2
<1>14. p.rlen = ClientBufLen => ClientBufLen <= g
  <2>1. PICK n \in Nat : n = Len(p.buffer)
    BY <1>6
  <2>2. n <= g /\ p.rlen \in {n, n - 1}
    BY <1>6, <1>12, <2>1 DEF Got
  <2> QED BY <2>2
<1>15. /\ Closed(c)
       /\ FitsBuffer(c) => p.sock = "reported" \/ p.gotN = Len(echoed[c])
  <2>1. CASE EndOfStream(c)
    BY <1>5, <2>1 DEF EndOfStream, ClosedHard, Fits
  <2>2. CASE p.rlen = ClientBufLen
    <3>1. link[c] = "closed"
      BY <1>11, <1>13, <1>14, <2>2
    <3>2. FitsBuffer(c) => g = e
      BY <1>11, <1>13, <1>14, <2>2 DEF FitsBuffer
    <3> QED BY <1>11, <1>12, <3>1, <3>2 DEF Closed
  <2> QED BY <1>4, <2>1, <2>2 DEF Breaks
<1>16. Later(c, d)
  BY <1>10, <1>15 DEF Later
<1>17. p.sock = "reported" => ClosedHard(c)
  BY <1>5 DEF Fits
<1>18. Printed(c, d)
  <2> SUFFICES ASSUME NEW i \in DOMAIN q
               PROVE  IF i = 1 THEN /\ q[1] = Upto(Len(q[i])) /\ Len(q[i]) <= p.line1
                                    /\ FitsBuffer(c) /\ ~ClosedHard(c) =>
                                          Len(q[i]) = Len(echoed[c])
                               ELSE FitsBuffer(c) => Len(q[i]) = 0
    BY <1>10 DEF Printed
  <2>1. CASE p.printed = <<>>
    <3>1. i = 1 /\ q[1] = p.buffer
      BY <1>7, <2>1
    <3>2. p.buffer = Upto(g)
      BY <1>6, <1>12, <2>1 DEF First
    <3>3. Len(Upto(g)) = g
      BY UptoTyped
    <3>4. FitsBuffer(c) /\ ~ClosedHard(c) => g = Len(echoed[c])
      BY <1>12, <1>15, <1>17
    <3> QED BY <1>13, <3>1, <3>2, <3>3, <3>4
  <2>2. CASE p.printed # <<>> /\ i = Len(p.printed) + 1
    <3>1. i # 1 /\ q[i] = p.buffer
      BY <1>5, <1>7, <2>2
    <3>2. FitsBuffer(c) => p.buffer = <<>>
      BY <1>4, <1>6, <2>2 DEF Later
    <3>3. Len(<<>>) = 0
      OBVIOUS
    <3> QED BY <3>1, <3>2, <3>3
  <2>3. CASE p.printed # <<>> /\ i # Len(p.printed) + 1
    <3>1. PICK m \in Nat : m = Len(p.printed)
      BY <1>7
    <3>2. m # 0 /\ DOMAIN p.printed = 1..m
      BY <1>5, <2>3, <3>1
    <3>3. i \in 1..m /\ 1 \in 1..m
      <4>1. i \in 1..m + 1 /\ i # m + 1
        BY <1>7, <2>3, <3>1, Zenon
      <4>2. m \in Nat /\ m # 0
        BY <3>1, <3>2
      <4> QED BY <4>1, <4>2
    <3>4. /\ i \in DOMAIN p.printed /\ 1 \in DOMAIN p.printed
          /\ q[i] = p.printed[i] /\ q[1] = p.printed[1]
      BY <1>7, <3>1, <3>2, <3>3
    <3>5. Printed(c, p)
      BY <1>5 DEF Fits
    <3> QED BY <3>4, <3>5 DEF Printed
  <2> QED BY <2>1, <2>2, <2>3
<1>19. Got(d)
  BY <1>6, <1>10 DEF Got
<1>20. Fits(c, d)
  BY <1>5, <1>6, <1>7, <1>10, <1>16, <1>18, <1>19 DEF Fits
<1> QED BY <1>3, <1>9, <1>20, OwnStep
-----------------------------------------------------------------------------
(* The invariant and its consequences. *)

\* Nothing is connected, sent or printed when the programs start.
LEMMA InitFits == CInit => IInv /\ BInv /\ CInv
<1> SUFFICES ASSUME CInit PROVE IInv /\ BInv /\ CInv
  OBVIOUS
<1>1. IInv /\ BInv
  BY InitInvariant, InitBytes DEF CInit
<1>2. PICK p : p = [phase |-> "start", sock |-> "ok", first |-> "none", line1 |-> 0, outN |-> 0,
                    gotN |-> 0, buffer |-> Unwritten, rlen |-> 0, printed |-> <<>>]
  OBVIOUS
<1>3. proc = [c \in Clients |-> p]
  BY <1>2, Zenon DEF CInit
<1>4. /\ 0 \in 0..MaxBytes /\ 0 \in -1..ClientBufLen
      /\ Unwritten \in Seq(1..MaxBytes) \cup {Unwritten} /\ <<>> \in Seq(Seq(1..MaxBytes))
      /\ "none" \in {"none", "typed", "eof"}
      /\ "start" \in {"start", "input", "recv", "exit", "quit", "sigpipe"}
      /\ "ok" \in {"ok", "reset", "reported", "poked"}
  OBVIOUS
<1>5. p \in Processes
  BY <1>2, <1>4, Zenon DEF Processes
<1>6. /\ p.phase = "start" /\ p.sock = "ok" /\ p.first = "none" /\ p.line1 = 0 /\ p.outN = 0
      /\ p.gotN = 0 /\ p.buffer = Unwritten /\ p.rlen = 0 /\ p.printed = <<>>
  BY <1>2
<1>7. CTypeOK
  BY <1>3, <1>5 DEF CTypeOK
<1>8. ASSUME NEW c \in Clients PROVE Fits(c, proc[c])
  <2>1. proc[c] = p
    BY <1>3
  <2>2. sentN[c] = 0 /\ Len(echoed[c]) \in Nat
    BY <1>1, AnswerOf DEF CInit, Init, TcpInit
  <2>3. DOMAIN <<>> = {}
    OBVIOUS
  <2> QED BY <1>6, <2>1, <2>2, <2>3 DEF Fits, Unsent, Printed
<1> QED BY <1>1, <1>7, <1>8 DEF CInv

\* A step that changes no variable.
LEMMA CStutter ==
  ASSUME CInv, UNCHANGED allVars
  PROVE  CInv'
<1>1. UNCHANGED <<proc, link, peer, sentN, readN, echoed, server>>
  BY DEF allVars, vars, tcpVars
<1> QED BY <1>1 DEF CInv, CTypeOK, Fits, Printed, FitsBuffer, Unsent, Got, First, Later,
                    ClosedHard, Closed, Ended, Unread

\* Every step of the composition is one of the server's kernel or leaves it alone.
LEMMA InductiveFits == IInv /\ BInv /\ CInv /\ [CNext]_allVars => IInv' /\ BInv' /\ CInv'
<1> SUFFICES ASSUME IInv, BInv, CInv, [CNext]_allVars PROVE IInv' /\ BInv' /\ CInv'
  OBVIOUS
<1>1. CASE UNCHANGED allVars
  <2>1. UNCHANGED vars
    BY <1>1 DEF allVars
  <2> QED BY <1>1, <2>1, ServerKept, CStutter
<1>2. CASE (ServerStep /\ UNCHANGED proc) \/ ServerStops
  <2>1. UNCHANGED proc
    BY <1>2 DEF ServerStops
  <2>2. Next \/ ServerStops
    BY <1>2 DEF Next
  <2> QED BY <1>2, <2>1, <2>2, ServerKept, ServerSide
<1>3. ASSUME NEW c \in Clients, UserStep(c)
      PROVE  IInv' /\ BInv' /\ CInv'
  <2>1. CASE ConnectOk(c)
    <3>1. Next
      BY <2>1 DEF ConnectOk, Next, Environment
    <3> QED BY <2>1, <3>1, ServerKept, ConnectOkStep
  <2>2. CASE ConnectFails(c) \/ Interrupt(c) \/ ClientKilled(c)
    <3>1. /\ UNCHANGED vars
          /\ \E ph \in {"exit", "quit", "sigpipe"} : proc' = [proc EXCEPT ![c].phase = ph]
      BY <2>2 DEF ConnectFails, Interrupt, ClientKilled
    <3> QED BY <3>1, ServerKept, EndingStep
  <2>3. CASE SendOld(c) \/ \E n \in 0..MaxLine : SendLine(c, n)
    <3>1. UNCHANGED vars
      BY <2>3 DEF SendOld, SendLine, Send
    <3> QED BY <2>3, <3>1, ServerKept, SendSteps
  <2> QED BY <1>3, <2>1, <2>2, <2>3 DEF UserStep
<1>4. ASSUME NEW c \in Clients, ClientStep(c)
      PROVE  IInv' /\ BInv' /\ CInv'
  <2>1. UNCHANGED vars
    BY <1>4 DEF ClientStep, RecvData, RecvFails, RecvDone
  <2>2. CInv'
    BY <1>4, RecvDataStep, RecvFailsStep, RecvDoneStep DEF ClientStep
  <2> QED BY <2>1, <2>2, ServerKept
<1>5. ASSUME NEW c \in Clients, NetworkStep(c)
      PROVE  IInv' /\ BInv' /\ CInv'
  <2>1. Next \/ UNCHANGED vars
    BY <1>5 DEF NetworkStep, BytesArrive, Hangup, ResetArrives, Next, Environment
  <2>2. CInv'
    BY <1>5, BytesArriveStep, HangupStep, ResetArrivesStep DEF NetworkStep
  <2> QED BY <2>1, <2>2, ServerKept
<1> QED BY <1>1, <1>2, <1>3, <1>4, <1>5 DEF CNext

\* Whatever lines are typed and however the network and the server's thread interleave,
\* the invariants of the server hold in the composition, and each program fits its
\* connection.
THEOREM ClientInvariance == CSpec => [](IInv /\ BInv /\ CInv)
<1>1. CInit => IInv /\ BInv /\ CInv
  BY InitFits
<1>2. IInv /\ BInv /\ CInv /\ [CNext]_allVars => (IInv /\ BInv /\ CInv)'
  BY InductiveFits
<1> QED BY <1>1, <1>2, PTL DEF CSpec

\* The variables of main() of apps/client.cpp keep their types; rlen is -1 at the least.
THEOREM ClientTypes == CSpec => []CTypeOK
<1>1. CInv => CTypeOK
  BY DEF CInv
<1> QED BY <1>1, ClientInvariance, PTL

\* In the client of a user who types, the answer never fills the buffer of main(), which
\* printf therefore finds terminated.
THEOREM AnswerFitsBuffer == CSpec => []AnswerFits
<1>1. IInv /\ BInv /\ CInv => AnswerFits
  <2> SUFFICES ASSUME IInv, BInv, CInv, NEW c \in Clients, proc[c].first = "typed"
               PROVE  Len(proc[c].buffer) < ClientBufLen
    BY DEF AnswerFits
  <2>1. PICK l \in 0..MaxBytes : l = proc[c].line1
    BY ProcTyped
  <2>2. PICK g \in 0..MaxBytes : g = proc[c].gotN
    BY ProcTyped
  <2>3. Got(proc[c]) /\ l <= MaxLine
    BY <2>1, ProcTyped DEF Fits
  <2>4. PICK n \in Nat : n = Len(proc[c].buffer)
    BY <2>3 DEF Got
  <2>5. PICK e \in Nat : e = Len(echoed[c])
    BY AnswerOf
  <2>6. n <= g /\ g <= e /\ sentN[c] <= l
    BY <2>1, <2>2, <2>3, <2>4, <2>5, ProcTyped DEF Fits, Got
  <2>7. e <= sentN[c] /\ sentN[c] \in Nat
    BY <2>5, AnswerOf
  <2>8. n < ClientBufLen
    BY <2>3, <2>6, <2>7 DEF MaxLine
  <2> QED BY <2>4, <2>8
<1> QED BY <1>1, ClientInvariance, PTL

\* A client waits for the answer or the end of the stream between two lines, and the
\* server closes with the answer: nothing but what is sent first ever arrives.
THEOREM FirstLineOnly == CSpec => []OnlyFirstLineArrives
<1>1. CInv => OnlyFirstLineArrives
  BY DEF CInv, Fits, OnlyFirstLineArrives
<1> QED BY <1>1, ClientInvariance, PTL

\* What main() prints after the first line is that line's answer, its own first bytes, all
\* of them unless a reset cut them off or they fill the buffer; after any later line it
\* prints nothing but the rest of an answer that did not fit.
THEOREM PrintedOnce == CSpec => []AnswerPrintedOnce
<1>1. CInv => AnswerPrintedOnce
  BY DEF CInv, Fits, Printed, FitsBuffer, Upto, AnswerPrintedOnce
<1> QED BY <1>1, ClientInvariance, PTL

\* Client programs that type, go on, are killed or lose their server leave it the echo
\* service that it is to any client: the end of its process is the service going down.
THEOREM ClientsAreServed == CSpec => ImplementsEchoService
<1>1. \A c \in Clients : NulAt[c] = 0
  OBVIOUS
<1>2. CInit => Echo!EInit
  BY ServiceInit DEF CInit
<1>3. IInv /\ BInv /\ CInv /\ (IInv /\ BInv /\ CInv)' /\ [CNext]_allVars
        => [Echo!ENext]_(Echo!evars)
  <2> SUFFICES ASSUME IInv, BInv, IInv', BInv', [CNext]_allVars
               PROVE  [Echo!ENext]_(Echo!evars)
    OBVIOUS
  <2>1. Next \/ ServerStops \/ UNCHANGED vars
    <3>1. ASSUME NEW c \in Clients, UserStep(c)
          PROVE  Next \/ UNCHANGED vars
      BY <3>1 DEF UserStep, ConnectOk, ConnectFails, Interrupt, ClientKilled,
                  SendOld, SendLine, Send, Next, Environment
    <3>2. ASSUME NEW c \in Clients, ClientStep(c)
          PROVE  UNCHANGED vars
      BY <3>2 DEF ClientStep, RecvData, RecvFails, RecvDone
    <3>3. ASSUME NEW c \in Clients, NetworkStep(c)
          PROVE  Next \/ UNCHANGED vars
      BY <3>3 DEF NetworkStep, BytesArrive, Hangup, ResetArrives, Next, Environment
    <3> QED BY <3>1, <3>2, <3>3 DEF allVars, CNext, Next
  <2>2. CASE [Next]_vars
    BY <1>1, <2>2, ServiceStep
  <2>3. CASE ServerStops
    <3>1. Mode # "down" /\ Mode' = "down"
      BY <2>3, ModeIs DEF ServerStops, Mode
    <3>2. Echo!GoDown
      BY <2>3, <3>1 DEF ServerStops, tcpVars, Echo!GoDown, Mode
    <3> QED BY <3>2 DEF Echo!ENext
  <2> QED BY <2>1, <2>2, <2>3
<1> QED BY <1>2, <1>3, ClientInvariance, PTL DEF CSpec, ImplementsEchoService, Echo!ESpec
============================================================================
