------------------------ MODULE ReactorBytesProofs ------------------------
(***************************************************************************)
(* Proofs about what Reactor reads and writes, for any number of clients,  *)
(* bytes and orders of arrival: the length that a Connection keeps, what   *)
(* its buffer holds, what sendCallback makes of both, and when write() can *)
(* end the process.  They rest on the structure that ReactorProofs keeps.  *)
(***************************************************************************)
EXTENDS ReactorProofs

USE TcpAssumption, ReactorAssumption
USE DEF getFd, getInEpoll, getEvent, getREvent, getCurRlen, getCurWlen,
        BindRecvCallback, BindSendCallback

\* What has been read of a client has arrived; a reset is reported after the last byte;
\* nothing is read before accept().
Stream(c) == /\ readN[c] <= sentN[c]
             /\ peer[c] = "gone" => readN[c] = sentN[c]
             /\ link[c] \in {"idle", "queued"} => readN[c] = 0 /\ peer[c] # "gone"

\* What a client got back, once its connection is closed: EchoFaithful for this client.
Reply(c) ==
  IF link[c] = "closed"
  THEN /\ \A i \in DOMAIN echoed[c] : (\A j \in 1..i : j # NulAt[c]) => echoed[c][i] = i
       /\ Len(echoed[c]) <= readN[c]
       /\ peer[c] \in {"open", "fin"} => Len(echoed[c]) = readN[c]
  ELSE echoed[c] = <<>>

\* The length that the code keeps: the bytes read, less one for a reported reset.
LengthKept(c) == conn[c].rlen = readN[c] - (IF peer[c] = "gone" THEN 1 ELSE 0)

\* Its recvCallback is running, or has run.
Served(c) == cur = c \/ conn[c].event = {"OUT"}

\* Until its first recvCallback, nothing is read of an accepted client; from then on its
\* buffer holds the bytes that were read, each at its position, and zeros.
Buffer(c) ==
  IF Served(c)
  THEN \A i \in Slots : conn[c].rbuffer[i] = IF i < readN[c] THEN Byte(c, i + 1) ELSE NUL
  ELSE readN[c] = 0 /\ peer[c] # "gone"

ClientBytes(c) == /\ Stream(c) /\ Reply(c)
                  /\ c \in DOMAIN conn => LengthKept(c) /\ Buffer(c)

\* No object has a length or a byte out of range.
Ranges == \A o \in DOMAIN conn : /\ conn[o].rlen \in -1..BufLen
                                 /\ conn[o].rbuffer \in [Slots -> Garbage..MaxBytes]

\* The inductive invariant, on top of IInv.
BInv == /\ echoed \in [Clients -> Seq(Int)]
        /\ Ranges
        /\ \A c \in Clients : ClientBytes(c)
        /\ SigPipeNeedsReset
-----------------------------------------------------------------------------
(* Operators of the model. *)

\* strlen() of a buffer: the bytes before it are not '\0', and it is not past the end.
LEMMA StrLenBound ==
  ASSUME NEW b \in [Slots -> Int]
  PROVE  /\ StrLen(b) \in 0..BufLen
         /\ \A i \in Slots : (\A j \in 0..i : b[j] # NUL) => i < StrLen(b)
<1>1. CASE \E i \in Slots : b[i] = NUL
  <2> DEFINE Ends == {i \in Slots : b[i] = NUL}
  <2>1. Ends # {} /\ Ends \subseteq Nat
    BY <1>1 DEF Slots
  <2>2. PICK n \in Ends : \A m \in Ends : n <= m
    <3> HIDE DEF Ends
    <3> QED BY <2>1, Least
  <2>3. n \in Slots /\ b[n] = NUL /\ \A j \in 0..n - 1 : b[j] # NUL
    BY <2>2 DEF Slots
  <2>4. /\ StrLen(b) = CHOOSE i \in Slots : b[i] = NUL /\ \A j \in 0..i - 1 : b[j] # NUL
    BY <1>1 DEF StrLen
  <2>5. /\ StrLen(b) \in Slots /\ b[StrLen(b)] = NUL
        /\ \A j \in 0..StrLen(b) - 1 : b[j] # NUL
    BY <2>3, <2>4
  <2>6. StrLen(b) \in 0..BufLen
    BY <2>5 DEF Slots
  <2>7. ASSUME NEW i \in Slots, \A j \in 0..i : b[j] # NUL
        PROVE  i < StrLen(b)
    <3>1. StrLen(b) \notin 0..i
      BY <2>5, <2>7
    <3> QED BY <2>5, <3>1 DEF Slots
  <2> QED BY <2>6, <2>7
<1>2. CASE ~\E i \in Slots : b[i] = NUL
  <2>1. StrLen(b) = BufLen
    BY <1>2 DEF StrLen
  <2> QED BY <2>1 DEF Slots
<1> QED BY <1>1, <1>2

\* What recv() puts into the buffer of a Connection.
LEMMA FilledSlots ==
  ASSUME NEW c \in Clients, NEW b \in [Slots -> Garbage..MaxBytes],
         readN[c] \in Nat, NEW k \in Nat, readN[c] + k <= MaxBytes, Holds(b, c)
  PROVE  /\ Filled(b, readN[c], c, k) \in [Slots -> Garbage..MaxBytes]
         /\ \A i \in Slots : Filled(b, readN[c], c, k)[i]
                              = IF i < readN[c] + k THEN Byte(c, i + 1) ELSE NUL
<1> DEFINE d == Filled(b, readN[c], c, k)
<1>1. DOMAIN b = Slots /\ Slots \subseteq Nat
  BY DEF Slots
<1>2. /\ d = [i \in Slots |-> d[i]]
      /\ \A i \in Slots : d[i] = IF i < readN[c] + k THEN Byte(c, i + 1) ELSE NUL
  BY <1>1, FilledBytes
<1> HIDE DEF d
<1>3. ASSUME NEW i \in Slots
      PROVE  d[i] \in Garbage..MaxBytes
  <2>1. i < readN[c] + k => i + 1 \in 1..MaxBytes
    BY <1>1
  <2>2. i < readN[c] + k => Byte(c, i + 1) \in 0..MaxBytes
    BY <2>1, ByteRange
  <2> QED BY <1>2, <2>2 DEF Garbage, NUL
<1>4. d \in [Slots -> Garbage..MaxBytes]
  BY <1>2, <1>3
<1> QED BY <1>2, <1>4 DEF d

\* The parts of the state that matter for what is read of client c and written to it.
Untouched(c) ==
  /\ readN'[c] = readN[c] /\ echoed'[c] = echoed[c] /\ sentN[c] <= sentN'[c]
  /\ peer'[c] = "gone" <=> peer[c] = "gone"
  /\ peer[c] = "gone" => sentN'[c] = sentN[c]
  /\ link[c] = "closed" => peer'[c] = peer[c]
  /\ link'[c] = "closed" <=> link[c] = "closed"
  /\ link'[c] \in {"idle", "queued"} => link[c] \in {"idle", "queued"}
  /\ c \in DOMAIN conn' => /\ c \in DOMAIN conn
                           /\ conn'[c].event = conn[c].event
                           /\ conn'[c].rlen = conn[c].rlen /\ conn'[c].rbuffer = conn[c].rbuffer
                           /\ cur' = c <=> cur = c

\* A step that leaves them alone, or only lets more arrive, keeps what is known of c.
LEMMA UntouchedKept ==
  ASSUME IInv, IInv', NEW c \in Clients, ClientBytes(c), Untouched(c)
  PROVE  ClientBytes(c)'
<1>1. /\ readN[c] \in Nat /\ sentN[c] \in Nat /\ sentN'[c] \in Nat /\ readN'[c] \in Nat
  BY DEF IInv, Types, Streams
<1>2. Stream(c)'
  BY <1>1 DEF ClientBytes, Untouched, Stream
<1>3. Reply(c)'
  <2>1. CASE link[c] = "closed"
    BY <2>1 DEF ClientBytes, Untouched, Reply
  <2>2. CASE link[c] # "closed"
    BY <2>2 DEF ClientBytes, Untouched, Reply
  <2> QED BY <2>1, <2>2
<1>4. ASSUME c \in DOMAIN conn'
      PROVE  LengthKept(c)' /\ Buffer(c)'
  <2>1. LengthKept(c) /\ Buffer(c) /\ c \in DOMAIN conn
    BY <1>4 DEF ClientBytes, Untouched
  <2>2. LengthKept(c)'
    BY <1>4, <2>1 DEF Untouched, LengthKept
  <2>3. /\ conn'[c].event = conn[c].event /\ conn'[c].rbuffer = conn[c].rbuffer
        /\ cur' = c <=> cur = c
        /\ readN'[c] = readN[c] /\ (peer'[c] = "gone" <=> peer[c] = "gone")
    BY <1>4 DEF Untouched
  <2>4. CASE Served(c)
    <3>1. \A i \in Slots : conn[c].rbuffer[i] = IF i < readN[c] THEN Byte(c, i + 1) ELSE NUL
      BY <2>1, <2>4 DEF Buffer
    <3>2. Served(c)'
      BY <2>3, <2>4, Zenon DEF Served
    <3> QED BY <2>2, <2>3, <3>1, <3>2 DEF Buffer
  <2>5. CASE ~Served(c)
    <3>1. readN[c] = 0 /\ peer[c] # "gone"
      BY <2>1, <2>5 DEF Buffer
    <3>2. ~Served(c)'
      BY <2>3, <2>5, Zenon DEF Served
    <3> QED BY <2>2, <2>3, <3>1, <3>2 DEF Buffer
  <2> QED BY <2>2, <2>4, <2>5
<1> QED BY <1>2, <1>3, <1>4 DEF ClientBytes
-----------------------------------------------------------------------------
(* Steps that read nothing and write nothing. *)

\* A step that leaves the bytes of every client alone, such as epoll_wait or connect().
LEMMA QuietStep ==
  ASSUME IInv, IInv', BInv, \A c \in Clients : Untouched(c), echoed' = echoed, Ranges',
         server' = "sigpipe" => server = "sigpipe" /\ UNCHANGED <<peer, readN>>
  PROVE  BInv'
<1>1. \A c \in Clients : ClientBytes(c)'
  BY UntouchedKept DEF BInv
<1>2. SigPipeNeedsReset'
  BY DEF BInv, SigPipeNeedsReset
<1> QED BY <1>1, <1>2 DEF BInv

\* Most of them do not touch the objects of clients either.
LEMMA SameClientObjects ==
  ASSUME IInv, NEW c \in Clients, UNCHANGED <<link, sentN, readN, peer, echoed, cur>>,
         c \in DOMAIN conn' => /\ c \in DOMAIN conn
                               /\ conn'[c].event = conn[c].event
                               /\ conn'[c].rlen = conn[c].rlen
                               /\ conn'[c].rbuffer = conn[c].rbuffer
  PROVE  Untouched(c)
<1>1. sentN[c] \in Nat
  BY DEF IInv, Types, Streams
<1> QED BY <1>1 DEF Untouched

\* Nothing of the clients and the objects changes: BootFailure, LoopCheck, no step at all.
LEMMA StillStep ==
  ASSUME IInv, IInv', BInv, UNCHANGED <<tcpVars, conn, cur>>,
         server' = "sigpipe" => server = "sigpipe"
  PROVE  BInv'
<1>1. \A c \in Clients : Untouched(c)
  BY SameClientObjects DEF tcpVars
<1>2. Ranges' /\ echoed' = echoed /\ UNCHANGED <<peer, readN>>
  BY DEF BInv, Ranges, tcpVars
<1> QED BY <1>1, <1>2, QuietStep

\* The constructor of Connection leaves both buffers and the length in range.
LEMMA BlankInRange ==
  Blank \in [Slots -> Garbage..MaxBytes] /\ 0 \in -1..BufLen
BY DEF Blank, Garbage

\* BootListen: only the listening socket gets an object.
LEMMA BootListenQuiet ==
  ASSUME IInv, IInv', BInv, BootListen
  PROVE  BInv'
<1> DEFINE s == NewObject(ListenFd, ServerAddress)
<1>1. /\ server = "boot" /\ server' = "listening" /\ Store(Listener, s)
      /\ UNCHANGED <<link, backlog, sentN, readN, peer, echoed, cur>>
  BY DEF BootListen, tcpVars
<1>2. s.rlen = 0 /\ s.rbuffer = Blank
  BY NewObjectFields
<1> HIDE DEF s
<1>3. DOMAIN conn' = {Listener} /\ conn'[Listener] = s
  BY <1>1, NothingRegistered, Storing
<1>4. \A c \in Clients : Untouched(c)
  BY <1>1, <1>3, SameClientObjects
<1>5. Ranges'
  BY <1>2, <1>3, BlankInRange DEF Ranges
<1> QED BY <1>1, <1>4, <1>5, QuietStep

\* BootRegister: registering the listening socket touches no client.
LEMMA BootRegisterQuiet ==
  ASSUME IInv, IInv', BInv, BootRegister
  PROVE  BInv'
<1> DEFINE s0 == setEvent(conn[Listener], {"IN", "ET"})
           s1 == setNonBlocking(s0)
           s  == setRecvCallback(s1, "acceptCallback")
<1>1. /\ server = "listening" /\ server' = "up"
      /\ UpdateConnection(Listener, s, backlog # <<>>)
      /\ UNCHANGED <<link, backlog, sentN, readN, peer, echoed, cur>>
  BY DEF BootRegister, tcpVars
<1>2. Types /\ Listener \in Objs
  BY DEF IInv, Objs
<1>3. DOMAIN conn = {Listener} /\ conn[Listener] \in Objects
  <2>1. DOMAIN conn = {Listener}
    BY <1>1 DEF IInv, BootPhase
  <2> QED BY <1>2, <2>1 DEF Types, Streams
<1>4. s \in Objects /\ s.rlen = conn[Listener].rlen /\ s.rbuffer = conn[Listener].rbuffer
  <2>1. {"IN", "ET"} \in Masks
    BY DEF Masks
  <2>2. /\ s0 \in Objects
        /\ s0.rlen = conn[Listener].rlen /\ s0.rbuffer = conn[Listener].rbuffer
    BY <1>3, <2>1, SetEventFields
  <2> HIDE DEF s0
  <2>3. /\ s1 \in Objects
        /\ s1.rlen = conn[Listener].rlen /\ s1.rbuffer = conn[Listener].rbuffer
    BY <2>2, SetNonBlockingFields
  <2> HIDE DEF s1
  <2> QED BY <2>3, SetRecvCallbackFields
<1> HIDE DEF s
<1>5. /\ DOMAIN conn' = {Listener}
      /\ conn'[Listener].rlen = s.rlen /\ conn'[Listener].rbuffer = s.rbuffer
  <2>1. /\ DOMAIN conn' = DOMAIN conn \cup {Listener}
        /\ conn'[Listener].rlen = s.rlen /\ conn'[Listener].rbuffer = s.rbuffer
    BY <1>1, <1>2, <1>4, Updating
  <2> QED BY <1>3, <2>1
<1>6. \A c \in Clients : Untouched(c)
  BY <1>1, <1>5, SameClientObjects
<1>7. Ranges'
  <2>1. /\ conn[Listener].rlen \in -1..BufLen
        /\ conn[Listener].rbuffer \in [Slots -> Garbage..MaxBytes]
    BY <1>3 DEF BInv, Ranges
  <2> QED BY <1>4, <1>5, <2>1 DEF Ranges
<1> QED BY <1>1, <1>6, <1>7, QuietStep

\* Poll: only the events returned are stored.
LEMMA PollQuiet ==
  ASSUME IInv, IInv', BInv, NEW S \in SUBSET ready, Poll(S)
  PROVE  BInv'
<1>1. /\ server = "up"
      /\ UNCHANGED <<link, backlog, sentN, readN, peer, echoed, server, cur>>
      /\ DOMAIN conn' = DOMAIN conn
      /\ \A o \in DOMAIN conn :
           conn'[o] = IF \E f \in S : connMap[f] = o
                      THEN setREvent(conn[o],
                                 Events(CHOOSE f \in S : connMap[f] = o, Input, Failed))
                      ELSE conn[o]
  BY DEF Poll, Wait, Deliver, tcpVars
<1>2. \A f : Events(f, Input, Failed) \subseteq {"IN", "OUT", "ERR"}
  BY DEF Events
<1>3. \A o \in DOMAIN conn : conn[o] \in Objects
  BY DEF IInv, Types, Streams
<1>4. \A o \in DOMAIN conn : /\ conn'[o].event = conn[o].event
                             /\ conn'[o].rlen = conn[o].rlen /\ conn'[o].rbuffer = conn[o].rbuffer
  <2> SUFFICES ASSUME NEW o \in DOMAIN conn
               PROVE  /\ conn'[o].event = conn[o].event
                      /\ conn'[o].rlen = conn[o].rlen /\ conn'[o].rbuffer = conn[o].rbuffer
    OBVIOUS
  <2>1. CASE \E f \in S : connMap[f] = o
    BY <1>1, <1>2, <1>3, <2>1, SetREventFields
  <2>2. CASE ~\E f \in S : connMap[f] = o
    BY <1>1, <2>2
  <2> QED BY <2>1, <2>2
<1>5. \A c \in Clients : Untouched(c)
  BY <1>1, <1>4, SameClientObjects
<1>6. Ranges'
  BY <1>1, <1>4 DEF BInv, Ranges
<1> QED BY <1>1, <1>5, <1>6, QuietStep

\* Connect: a client that enters the accept queue has no object and has sent nothing.
LEMMA ConnectQuiet ==
  ASSUME IInv, IInv', BInv, NEW c \in Clients, Connect(c)
  PROVE  BInv'
<1>1. /\ link[c] = "idle" /\ link' = [link EXCEPT ![c] = "queued"]
      /\ server \in {"listening", "up"}
      /\ UNCHANGED <<sentN, readN, peer, echoed, conn, server, cur>>
  BY DEF Connect, TcpConnect
<1>2. \A x \in Clients : Untouched(x)
  <2> SUFFICES ASSUME NEW x \in Clients PROVE Untouched(x)
    OBVIOUS
  <2>1. sentN[x] \in Nat /\ link'[x] = IF x = c THEN "queued" ELSE link[x]
    BY <1>1 DEF IInv, Types, Streams
  <2> QED BY <1>1, <2>1 DEF Untouched
<1>3. Ranges'
  BY <1>1 DEF BInv, Ranges
<1> QED BY <1>1, <1>2, <1>3, QuietStep

\* Arrival: what a client sends waits in the kernel, its object unchanged.
LEMMA ArrivalQuiet ==
  ASSUME IInv, IInv', BInv, NEW c \in Clients, Arrival(c)
  PROVE  BInv'
<1>1. /\ server \in {"listening", "up"}
      /\ UNCHANGED <<link, readN, echoed, conn, server, cur>>
      /\ link[c] \in {"queued", "accepted"} /\ peer[c] \in {"open", "fin"}
      /\ TcpByte(c) \/ TcpFin(c) \/ TcpReset(c)
  BY DEF Arrival, TcpArrival, TcpByte, TcpFin, TcpReset, Connected
<1>2. /\ sentN \in [Clients -> 0..MaxBytes]
      /\ peer \in [Clients -> {"open", "fin", "rst", "gone", "cut"}]
  BY DEF IInv, Types, Streams
<1>3. \A x \in Clients : Untouched(x)
  <2> SUFFICES ASSUME NEW x \in Clients PROVE Untouched(x)
    OBVIOUS
  <2>1. /\ sentN[x] <= sentN'[x] /\ (x # c => sentN'[x] = sentN[x])
        /\ (x # c => peer'[x] = peer[x]) /\ peer'[c] # "gone"
    <3>1. CASE TcpByte(c)
      BY <1>1, <1>2, <3>1 DEF TcpByte
    <3>2. CASE TcpFin(c)
      BY <1>2, <3>2 DEF TcpFin
    <3>3. CASE TcpReset(c)
      BY <1>2, <3>3 DEF TcpReset
    <3> QED BY <1>1, <3>1, <3>2, <3>3
  <2> QED BY <1>1, <2>1 DEF Untouched
<1>4. Ranges'
  BY <1>1 DEF BInv, Ranges
<1> QED BY <1>1, <1>3, <1>4, QuietStep

\* What acceptCallback makes of a failed accept() is an object like any other.
LEMMA FailedObject ==
  LET n == setSendCallback(setRecvCallback(
             setEvent(setNonBlocking(NewObject(NoFd, InetAddress)), {"IN", "ET"}),
             "recvCallback"), "sendCallback")
  IN  n \in Objects /\ n.rlen = 0 /\ n.rbuffer = Blank
<1> DEFINE d == setSendCallback(setRecvCallback(
                  setEvent(setNonBlocking(NewObject(NoFd, InetAddress)), {"IN", "ET"}),
                  "recvCallback"), "sendCallback")
<1>1. NoFd \in Fds \cup {NoFd} /\ InetAddress \in Clients \cup {InetAddress}
  OBVIOUS
<1>2. /\ d \in Objects
      /\ d.fd = NoFd /\ ~d.inEpoll /\ d.nonblocking = (NoFd # NoFd)
      /\ d.event = {"IN", "ET"} /\ d.revent = {}
      /\ d.rlen = 0 /\ d.rbuffer = Blank
      /\ d.recvCallback = "recvCallback" /\ d.sendCallback = "sendCallback"
  BY <1>1, NewConnectionFields, Zenon
<1> HIDE DEF d
<1>3. d \in Objects /\ d.rlen = 0 /\ d.rbuffer = Blank
  BY <1>2
<1> QED BY <1>3 DEF d

\* AcceptFails: the object of a failed accept() is no client's.
LEMMA AcceptFailsQuiet ==
  ASSUME IInv, IInv', BInv, AcceptFails
  PROVE  BInv'
<1> DEFINE left == Failures \ DOMAIN conn
           z == CHOOSE z \in left : \A y \in left : z <= y
           d == setSendCallback(setRecvCallback(
                  setEvent(setNonBlocking(NewObject(NoFd, InetAddress)), {"IN", "ET"}),
                  "recvCallback"), "sendCallback")
<1>1. /\ Turn(Listener, "acceptCallback")
      /\ UpdateConnection(z, d, FALSE)
      /\ UNCHANGED <<link, backlog, sentN, readN, peer, echoed, server, cur>>
  BY DEF AcceptFails, NewConnection, tcpVars
<1>2. server = "up" /\ Listener \in batch /\ Types
  BY <1>1, TurnTaken DEF Objs, IInv
<1>3. z \in Failures /\ z \notin DOMAIN conn /\ z \in Objs /\ z \notin Clients
  BY <1>2, FailureLeft DEF Objs
<1> HIDE DEF z
<1>4. d \in Objects /\ d.rlen = 0 /\ d.rbuffer = Blank
  BY FailedObject, Zenon
<1> HIDE DEF d
<1>5. /\ DOMAIN conn' = DOMAIN conn \cup {z}
      /\ conn'[z].rlen = 0 /\ conn'[z].rbuffer = Blank
      /\ \A x \in DOMAIN conn : conn'[x] = conn[x]
  <2>1. /\ DOMAIN conn' = DOMAIN conn \cup {z}
        /\ conn'[z].rlen = d.rlen /\ conn'[z].rbuffer = d.rbuffer
        /\ \A x \in DOMAIN conn : x # z => conn'[x] = conn[x]
    BY <1>1, <1>2, <1>3, <1>4, Updating, Zenon
  <2> QED BY <1>3, <1>4, <2>1
<1>6. \A c \in Clients : Untouched(c)
  BY <1>1, <1>3, <1>5, SameClientObjects
<1>7. Ranges'
  BY <1>5, BlankInRange DEF BInv, Ranges
<1> QED BY <1>1, <1>2, <1>6, <1>7, QuietStep
-----------------------------------------------------------------------------
(* Steps of one client's Connection. *)

\* A step of one client's callback leaves the bytes of the others alone.
LEMMA OneClientStep ==
  ASSUME IInv, IInv', BInv, NEW c \in Clients,
         \A x \in Clients : x # c => Untouched(x),
         ClientBytes(c)', echoed' \in [Clients -> Seq(Int)], Ranges', server' # "sigpipe"
  PROVE  BInv'
<1>1. \A x \in Clients : ClientBytes(x)'
  BY UntouchedKept DEF BInv
<1>2. SigPipeNeedsReset'
  BY DEF SigPipeNeedsReset
<1> QED BY <1>1, <1>2 DEF BInv

\* AcceptClient: a new Connection is empty, and nothing has been read of the client.
LEMMA AcceptClientBytes ==
  ASSUME IInv, IInv', BInv, NEW c \in Clients, AcceptClient(c)
  PROVE  BInv'
<1> DEFINE d == setSendCallback(setRecvCallback(
                  setEvent(setNonBlocking(NewObject(LowestFd, c)), {"IN", "ET"}),
                  "recvCallback"), "sendCallback")
<1>1. /\ Turn(Listener, "acceptCallback") /\ FreeFds # {}
      /\ backlog # <<>> /\ c = Head(backlog)
      /\ link' = [link EXCEPT ![c] = "accepted"]
      /\ UpdateConnection(c, d, HasInput(c))
      /\ UNCHANGED <<sentN, readN, peer, echoed, server, cur>>
  BY DEF AcceptClient, TcpAccept, NewConnection
<1>2. server = "up" /\ cur = Null /\ Types
  BY <1>1, TurnTaken DEF Objs, IInv
<1>3. LowestFd \in Fds
  BY <1>1, LowestFree DEF FreeFds, ClientFds
<1>4. d \in Objects /\ d.event = {"IN", "ET"} /\ d.rlen = 0 /\ d.rbuffer = Blank
  BY <1>3, NewConnectionFields
<1> HIDE DEF d
<1>5. link[c] = "queued" /\ c \notin DOMAIN conn /\ c \in Objs
  <2>1. backlog \in Seq(Clients)
    BY <1>2 DEF Types, Streams
  <2>2. Len(backlog) >= 1 /\ c = backlog[1]
    BY <1>1, <2>1
  <2>3. link[c] = "queued"
    BY <2>1, <2>2 DEF IInv, Queue
  <2> QED BY <2>3 DEF IInv, ClientObjects, Objs
<1>6. /\ DOMAIN conn' = DOMAIN conn \cup {c}
      /\ conn'[c].event = {"IN", "ET"} /\ conn'[c].rlen = 0 /\ conn'[c].rbuffer = Blank
      /\ \A x \in DOMAIN conn : conn'[x] = conn[x]
  <2>1. /\ DOMAIN conn' = DOMAIN conn \cup {c}
        /\ SameShape(setInEpoll(d), conn'[c])
        /\ conn'[c].rlen = 0 /\ conn'[c].rbuffer = Blank
        /\ \A x \in DOMAIN conn : x # c => conn'[x] = conn[x]
    BY <1>1, <1>2, <1>4, <1>5, Updating
  <2>2. conn'[c].event = {"IN", "ET"}
    BY <1>4, <2>1, SetInEpollFields DEF SameShape
  <2> QED BY <1>5, <2>1, <2>2
<1>7. \A x \in Clients : link'[x] = IF x = c THEN "accepted" ELSE link[x]
  BY <1>1, <1>2 DEF Types, Streams
<1>8. ASSUME NEW x \in Clients, x # c
      PROVE  Untouched(x)
  <2>1. sentN[x] \in Nat
    BY <1>2 DEF Types, Streams
  <2> QED BY <1>1, <1>6, <1>7, <1>8, <2>1 DEF Untouched
<1>9. ClientBytes(c)'
  <2>1. readN[c] = 0 /\ peer[c] # "gone" /\ echoed[c] = <<>> /\ readN[c] <= sentN[c]
    BY <1>5 DEF BInv, ClientBytes, Stream, Reply
  <2>2. Stream(c)' /\ Reply(c)'
    BY <1>1, <1>7, <2>1 DEF Stream, Reply
  <2>3. LengthKept(c)'
    <3>1. conn'[c].rlen = 0 /\ readN'[c] = 0 /\ peer'[c] # "gone"
      BY <1>1, <1>6, <2>1
    <3>2. (IF peer'[c] = "gone" THEN 1 ELSE 0) = 0
      BY <3>1, Zenon
    <3>3. 0 - 0 = 0
      OBVIOUS
    <3> QED BY <3>1, <3>2, <3>3, Zenon DEF LengthKept
  <2>4. ~Served(c)'
    BY <1>1, <1>2, <1>6 DEF Served, Objs
  <2>5. Buffer(c)'
    BY <1>1, <2>1, <2>4 DEF Buffer
  <2> QED BY <2>2, <2>3, <2>5 DEF ClientBytes
<1>10. Ranges'
  BY <1>6, BlankInRange DEF BInv, Ranges
<1> QED BY <1>1, <1>2, <1>8, <1>9, <1>10, OneClientStep DEF BInv

\* Writing to a Connection that exists replaces that object alone.
LEMMA StoringAgain ==
  ASSUME NEW c \in DOMAIN conn, NEW d, Store(c, d)
  PROVE  /\ DOMAIN conn' = DOMAIN conn
         /\ conn'[c] = d
         /\ \A x \in DOMAIN conn : x # c => conn'[x] = conn[x]
<1>1. /\ DOMAIN conn' = DOMAIN conn \cup {c}
      /\ conn'[c] = d
      /\ \A x \in DOMAIN conn : x # c => conn'[x] = conn[x]
  BY Storing
<1> QED BY <1>1

\* recvCallback of one client leaves the others alone.
LEMMA OthersUntouched ==
  ASSUME IInv, NEW c \in Clients, c \in DOMAIN conn, NEW d, Store(c, d),
         UNCHANGED <<link, sentN, echoed>>,
         \A x \in Clients : x # c => /\ readN'[x] = readN[x] /\ peer'[x] = peer[x]
                                     /\ cur' = x <=> cur = x
  PROVE  \A x \in Clients : x # c => Untouched(x)
<1> SUFFICES ASSUME NEW x \in Clients, x # c
             PROVE  Untouched(x)
  OBVIOUS
<1>1. sentN[x] \in Nat
  BY DEF IInv, Types, Streams
<1>2. x \in DOMAIN conn' => x \in DOMAIN conn /\ conn'[x] = conn[x]
  BY StoringAgain
<1> QED BY <1>1, <1>2 DEF Untouched

\* RecvBegin: nothing has been read yet, and the buffer is cleared.
LEMMA RecvBeginBytes ==
  ASSUME IInv, IInv', BInv, NEW c \in Clients, RecvBegin(c)
  PROVE  BInv'
<1> DEFINE d == rBufferClear(conn[c])
<1>1. /\ Turn(c, "recvCallback") /\ cur' = c /\ Store(c, d)
      /\ UNCHANGED <<link, backlog, sentN, readN, peer, echoed, server>>
  BY DEF RecvBegin, tcpVars
<1>2. server = "up" /\ cur = Null /\ c \in DOMAIN conn /\ conn[c].event = {"IN", "ET"}
  BY <1>1, TurnTaken DEF Objs
<1>3. conn[c] \in Objects
  BY <1>2 DEF IInv, Types, Streams
<1>4. d.rlen = conn[c].rlen /\ d.rbuffer = Zeroed
  BY <1>3, RBufferClearFields
<1> HIDE DEF d
<1>5. /\ DOMAIN conn' = DOMAIN conn
      /\ conn'[c].rlen = conn[c].rlen /\ conn'[c].rbuffer = Zeroed
      /\ \A x \in DOMAIN conn : x # c => conn'[x] = conn[x]
  BY <1>1, <1>2, <1>4, StoringAgain
<1>6. \A x \in Clients : x # c => Untouched(x)
  <2>1. \A x \in Clients : x # Null
    BY DEF Objs
  <2> QED BY <1>1, <1>2, <2>1, OthersUntouched
<1>7. ClientBytes(c)'
  <2>1. Stream(c) /\ Reply(c) /\ LengthKept(c) /\ Buffer(c)
    BY <1>2 DEF BInv, ClientBytes
  <2>2. Stream(c)' /\ Reply(c)' /\ LengthKept(c)'
    <3>1. Reply(c)'
      BY <1>1, <2>1 DEF Reply
    <3> QED BY <1>1, <1>5, <2>1, <3>1 DEF Stream, LengthKept
  <2>3. ~Served(c)
    BY <1>2 DEF Served, Objs
  <2>4. readN[c] = 0
    BY <2>1, <2>3 DEF Buffer
  <2>5. Served(c)'
    BY <1>1 DEF Served
  <2>6. \A i \in Slots : ~(i < readN'[c]) /\ conn'[c].rbuffer[i] = NUL
    BY <1>1, <1>5, <2>4 DEF Slots, Zeroed, NUL
  <2>7. Buffer(c)'
    BY <2>5, <2>6 DEF Buffer
  <2> QED BY <2>2, <2>7 DEF ClientBytes
<1>8. Ranges'
  <2>1. Zeroed \in [Slots -> Garbage..MaxBytes]
    BY DEF Zeroed, Garbage
  <2> QED BY <1>2, <1>5, <2>1 DEF BInv, Ranges
<1> QED BY <1>1, <1>2, <1>6, <1>7, <1>8, OneClientStep DEF BInv

\* RecvSome: recv() appends at the length kept so far, which is the number of bytes read,
\* and has been given no more room than there is.
LEMMA RecvSomeBytes ==
  ASSUME IInv, IInv', BInv, NEW c \in Clients, RecvSome(c)
  PROVE  BInv'
<1> DEFINE k == RecvCount(c, Room(c))
           b == Filled(conn[c].rbuffer, Offset(c), c, k)
           d0 == setRBuffer(conn[c], b)
           n == NewLen(c, k)
           d == setRLen(d0, n)
<1>1. /\ server = "up" /\ cur = c /\ k > 0 /\ Store(c, d)
      /\ readN' = [readN EXCEPT ![c] = @ + k]
      /\ UNCHANGED <<link, backlog, sentN, peer, echoed, server, cur>>
  BY DEF RecvSome, TcpRecv
<1>2. c \in DOMAIN conn /\ conn[c] \in Objects /\ link[c] = "accepted"
  BY <1>1, Reading
<1>3. /\ conn[c].rlen \in -1..BufLen /\ conn[c].rbuffer \in [Slots -> Garbage..MaxBytes]
      /\ Stream(c) /\ Reply(c) /\ LengthKept(c) /\ Buffer(c)
  BY <1>2 DEF BInv, Ranges, ClientBytes
<1>4. /\ readN \in [Clients -> 0..MaxBytes] /\ readN[c] \in 0..MaxBytes /\ sentN[c] \in 0..MaxBytes
  BY DEF IInv, Types, Streams
<1>5. k \in Nat /\ k <= Unread(c) /\ k <= BufLen - conn[c].rlen
  <2>1. Room(c) \in Int /\ Room(c) = BufLen - conn[c].rlen
    BY <1>3 DEF Room
  <2>2. k \in Int /\ k <= Unread(c) /\ k <= Room(c)
    BY <1>4, <2>1, RecvCountBound
  <2> HIDE DEF k
  <2> QED BY <1>1, <2>1, <2>2
<1> HIDE DEF k
<1>6. readN[c] + k <= sentN[c] /\ peer[c] # "gone" /\ conn[c].rlen = readN[c]
  BY <1>1, <1>3, <1>4, <1>5 DEF Unread, Stream, LengthKept
<1>7. /\ b \in [Slots -> Garbage..MaxBytes]
      /\ \A i \in Slots : b[i] = IF i < readN[c] + k THEN Byte(c, i + 1) ELSE NUL
  <2>1. Holds(conn[c].rbuffer, c)
    BY <1>1, <1>3 DEF Buffer, Served, Holds
  <2>2. readN[c] \in Nat /\ readN[c] + k <= MaxBytes
    BY <1>4, <1>5, <1>6
  <2>3. b = Filled(conn[c].rbuffer, readN[c], c, k)
    BY <1>6 DEF Offset
  <2>4. conn[c].rbuffer \in [Slots -> Garbage..MaxBytes] /\ k \in Nat
    BY <1>3, <1>5
  <2>5. /\ Filled(conn[c].rbuffer, readN[c], c, k) \in [Slots -> Garbage..MaxBytes]
        /\ \A i \in Slots : Filled(conn[c].rbuffer, readN[c], c, k)[i]
                             = IF i < readN[c] + k THEN Byte(c, i + 1) ELSE NUL
    <3> HIDE DEF b
    <3> QED BY <2>1, <2>2, <2>4, FilledSlots
  <2> HIDE DEF b
  <2> QED BY <2>3, <2>5
<1>8. n = readN[c] + k /\ n \in -1..BufLen /\ n \in Int
  BY <1>3, <1>4, <1>5, <1>6 DEF NewLen
<1>9. b \in [Slots -> Int]
  <2> HIDE DEF b
  <2>1. Garbage..MaxBytes \subseteq Int
    OBVIOUS
  <2> QED BY <1>7, <2>1
<1> HIDE DEF b, n
<1>10. d0 \in Objects /\ SameShape(conn[c], d0) /\ d0.rbuffer = b
  BY <1>2, <1>9, SetRBufferFields
<1> HIDE DEF d0
<1>11. d.rbuffer = b /\ d.rlen = n
  BY <1>8, <1>10, SetRLenFields
<1> HIDE DEF d
<1>12. /\ DOMAIN conn' = DOMAIN conn
       /\ conn'[c].rlen = n /\ conn'[c].rbuffer = b
       /\ \A x \in DOMAIN conn : x # c => conn'[x] = conn[x]
  BY <1>1, <1>2, <1>11, StoringAgain
<1>13. readN'[c] = readN[c] + k /\ \A x \in Clients : x # c => readN'[x] = readN[x]
  BY <1>1, <1>4
<1>14. \A x \in Clients : x # c => Untouched(x)
  BY <1>1, <1>2, <1>13, OthersUntouched
<1>15. ClientBytes(c)'
  <2>1. Stream(c)'
    BY <1>1, <1>2, <1>6, <1>13 DEF Stream
  <2>2. Reply(c)'
    BY <1>1, <1>2, <1>3 DEF Reply
  <2>3. LengthKept(c)'
    BY <1>1, <1>4, <1>5, <1>6, <1>8, <1>12, <1>13 DEF LengthKept
  <2>4. Served(c)'
    BY <1>1 DEF Served
  <2>5. Buffer(c)'
    BY <1>7, <1>12, <1>13, <2>4 DEF Buffer
  <2> QED BY <2>1, <2>2, <2>3, <2>5 DEF ClientBytes
<1>16. Ranges'
  BY <1>7, <1>8, <1>12 DEF BInv, Ranges
<1> QED BY <1>1, <1>14, <1>15, <1>16, OneClientStep DEF BInv

\* RecvError: the error of a reset takes one off the length, once.
LEMMA RecvErrorBytes ==
  ASSUME IInv, IInv', BInv, NEW c \in Clients, RecvError(c)
  PROVE  BInv'
<1> DEFINE n == NewLen(c, -1)
           d == setRLen(conn[c], n)
<1>1. /\ server = "up" /\ cur = c /\ Store(c, d)
      /\ Unread(c) = 0 /\ peer[c] = "rst"
      /\ peer' = [peer EXCEPT ![c] = "gone"]
      /\ UNCHANGED <<link, backlog, sentN, readN, echoed, server, cur>>
  BY DEF RecvError, ResetPending, TcpReportReset
<1>2. c \in DOMAIN conn /\ conn[c] \in Objects /\ link[c] = "accepted"
  BY <1>1, Reading
<1>3. /\ conn[c].rlen \in -1..BufLen /\ conn[c].rbuffer \in [Slots -> Garbage..MaxBytes]
      /\ Stream(c) /\ Reply(c) /\ LengthKept(c) /\ Buffer(c)
  BY <1>2 DEF BInv, Ranges, ClientBytes
<1>4. /\ readN[c] \in Nat /\ sentN[c] \in Nat
      /\ peer \in [Clients -> {"open", "fin", "rst", "gone", "cut"}]
  BY DEF IInv, Types, Streams
<1>5. conn[c].rlen = readN[c] /\ n = readN[c] - 1 /\ n \in -1..BufLen /\ n \in Int
  BY <1>1, <1>3, <1>4 DEF LengthKept, NewLen
<1> HIDE DEF n
<1>6. d.rlen = n /\ d.rbuffer = conn[c].rbuffer
  BY <1>2, <1>5, SetRLenFields
<1> HIDE DEF d
<1>7. /\ DOMAIN conn' = DOMAIN conn
      /\ conn'[c].rlen = n /\ conn'[c].rbuffer = conn[c].rbuffer
      /\ \A x \in DOMAIN conn : x # c => conn'[x] = conn[x]
  BY <1>1, <1>2, <1>6, StoringAgain
<1>8. peer'[c] = "gone" /\ \A x \in Clients : x # c => peer'[x] = peer[x]
  BY <1>1, <1>4
<1>9. \A x \in Clients : x # c => Untouched(x)
  BY <1>1, <1>2, <1>8, OthersUntouched
<1>10. ClientBytes(c)'
  <2>1. Stream(c)'
    BY <1>1, <1>2, <1>4, <1>8 DEF Stream, Unread
  <2>2. Reply(c)'
    BY <1>1, <1>2, <1>3 DEF Reply
  <2>3. LengthKept(c)'
    BY <1>1, <1>5, <1>7, <1>8 DEF LengthKept
  <2>4. Served(c) /\ Served(c)'
    BY <1>1 DEF Served
  <2>5. \A i \in Slots : conn[c].rbuffer[i] = IF i < readN[c] THEN Byte(c, i + 1) ELSE NUL
    BY <1>3, <2>4 DEF Buffer
  <2>6. Buffer(c)'
    BY <1>1, <1>7, <2>4, <2>5 DEF Buffer
  <2> QED BY <2>1, <2>2, <2>3, <2>6 DEF ClientBytes
<1>11. Ranges'
  BY <1>3, <1>5, <1>7 DEF BInv, Ranges
<1> QED BY <1>1, <1>9, <1>10, <1>11, OneClientStep DEF BInv

\* RecvEnd: from now on it is EPOLLOUT that says that the buffer has been filled.
LEMMA RecvEndBytes ==
  ASSUME IInv, IInv', BInv, NEW c \in Clients, RecvEnd(c)
  PROVE  BInv'
<1> DEFINE d == setEvent(conn[c], {"OUT"})
<1>1. /\ server = "up" /\ cur = c /\ cur' = Null
      /\ UpdateConnection(c, d, HasInput(c))
      /\ UNCHANGED <<link, backlog, sentN, readN, peer, echoed, server>>
  BY DEF RecvEnd, tcpVars
<1>2. c \in DOMAIN conn /\ conn[c] \in Objects /\ c \in Objs /\ link[c] = "accepted" /\ Types
  BY <1>1, Reading DEF Objs, IInv
<1>3. {"OUT"} \in Masks
  BY DEF Masks
<1>4. /\ d \in Objects /\ d.event = {"OUT"}
      /\ d.rlen = conn[c].rlen /\ d.rbuffer = conn[c].rbuffer
  BY <1>2, <1>3, SetEventFields
<1> HIDE DEF d
<1>5. /\ DOMAIN conn' = DOMAIN conn
      /\ conn'[c].event = {"OUT"}
      /\ conn'[c].rlen = conn[c].rlen /\ conn'[c].rbuffer = conn[c].rbuffer
      /\ \A x \in DOMAIN conn : x # c => conn'[x] = conn[x]
  <2>1. /\ DOMAIN conn' = DOMAIN conn \cup {c}
        /\ SameShape(setInEpoll(d), conn'[c])
        /\ conn'[c].rlen = d.rlen /\ conn'[c].rbuffer = d.rbuffer
        /\ \A x \in DOMAIN conn : x # c => conn'[x] = conn[x]
    BY <1>1, <1>2, <1>4, Updating
  <2>2. conn'[c].event = {"OUT"}
    BY <1>4, <2>1, SetInEpollFields DEF SameShape
  <2> QED BY <1>2, <1>4, <2>1, <2>2
<1>6. ASSUME NEW x \in Clients, x # c
      PROVE  Untouched(x)
  <2>1. sentN[x] \in Nat /\ x # Null
    BY <1>2 DEF Types, Streams, Objs
  <2> QED BY <1>1, <1>5, <1>6, <2>1 DEF Untouched
<1>7. ClientBytes(c)'
  <2>1. Stream(c) /\ Reply(c) /\ LengthKept(c) /\ Buffer(c)
    BY <1>2 DEF BInv, ClientBytes
  <2>2. Stream(c)' /\ LengthKept(c)'
    BY <1>1, <1>5, <2>1 DEF Stream, LengthKept
  <2>3. Reply(c)'
    BY <1>1, <1>2, <2>1 DEF Reply
  <2>4. Served(c) /\ Served(c)'
    BY <1>1, <1>5 DEF Served
  <2>5. \A i \in Slots : conn[c].rbuffer[i] = IF i < readN[c] THEN Byte(c, i + 1) ELSE NUL
    BY <2>1, <2>4 DEF Buffer
  <2>6. Buffer(c)'
    BY <1>1, <1>5, <2>4, <2>5 DEF Buffer
  <2> QED BY <2>2, <2>3, <2>6 DEF ClientBytes
<1>8. Ranges'
  BY <1>2, <1>5 DEF BInv, Ranges
<1> QED BY <1>1, <1>6, <1>7, <1>8, OneClientStep DEF BInv
-----------------------------------------------------------------------------
(* sendCallback. *)

\* What is written: as many bytes as the length says, the buffer up to the first '\0'.
LEMMA CopiedFields ==
  ASSUME NEW o \in Objects
  PROVE  Copied(o).wlen = o.rlen /\ Copied(o).wbuffer = StrCpy(o)
<1>1. DOMAIN o = DOMAIN setWBuffer(o, StrCpy(o)) /\ "wlen" \in DOMAIN o /\ "wbuffer" \in DOMAIN o
  BY DEF Objects, setWBuffer
<1>2. setWBuffer(o, StrCpy(o)).wbuffer = StrCpy(o)
  BY <1>1 DEF setWBuffer
<1>3. /\ setWLen(setWBuffer(o, StrCpy(o)), o.rlen).wlen = o.rlen
      /\ setWLen(setWBuffer(o, StrCpy(o)), o.rlen).wbuffer = setWBuffer(o, StrCpy(o)).wbuffer
  BY <1>1 DEF setWLen
<1> QED BY <1>2, <1>3 DEF Copied

\* A buffer with n bytes at their positions and zeros is written so that the bytes before
\* a '\0' of the client's come out unchanged.
LEMMA WrittenBytes ==
  ASSUME NEW c \in Clients, NEW o \in Objects, NEW n \in Nat, n <= BufLen, o.rlen = n,
         \A i \in Slots : o.rbuffer[i] = IF i < n THEN Byte(c, i + 1) ELSE NUL
  PROVE  /\ Written(o) \in Seq(Int) /\ Len(Written(o)) = n
         /\ \A i \in DOMAIN Written(o) : (\A j \in 1..i : j # NulAt[c]) => Written(o)[i] = i
<1>1. /\ o.rbuffer \in [Slots -> Int] /\ o.wbuffer \in [Slots -> {Garbage}]
  BY DEF Objects
<1>2. Written(o) = [i \in 1..n |-> StrCpy(o)[i - 1]]
  BY CopiedFields DEF Written
<1>3. ASSUME NEW i \in 1..n
      PROVE  /\ i - 1 \in Slots
             /\ StrCpy(o)[i - 1] \in Int
             /\ (\A j \in 1..i : j # NulAt[c]) => StrCpy(o)[i - 1] = i
  <2>1. i - 1 \in Slots /\ i - 1 < n
    BY DEF Slots
  <2>2. StrCpy(o)[i - 1] = IF i - 1 <= StrLen(o.rbuffer) THEN o.rbuffer[i - 1] ELSE o.wbuffer[i - 1]
    BY <2>1 DEF StrCpy
  <2>3. StrCpy(o)[i - 1] \in Int
    BY <1>1, <2>1, <2>2 DEF Garbage
  <2>4. ASSUME \A j \in 1..i : j # NulAt[c]
        PROVE  StrCpy(o)[i - 1] = i
    <3>1. ASSUME NEW j \in 0..i - 1
          PROVE  j \in Slots /\ o.rbuffer[j] = j + 1
      <4>1. j \in Slots /\ j < n /\ j + 1 \in 1..i
        BY DEF Slots
      <4>2. o.rbuffer[j] = Byte(c, j + 1)
        BY <4>1
      <4> QED BY <2>4, <4>1, <4>2 DEF Byte
    <3>2. \A j \in 0..i - 1 : o.rbuffer[j] # NUL
      BY <3>1 DEF NUL
    <3>3. i - 1 < StrLen(o.rbuffer) /\ StrLen(o.rbuffer) \in Nat
      BY <1>1, <2>1, <3>2, StrLenBound
    <3>4. i - 1 \in 0..i - 1 /\ i - 1 + 1 = i /\ i - 1 <= StrLen(o.rbuffer)
      BY <3>3
    <3>5. o.rbuffer[i - 1] = i
      BY <3>1, <3>4
    <3> QED BY <2>2, <3>4, <3>5
  <2> QED BY <2>1, <2>3, <2>4
<1>4. DOMAIN Written(o) = 1..n /\ \A i \in 1..n : Written(o)[i] = StrCpy(o)[i - 1]
  BY <1>2
<1>5. Written(o) \in Seq(Int) /\ Len(Written(o)) = n
  <2>1. Written(o) \in [1..n -> Int]
    BY <1>2, <1>3
  <2> QED BY <2>1
<1> QED BY <1>3, <1>4, <1>5

\* SendCallback: the answer of a client whose buffer has been filled, if it can still be
\* written; the others' stay as they are.
LEMMA SendCallbackBytes ==
  ASSUME IInv, IInv', BInv, NEW c \in Clients, SendCallback(c)
  PROVE  BInv'
<1> DEFINE s == Written(conn[c])
<1>1. /\ Turn(c, "sendCallback")
      /\ link' = [link EXCEPT ![c] = "closed"]
      /\ echoed' = IF peer[c] \in {"open", "fin"} THEN [echoed EXCEPT ![c] = @ \o s] ELSE echoed
      /\ UNCHANGED <<backlog, sentN, readN, peer, server, cur>>
      /\ conn' = [x \in DOMAIN conn \ {c} |-> conn[x]]
  BY DEF SendCallback, TcpWriteClose, DeleteConnection, Destroy
<1>2. server = "up" /\ c \in DOMAIN conn /\ conn[c].event = {"OUT"}
  BY <1>1, TurnTaken DEF Objs
<1>3. link[c] = "accepted" /\ conn[c] \in Objects
  BY <1>2 DEF IInv, ClientObjects, Types, Streams
<1>4. /\ conn[c].rlen \in -1..BufLen
      /\ Stream(c) /\ Reply(c) /\ LengthKept(c) /\ Buffer(c)
  BY <1>2 DEF BInv, Ranges, ClientBytes
<1>5. /\ readN[c] \in Nat /\ link \in [Clients -> {"idle", "queued", "accepted", "closed"}]
      /\ echoed \in [Clients -> Seq(Int)] /\ peer[c] \in {"open", "fin", "rst", "gone", "cut"}
  <2>1. Types /\ echoed \in [Clients -> Seq(Int)]
    BY DEF IInv, BInv
  <2> QED BY <2>1 DEF Types, Streams
<1>6. \A x \in Clients : link'[x] = IF x = c THEN "closed" ELSE link[x]
  BY <1>1, <1>5
<1>7. peer[c] \in {"open", "fin"} =>
        /\ s \in Seq(Int) /\ Len(s) = readN[c]
        /\ \A i \in DOMAIN s : (\A j \in 1..i : j # NulAt[c]) => s[i] = i
  <2> SUFFICES ASSUME peer[c] \in {"open", "fin"}
               PROVE  /\ s \in Seq(Int) /\ Len(s) = readN[c]
                      /\ \A i \in DOMAIN s : (\A j \in 1..i : j # NulAt[c]) => s[i] = i
    OBVIOUS
  <2>1. conn[c].rlen = readN[c] /\ readN[c] <= BufLen
    BY <1>4, <1>5 DEF LengthKept
  <2>2. Served(c)
    BY <1>2 DEF Served
  <2>3. \A i \in Slots : conn[c].rbuffer[i] = IF i < readN[c] THEN Byte(c, i + 1) ELSE NUL
    BY <1>4, <2>2 DEF Buffer
  <2> QED BY <1>3, <1>5, <2>1, <2>3, WrittenBytes
<1> HIDE DEF s
<1>8. echoed[c] = <<>>
  BY <1>3, <1>4 DEF Reply
<1>9. /\ echoed' \in [Clients -> Seq(Int)]
      /\ echoed'[c] = IF peer[c] \in {"open", "fin"} THEN s ELSE <<>>
      /\ \A x \in Clients : x # c => echoed'[x] = echoed[x]
  <2>1. CASE peer[c] \in {"open", "fin"}
    <3>1. echoed[c] \o s = s
      BY <1>7, <1>8, <2>1
    <3>2. echoed' = [echoed EXCEPT ![c] = s]
      BY <1>1, <2>1, <3>1
    <3> QED BY <1>5, <1>7, <2>1, <3>2
  <2>2. CASE peer[c] \notin {"open", "fin"}
    BY <1>1, <1>5, <1>8, <2>2
  <2> QED BY <2>1, <2>2
<1>10. ASSUME NEW x \in Clients, x # c
       PROVE  Untouched(x)
  <2>1. sentN[x] \in Nat
    BY DEF IInv, Types, Streams
  <2>2. x \in DOMAIN conn' => x \in DOMAIN conn /\ conn'[x] = conn[x]
    BY <1>1
  <2>3. readN'[x] = readN[x] /\ peer'[x] = peer[x] /\ sentN'[x] = sentN[x]
        /\ echoed'[x] = echoed[x] /\ link'[x] = link[x] /\ cur' = cur
    BY <1>1, <1>6, <1>9, <1>10
  <2> QED BY <2>1, <2>2, <2>3 DEF Untouched
<1>11. ClientBytes(c)'
  <2>1. Stream(c)'
    BY <1>1, <1>4, <1>6 DEF Stream
  <2>2. Reply(c)'
    <3>1. link'[c] = "closed" /\ peer'[c] = peer[c] /\ readN'[c] = readN[c]
      BY <1>1, <1>6
    <3>2. CASE peer[c] \in {"open", "fin"}
      <4>1. echoed'[c] = s /\ Len(s) = readN[c] /\ Len(s) <= readN[c]
        BY <1>5, <1>7, <1>9, <3>2
      <4>2. \A i \in DOMAIN s : (\A j \in 1..i : j # NulAt[c]) => s[i] = i
        BY <1>7, <3>2
      <4> QED BY <3>1, <4>1, <4>2 DEF Reply
    <3>3. CASE peer[c] \notin {"open", "fin"}
      <4>1. echoed'[c] = <<>>
        BY <1>9, <3>3
      <4>2. Len(echoed'[c]) = 0 /\ DOMAIN echoed'[c] = {}
        BY <4>1
      <4>3. Len(echoed'[c]) <= readN'[c]
        BY <1>5, <3>1, <4>2
      <4> QED BY <3>1, <3>3, <4>2, <4>3 DEF Reply
    <3> QED BY <3>2, <3>3
  <2>3. c \notin DOMAIN conn'
    BY <1>1
  <2> QED BY <2>1, <2>2, <2>3 DEF ClientBytes
<1>12. Ranges'
  BY <1>1 DEF BInv, Ranges
<1> QED BY <1>1, <1>2, <1>9, <1>10, <1>11, <1>12, OneClientStep

\* SendKilled: the reset came after the end of the stream, or else the length is not -1,
\* so that a byte had been read before it.
LEMMA SendKilledBytes ==
  ASSUME IInv, IInv', BInv, NEW c \in Clients, SendKilled(c)
  PROVE  BInv'
<1>1. /\ Turn(c, "sendCallback") /\ peer[c] \in {"gone", "cut"} /\ Copied(conn[c]).wlen >= 0
      /\ UNCHANGED <<tcpVars, conn, cur>>
  BY DEF SendKilled, SigPipe
<1>2. c \in DOMAIN conn /\ conn[c] \in Objects
  BY <1>1, TurnTaken DEF Objs, IInv, Types, Streams
<1>3. ASSUME peer[c] = "gone" PROVE readN[c] > 0
  <2>1. conn[c].rlen >= 0
    BY <1>1, <1>2, CopiedFields
  <2>2. conn[c].rlen = readN[c] - 1 /\ readN[c] \in Nat
    BY <1>2, <1>3 DEF BInv, ClientBytes, LengthKept, IInv, Types, Streams
  <2> QED BY <2>1, <2>2
<1>4. (peer[c] = "gone" /\ readN[c] > 0) \/ peer[c] = "cut"
  BY <1>1, <1>3
<1>5. \A x \in Clients : Untouched(x)
  BY <1>1, SameClientObjects DEF tcpVars
<1>6. \A x \in Clients : ClientBytes(x)'
  BY <1>5, UntouchedKept DEF BInv
<1>7. echoed' \in [Clients -> Seq(Int)] /\ Ranges'
  BY <1>1 DEF BInv, Ranges, tcpVars
<1>8. SigPipeNeedsReset'
  BY <1>1, <1>4 DEF SigPipeNeedsReset, tcpVars
<1> QED BY <1>6, <1>7, <1>8 DEF BInv
-----------------------------------------------------------------------------
(* The invariant. *)

\* Nothing has been sent when main() starts.
LEMMA InitBytes == Init => BInv
<1> SUFFICES ASSUME Init PROVE BInv
  OBVIOUS
<1> USE DEF Init, TcpInit
<1>1. DOMAIN conn = {}
  OBVIOUS
<1>2. echoed \in [Clients -> Seq(Int)] /\ Ranges /\ SigPipeNeedsReset
  BY <1>1 DEF Ranges, SigPipeNeedsReset
<1>3. \A c \in Clients : ClientBytes(c)
  BY <1>1 DEF ClientBytes, Stream, Reply
<1> QED BY <1>2, <1>3 DEF BInv

\* Every action of the server and the clients keeps the bytes where they belong.
LEMMA InductiveBytes == IInv /\ IInv' /\ BInv /\ [Next]_vars => BInv'
<1> SUFFICES ASSUME IInv, IInv', BInv, [Next]_vars PROVE BInv'
  OBVIOUS
<1>1. CASE BootFailure
  BY <1>1, StillStep DEF BootFailure
<1>2. CASE LoopCheck
  BY <1>2, StillStep DEF LoopCheck
<1>3. CASE BootListen
  BY <1>3, BootListenQuiet
<1>4. CASE BootRegister
  BY <1>4, BootRegisterQuiet
<1>5. CASE \E S \in SUBSET ready : Poll(S)
  BY <1>5, PollQuiet
<1>6. CASE AcceptFails
  BY <1>6, AcceptFailsQuiet
<1>7. ASSUME NEW c \in Clients,
             \/ AcceptClient(c)
             \/ RecvBegin(c) \/ RecvSome(c) \/ RecvError(c) \/ RecvEnd(c)
             \/ SendCallback(c) \/ SendKilled(c)
      PROVE  BInv'
  <2>1. CASE AcceptClient(c)
    BY <2>1, AcceptClientBytes
  <2>2. CASE RecvBegin(c)
    BY <2>2, RecvBeginBytes
  <2>3. CASE RecvSome(c)
    BY <2>3, RecvSomeBytes
  <2>4. CASE RecvError(c)
    BY <2>4, RecvErrorBytes
  <2>5. CASE RecvEnd(c)
    BY <2>5, RecvEndBytes
  <2>6. CASE SendCallback(c)
    BY <2>6, SendCallbackBytes
  <2>7. CASE SendKilled(c)
    BY <2>7, SendKilledBytes
  <2> QED BY <1>7, <2>1, <2>2, <2>3, <2>4, <2>5, <2>6, <2>7
<1>8. ASSUME NEW c \in Clients, Connect(c) \/ Arrival(c)
      PROVE  BInv'
  BY <1>8, ConnectQuiet, ArrivalQuiet
<1>9. CASE UNCHANGED vars
  BY <1>9, StillStep DEF vars
<1> QED BY <1>1, <1>2, <1>3, <1>4, <1>5, <1>6, <1>7, <1>8, <1>9
    DEF Next, ServerStep, Boot, Environment

\* BInv holds throughout every run of the server.
THEOREM BytesInvariance == Spec => []BInv
<1>1. Init => BInv
  BY InitBytes
<1>2. IInv /\ IInv' /\ BInv /\ [Next]_vars => BInv'
  BY InductiveBytes
<1> QED BY <1>1, <1>2, Invariance, PTL DEF Spec
-----------------------------------------------------------------------------
(* What follows from it. *)

\* The member loop is uninitialised until the constructor assigns its argument to it; no
\* other action writes it.
LEMMA LoopKept == [Next]_vars => loop' \in {loop, LoopArgument}
<1>1. Boot => loop' \in {loop, LoopArgument}
  BY DEF Boot, BootFailure, LoopCheck, BootListen, BootRegister
<1>2. ASSUME NEW S, Poll(S) PROVE loop' = loop
  BY <1>2 DEF Poll
<1>3. AcceptFails => loop' = loop
  BY DEF AcceptFails
<1>4. ASSUME NEW c, \/ AcceptClient(c)
                    \/ RecvBegin(c) \/ RecvSome(c) \/ RecvError(c) \/ RecvEnd(c)
                    \/ SendCallback(c) \/ SendKilled(c)
      PROVE  loop' = loop
  BY <1>4 DEF AcceptClient, RecvBegin, RecvSome, RecvError, RecvEnd, SendCallback, SendKilled
<1>5. ASSUME NEW c, Connect(c) \/ Arrival(c) PROVE loop' = loop
  BY <1>5 DEF Connect, Arrival
<1> QED BY <1>1, <1>2, <1>3, <1>4, <1>5 DEF Next, ServerStep, Environment, vars

\* The type of that member.
LoopType == loop \in Uninitialised \cup {LoopArgument}

\* The member loop of Server keeps its type.
LEMMA LoopTyped == Spec => []LoopType
<1>1. Init => LoopType
  BY DEF Init, LoopType
<1>2. LoopType /\ [Next]_vars => LoopType'
  BY LoopKept DEF LoopType
<1> QED BY <1>1, <1>2, PTL DEF Spec

\* The variables keep their types; in particular no length passes the buffer or falls
\* below -1, whatever recv() returns.
THEOREM TypeCorrect == Spec => []TypeOK
<1>1. ASSUME IInv, BInv, LoopType PROVE TypeOK
  <2>1. TcpTypeOK
    BY <1>1 DEF IInv, Types, Streams, BInv, TcpTypeOK
  <2>2. \A o \in DOMAIN conn : conn[o] \in Connections
    <3> SUFFICES ASSUME NEW o \in DOMAIN conn PROVE conn[o] \in Connections
      OBVIOUS
    <3>1. conn[o] \in Objects
      BY <1>1 DEF IInv, Types, Streams
    <3>2. conn[o].rlen \in -1..BufLen /\ conn[o].rbuffer \in [Slots -> Garbage..MaxBytes]
      BY <1>1 DEF BInv, Ranges
    <3> QED BY <3>1, <3>2 DEF Objects, Connections
  <2> QED BY <1>1, <2>1, <2>2 DEF IInv, Types, Streams, TypeOK, LoopType
<1> QED BY <1>1, Invariance, BytesInvariance, LoopTyped, PTL

\* rlen is what recv() returned, in every interleaving of arrivals, recv() calls and
\* errors: the number of bytes read, less one once a reset has been reported.
THEOREM LengthCorrect == Spec => []LengthTracksBytes
<1>1. BInv => LengthTracksBytes
  BY DEF BInv, ClientBytes, LengthKept, LengthTracksBytes, Accepted
<1> QED BY <1>1, BytesInvariance, PTL

\* What sendCallback writes to a client are the client's own bytes, in order from the
\* first up to a '\0', and as many as were read unless the connection was reset.
THEOREM EchoCorrect == Spec => []EchoFaithful
<1>1. ASSUME IInv, BInv PROVE EchoFaithful
  <2> SUFFICES ASSUME NEW c \in Clients
               PROVE  /\ \A i \in DOMAIN echoed[c] :
                            (\A j \in 1..i : j # NulAt[c]) => echoed[c][i] = i
                      /\ Len(echoed[c]) <= readN[c]
                      /\ link[c] = "closed" /\ peer[c] \in {"open", "fin"} =>
                            Len(echoed[c]) = readN[c]
    BY DEF EchoFaithful
  <2>1. Reply(c) /\ readN[c] \in Nat
    BY <1>1 DEF BInv, ClientBytes, IInv, Types, Streams
  <2>2. CASE link[c] = "closed"
    BY <2>1, <2>2 DEF Reply
  <2>3. CASE link[c] # "closed"
    <3>1. echoed[c] = <<>>
      BY <2>1, <2>3 DEF Reply
    <3>2. Len(echoed[c]) = 0 /\ DOMAIN echoed[c] = {}
      BY <3>1
    <3> QED BY <2>1, <2>3, <3>2
  <2> QED BY <2>2, <2>3
<1> QED BY <1>1, Invariance, BytesInvariance, PTL

\* write() ends the process only for a client that had sent something and whose reset
\* recv() had noticed, or for one that was reset after the end of its stream.
THEOREM SigPipeCause == Spec => []SigPipeNeedsReset
<1>1. BInv => SigPipeNeedsReset
  BY DEF BInv
<1> QED BY <1>1, BytesInvariance, PTL
============================================================================
