------------------------------ MODULE Reactor ------------------------------
(***************************************************************************)
(* The echo server of apps/test-main.cpp: one thread that constructs an    *)
(* EventLoop and a Server (src/Server.cpp, src/Socket.cpp) and then runs   *)
(* EventLoop::start (src/EventLoop.cpp) for ever.  Each round waits for a  *)
(* batch of Connections and runs their callbacks one after the other:      *)
(* acceptCallback for the listening socket, recvCallback and then          *)
(* sendCallback for a client.  Clients, asynchronous to all of this,       *)
(* connect, send, close or reset at any point, also between two recv()     *)
(* calls of one callback.                                                  *)
(*                                                                         *)
(* A Connection object is identified with the client it was accepted for;  *)
(* Listener is the server's own Socket, and an accept() that fails leaves  *)
(* one of Failures, a Connection with descriptor -1.                       *)
(***************************************************************************)
EXTENDS Tcp, Epoll

CONSTANTS
  ListenFd,    \* descriptor of the listening socket
  Listener     \* the Connection of the listening socket

ClientFds == Fds \ {ListenFd}

\* accept() fails at most once for each connection that arrives: a bound on the
\* objects that failed calls leave behind, not on the calls.
Failures == 1..Cardinality(Clients)
Objs == Clients \cup Failures \cup {Listener}

ASSUME ReactorAssumption ==
  /\ IsFiniteSet(Clients)
  /\ Clients \cap Failures = {}
  /\ Listener \notin Clients \cup Failures
  /\ Null \notin Objs
  /\ Null \notin {"acceptCallback", "recvCallback", "sendCallback", "garbage", "eventLoop"}
  /\ Fds \subseteq Nat
  /\ IsFiniteSet(Fds)
  /\ ListenFd \in Fds
  /\ NoFd \notin Fds
  /\ BufLen \in Nat \ {0}
  /\ MaxEvents \in Nat \ {0}

VARIABLES
  server,   \* "boot", "listening", "up", or how the process ended: "failed",
            \* "loopcheck" (both by errif at startup) or "sigpipe"
  loop,     \* the pointer of that name in the Server object
  batch,    \* Connections of the current round whose turn is still to come
  cur       \* the Connection whose recvCallback is running, or Null

vars == <<tcpVars, epollVars, conn, openFds, server, loop, batch, cur>>

\* What main() passes to the constructor of Server, the address of a new EventLoop; and
\* what the member it is stored in may hold before, as nothing initialises it.
LoopArgument  == "eventLoop"
Uninitialised == {Null, "garbage"}

FreeFds == ClientFds \ openFds

\* socket() and accept() return the lowest free descriptor.
LowestFd == CHOOSE f \in FreeFds : \A g \in FreeFds : f <= g

\* The descriptors poll() finds readable, and those of failed connections.
Accepted == Clients \cap DOMAIN conn
Input  == {conn[c].fd : c \in {c \in Accepted : HasInput(c)}}
          \cup (IF backlog # <<>> THEN {ListenFd} ELSE {})
Failed == {conn[c].fd : c \in {c \in Accepted : WasReset(c)}}

Init == /\ TcpInit
        /\ EpollInit
        /\ conn = [o \in {} |-> NewObject(NoFd, Null)]
        /\ openFds = {}
        /\ server = "boot"
        /\ loop \in Uninitialised
        /\ batch = {}
        /\ cur = Null
-----------------------------------------------------------------------------
(* main() up to loop->start(). *)

\* epoll_create fails, or, once the member loop is assigned, socket, bind or listen:
\* errif exits.
BootFailure == /\ server = "boot"
               /\ server' = "failed"
               /\ \/ UNCHANGED loop
                  \/ loop = Null /\ loop' = LoopArgument
               /\ UNCHANGED <<tcpVars, epollVars, conn, openFds, batch, cur>>

\* Server::Server tests its member loop, not its argument, before it assigns it.
LoopCheck == /\ server = "boot"
             /\ loop # Null
             /\ server' = "loopcheck"
             /\ UNCHANGED <<tcpVars, epollVars, conn, openFds, batch, cur, loop>>

\* The test passes, and the Socket is created, bound and listening.
BootListen == /\ server = "boot"
              /\ loop = Null
              /\ loop' = LoopArgument
              /\ server' = "listening"
              /\ Store(Listener, NewObject(ListenFd, ServerAddress))
              /\ UNCHANGED <<tcpVars, epollVars, openFds, batch, cur>>

\* It is registered, and its callback set, after listen(): clients may already be queued.
BootRegister ==
  /\ server = "listening"
  /\ server' = "up"
  /\ LET s == setNonBlocking(setEvent(conn[Listener], {"IN", "ET"}))
     IN  UpdateConnection(Listener, BindRecvCallback(s, "acceptCallback"), backlog # <<>>)
  /\ UNCHANGED <<tcpVars, openFds, batch, cur, loop>>
-----------------------------------------------------------------------------
(* EventLoop::start *)

Poll(S) == /\ server = "up"
           /\ batch = {} /\ cur = Null
           /\ Wait(S, Input, Failed)
           /\ batch' = {connMap[f] : f \in S}
           /\ UNCHANGED <<tcpVars, server, cur, loop>>

\* The branches of EPOLLIN and EPOLLOUT: exeRecvCallback() or exeSendCallback().
Callback(c) == IF "IN" \in getREvent(c) THEN c.recvCallback
               ELSE IF "OUT" \in getREvent(c) THEN c.sendCallback ELSE Null

Without_Repeated(o) == batch
Without(o) == batch \ {o}

\* The next Connection of the batch, whose callback is f.
Turn(o, f) == /\ server = "up"
              /\ cur = Null
              /\ o \in batch
              /\ Callback(conn[o]) = f
              /\ batch' = Without(o)
-----------------------------------------------------------------------------
(* acceptCallback: one accept() per event. *)

\* The Connection that accept() made of descriptor fd is handed to epoll, and its
\* callbacks are set.
NewConnection(o, fd, inetAddr, input) ==
  LET c == setEvent(setNonBlocking(NewObject(fd, inetAddr)), {"IN", "ET"})
  IN  UpdateConnection(o, BindSendCallback(BindRecvCallback(c, "recvCallback"), "sendCallback"),
                       input)

AcceptClient(c) == /\ Turn(Listener, "acceptCallback")
                   /\ FreeFds # {}
                   /\ TcpAccept(c)
                   /\ openFds' = openFds \cup {LowestFd}
                   /\ NewConnection(c, LowestFd, c, HasInput(c))
                   /\ UNCHANGED <<server, cur, loop>>

\* accept() returns -1 (and, on the non-blocking socket, also when no one waits):
\* Socket::accept wraps that in a Connection all the same, so the test for nullptr
\* in acceptCallback never fires.
AcceptFails == /\ Turn(Listener, "acceptCallback")
               /\ FreeFds = {} \/ (backlog = <<>> /\ conn[Listener].nonblocking)
               /\ LET left == Failures \ DOMAIN conn
                      z    == CHOOSE z \in left : \A y \in left : z <= y
                  IN  NewConnection(z, NoFd, InetAddress, FALSE)
               /\ UNCHANGED <<tcpVars, openFds, server, cur, loop>>
-----------------------------------------------------------------------------
(* recvCallback: clear the buffer, then recv() until it returns 0 or EAGAIN. *)

RecvBegin(c) == /\ Turn(c, "recvCallback")
                /\ cur' = c
                /\ Store(c, rBufferClear(conn[c]))
                /\ UNCHANGED <<tcpVars, epollVars, openFds, server, loop>>

\* The length and the address passed to recv(), and the new rlen.
Room_Whole(c) == BufLen
Room(c) == BufLen - getCurRlen(conn[c])
Offset_Start(c) == 0
Offset(c) == getCurRlen(conn[c])
NewLen_Forgets(c, recv_bytes) == recv_bytes
NewLen_IgnoresErrors(c, recv_bytes) == conn[c].rlen + (IF recv_bytes < 0 THEN 0 ELSE recv_bytes)
NewLen(c, recv_bytes) == getCurRlen(conn[c]) + recv_bytes

RecvSome(c) == LET k == RecvCount(c, Room(c)) IN
  /\ server = "up" /\ cur = c
  /\ k > 0
  /\ TcpRecv(c, k)
  /\ Store(c, setRLen(setRBuffer(conn[c], Filled(conn[c].rbuffer, Offset(c), c, k)), NewLen(c, k)))
  /\ UNCHANGED <<epollVars, openFds, server, batch, cur, loop>>

\* Any other error, such as ECONNRESET: the loop goes on with rlen + (-1).
RecvError(c) == /\ server = "up" /\ cur = c
                /\ ResetPending(c)
                /\ TcpReportReset(c)
                /\ Store(c, setRLen(conn[c], NewLen(c, -1)))
                /\ UNCHANGED <<epollVars, openFds, server, batch, cur, loop>>

\* The loop breaks; the Connection now waits for EPOLLOUT, level-triggered.
RecvEnd(c) == /\ server = "up" /\ cur = c
              /\ RecvEnds(c, Room(c), conn[c].nonblocking)
              /\ UpdateConnection(c, setEvent(conn[c], {"OUT"}), HasInput(c))
              /\ cur' = Null
              /\ UNCHANGED <<tcpVars, openFds, server, batch, loop>>
-----------------------------------------------------------------------------
(* sendCallback: copy, write, close. *)

\* strcpy stops at the first '\0'; the rest of wbuffer keeps what it holds.
StrLen(b) == IF \E i \in Slots : b[i] = NUL
             THEN CHOOSE i \in Slots : b[i] = NUL /\ \A j \in 0..i - 1 : b[j] # NUL
             ELSE BufLen
StrCpy(c) == [i \in Slots |-> IF i <= StrLen(c.rbuffer) THEN c.rbuffer[i] ELSE c.wbuffer[i]]

\* The object when write() is called, and the bytes that takes: none when wlen is -1.
Copied(c)  == setWLen(setWBuffer(c, StrCpy(c)), getCurRlen(c))
Written(c) == [i \in 1..getCurWlen(Copied(c)) |-> Copied(c).wbuffer[i - 1]]

SendCallback(c) == /\ Turn(c, "sendCallback")
                   /\ ~SigPipe(c, getCurWlen(Copied(conn[c])))
                   /\ TcpWriteClose(c, Written(conn[c]))
                   /\ DeleteConnection(c)
                   /\ UNCHANGED <<server, cur, loop>>

SendKilled(c) == /\ Turn(c, "sendCallback")
                 /\ SigPipe(c, getCurWlen(Copied(conn[c])))
                 /\ server' = "sigpipe"
                 /\ UNCHANGED <<tcpVars, epollVars, conn, openFds, cur, loop>>
-----------------------------------------------------------------------------
(* The clients. *)

Connect(c) == /\ server \in {"listening", "up"}
              /\ TcpConnect(c)
              /\ Wake(ListenFd)
              /\ UNCHANGED <<interest, connMap, conn, openFds, server, batch, cur, loop>>

Arrival(c) == /\ server \in {"listening", "up"}
              /\ TcpArrival(c)
              /\ IF c \in DOMAIN conn THEN Wake(conn[c].fd) ELSE UNCHANGED ready
              /\ UNCHANGED <<interest, connMap, conn, openFds, server, batch, cur, loop>>
-----------------------------------------------------------------------------
Boot == BootFailure \/ LoopCheck \/ BootListen \/ BootRegister

\* What the server's thread does next: there is only one such thread.
ServerStep == \/ Boot
              \/ \E S \in SUBSET ready : Poll(S)
              \/ \E c \in Clients : \/ AcceptClient(c)
                                    \/ RecvBegin(c) \/ RecvSome(c) \/ RecvError(c) \/ RecvEnd(c)
                                    \/ SendCallback(c) \/ SendKilled(c)
              \/ AcceptFails

Environment == \E c \in Clients : Connect(c) \/ Arrival(c)

Next == ServerStep \/ Environment

Spec == Init /\ [][Next]_vars

\* The server's thread is scheduled as long as it can run; clients owe nothing.
FairSpec == Spec /\ WF_vars(ServerStep)

\* The process has ended.
Ended == server \in {"failed", "loopcheck", "sigpipe"}
-----------------------------------------------------------------------------
(* Correctness. *)

ServerStates == {"boot", "listening", "up", "failed", "loopcheck", "sigpipe"}
Masks        == {{}, {"IN", "ET"}, {"OUT"}}

Connections ==
  [fd : Fds \cup {NoFd}, inetAddr : Clients \cup {InetAddress, ServerAddress},
   inEpoll : BOOLEAN, nonblocking : BOOLEAN,
   event : Masks, revent : SUBSET {"IN", "OUT", "ERR"},
   recvCallback : {"acceptCallback", "recvCallback", Null}, sendCallback : {"sendCallback", Null},
   rbuffer : [Slots -> Garbage..MaxBytes], rlen : -1..BufLen,
   wbuffer : [Slots -> {Garbage}], wlen : {0}]

\* The variables keep their types; rlen may be -1 after a reset.  Nothing of the write
\* side outlives sendCallback.
TypeOK == /\ TcpTypeOK
          /\ server \in ServerStates
          /\ loop \in Uninitialised \cup {LoopArgument}
          /\ interest \in [Fds -> Masks]
          /\ ready \subseteq Fds
          /\ connMap \in [Fds \cup {NoFd} -> Objs \cup {Null}]
          /\ DOMAIN conn \subseteq Objs
          /\ \A o \in DOMAIN conn : conn[o] \in Connections
          /\ openFds \subseteq ClientFds
          /\ batch \subseteq Objs
          /\ cur \in Clients \cup {Null}

\* connMap, the kernel's interest list and the Connection objects agree: Epoll::wait
\* finds, for every descriptor that may be reported, a live object with that
\* descriptor and its flag set, and no entry outlives its object.
EpollCoherent ==
  /\ \A f \in Fds : interest[f] # {} => /\ connMap[f] \in DOMAIN conn
                                       /\ conn[connMap[f]].fd = f
                                       /\ conn[connMap[f]].inEpoll
  /\ \A f \in Fds \cup {NoFd} : connMap[f] # Null => connMap[f] \in DOMAIN conn
  /\ \A f \in ready : interest[f] # {}

\* Descriptors are reused after close(): no two live Connections share one, so a
\* byte of one client never reaches another; no open one is without its Connection
\* (leaked), and no Connection of a client is left with a closed one.
DescriptorsOwned ==
  /\ \A o, p \in DOMAIN conn : conn[o].fd = conn[p].fd /\ conn[o].fd # NoFd => o = p
  /\ openFds = {conn[c].fd : c \in Accepted}

\* The batch holds raw pointers across callbacks that delete Connections: each one
\* is still live at its turn, and the callback it will be asked to run is set.
BatchLive ==
  /\ \A o \in batch : o \in DOMAIN conn /\ Callback(conn[o]) # Null
  /\ cur # Null => cur \in DOMAIN conn /\ cur \notin batch

\* acceptCallback is never run for nothing: an event of the listening socket, on the
\* ready list or in the batch, has its own connection in the accept queue.
AcceptHasPending ==
  Len(backlog) >= Cardinality({ListenFd} \cap ready) + Cardinality({Listener} \cap batch)

\* The length the code keeps and the bytes it took: rlen counts what recv() returned,
\* one less once a reset has been reported, and never passes the buffer.
LengthTracksBytes ==
  \A c \in Accepted : conn[c].rlen = readN[c] - (IF peer[c] = "gone" THEN 1 ELSE 0)

\* What a client gets back are its own bytes, in order, from the first, up to a '\0';
\* and an orderly client gets back all that recv() took.
EchoFaithful ==
  \A c \in Clients :
    /\ \A i \in DOMAIN echoed[c] : (\A j \in 1..i : j # NulAt[c]) => echoed[c][i] = i
    /\ Len(echoed[c]) <= readN[c]
    /\ link[c] = "closed" /\ peer[c] \in {"open", "fin"} => Len(echoed[c]) = readN[c]

\* Only two kinds of client can end the server: one that sends something and is then
\* reset, with the reset noticed by recv(), and one that is reset after the end of its
\* stream, which recv() never notices.
SigPipeNeedsReset ==
  server = "sigpipe" =>
    \E c \in Clients : (peer[c] = "gone" /\ readN[c] > 0) \/ peer[c] = "cut"

\* An accepted client that sends, closes or is reset gets its answer and its
\* descriptor is closed, unless the process ends.
InputIsAnswered ==
  \A c \in Clients : (link[c] = "accepted" /\ HasInput(c)) ~> (link[c] = "closed" \/ Ended)

\* An event of the listening socket, or a client that was queued before that socket is
\* registered, gets the oldest waiting client accepted, unless no descriptor is left.
EventAcceptsOldest ==
  \A c \in Clients :
    ((server = "listening" \/ ListenFd \in ready) /\ backlog # <<>> /\ c = Head(backlog))
      ~> (link[c] # "queued" \/ FreeFds = {} \/ Ended)

\* What the server promises to its clients (module EchoService): admission in order
\* of arrival, one answer each, made of the client's own first bytes.
Echo == INSTANCE EchoService WITH
          Capacity <- Cardinality(ClientFds),
          stage    <- link,
          line     <- backlog,
          said     <- sentN,
          answer   <- echoed,
          mode     <- CASE server \in {"boot", "listening"} -> "starting"
                        [] server = "up" -> "up"
                        [] OTHER -> "down"

ImplementsEchoService == Echo!ESpec

\* src/Server.cpp:36, "receive the requests coming from clients": every client whose
\* connection is in the accept queue is accepted.
EveryClientAccepted ==
  \A c \in Clients : link[c] = "queued" ~> (link[c] # "queued" \/ Ended)

\* inc/Connection.hpp:28, getInEpoll "whether the connection has been put into the
\* epoll tree": a flagged Connection is registered with the kernel.
InEpollMeansRegistered ==
  \A o \in DOMAIN conn : conn[o].inEpoll => conn[o].fd \in Fds /\ interest[conn[o].fd] # {}

\* src/Server.cpp:20, "EventLoop * is nullptr!": the constructor gives up with this
\* message only for a null argument.
LoopCheckSound == server = "loopcheck" => LoopArgument = Null
=============================================================================
