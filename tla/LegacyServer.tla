---------------------------- MODULE LegacyServer ----------------------------
(***************************************************************************)
(* apps/server.cpp: an epoll server in one function, without objects or    *)
(* callbacks.  It takes one message from each client and disconnects it.   *)
(* The listening socket is blocking and edge-triggered, and one buffer     *)
(* serves all clients.                                                     *)
(***************************************************************************)
EXTENDS Tcp

CONSTANTS
  ClientFds,   \* descriptors the process can have open for clients
  ListenFd,    \* serverfd
  Nobody,      \* no client
  BufLen,      \* BUFFER_LENGTH
  MaxEvents    \* MAX_EPOLL_CONNECTION

Fds == ClientFds \cup {ListenFd}

ASSUME LegacyAssumption == /\ Nobody \notin Clients
                           /\ ClientFds \subseteq Nat
                           /\ ListenFd \notin ClientFds
                           /\ BufLen \in Nat \ {0}
                           /\ MaxEvents \in Nat \ {0}

VARIABLES
  server,      \* "boot", "up" or "failed" (exit during startup)
  interest, ready,   \* see module EpollKernel
  holder,      \* the client each open descriptor belongs to, Nobody when it is closed
  batch,       \* what is left of events: pairs of a descriptor and its event mask
  cur,         \* the client whose recv loop is running, or Nobody
  nonblocking, \* descriptors of clients with O_NONBLOCK set
  buffer, bufferLen

K == INSTANCE EpollKernel

kernelVars == <<interest, ready>>
bufVars == <<buffer, bufferLen>>
fdVars == <<holder, nonblocking>>
vars == <<tcpVars, kernelVars, server, fdVars, batch, cur, bufVars>>

Slots   == 0..BufLen - 1
Garbage == -1    \* what memory holds that was never written

Open     == {f \in ClientFds : holder[f] # Nobody}
FreeFds  == ClientFds \ Open
LowestFd == CHOOSE f \in FreeFds : \A g \in FreeFds : f <= g
FdOf(c)  == CHOOSE f \in ClientFds : holder[f] = c

Input  == {f \in Open : HasInput(holder[f])} \cup (IF backlog # <<>> THEN {ListenFd} ELSE {})
Failed == {f \in Open : WasReset(holder[f])}

Init == /\ TcpInit
        /\ K!KernelInit
        /\ server = "boot"
        /\ holder = [f \in ClientFds |-> Nobody]
        /\ nonblocking = {}
        /\ batch = {}
        /\ cur = Nobody
        /\ buffer = [i \in Slots |-> Garbage]
        /\ bufferLen = 0
-----------------------------------------------------------------------------
ListenEvents_Level == {"IN"}
ListenEvents == {"IN", "ET"}

\* The database or a socket call fails and the process exits; or it starts listening
\* and registers the listening socket (registering notices a connection that came in
\* between as if it came right after).
Boot == /\ server = "boot"
        /\ \/ /\ server' = "failed"
              /\ UNCHANGED kernelVars
           \/ /\ server' = "up"
              /\ K!CtlSet(ListenFd, ListenEvents, FALSE)
        /\ UNCHANGED <<tcpVars, fdVars, batch, cur, bufVars>>

Poll(S) == /\ server = "up" /\ batch = {} /\ cur = Nobody
           /\ K!Deliver(S, Input)
           /\ batch' = {<<f, K!Events(f, Input, Failed)>> : f \in S}
           /\ UNCHANGED <<tcpVars, server, fdVars, cur, bufVars>>

Without_Repeated(e) == batch
Without(e) == batch \ {e}

Turn(e) == /\ server = "up" /\ cur = Nobody
           /\ e \in batch
           /\ batch' = Without(e)

setNonBlocking_Skipped(fd) == UNCHANGED nonblocking
setNonBlocking(fd) == nonblocking' = nonblocking \cup {fd}

\* One accept(); on an empty queue it would block the thread (TcpAccept's guard).
Accept(e) == /\ Turn(e)
             /\ e[1] = ListenFd
             /\ FreeFds # {}
             /\ TcpAccept(Head(backlog))
             /\ holder' = [holder EXCEPT ![LowestFd] = Head(backlog)]
             /\ setNonBlocking(LowestFd)
             /\ K!CtlSet(LowestFd, {"IN", "ET"}, HasInput(Head(backlog)))
             /\ UNCHANGED <<server, cur, bufVars>>

\* No descriptor left: accept() returns -1 and the loop goes on to the next event.
AcceptFails(e) == /\ Turn(e)
                  /\ e[1] = ListenFd
                  /\ FreeFds = {}
                  /\ UNCHANGED <<tcpVars, kernelVars, server, fdVars, cur, bufVars>>

Zeroed_Not(buf) == buf
Zeroed(buf) == [i \in DOMAIN buf |-> NUL]

\* events == EPOLLIN: only input, no error along with it.
RecvBegin(e) == /\ Turn(e)
                /\ e[1] # ListenFd /\ e[2] = {"IN"}
                /\ cur' = holder[e[1]]
                /\ buffer' = Zeroed(buffer)
                /\ bufferLen' = 0
                /\ UNCHANGED <<tcpVars, kernelVars, server, fdVars>>

\* Any other event mask of a client leads to no branch, or to the empty one.
Ignored(e) == /\ Turn(e)
              /\ e[1] # ListenFd /\ e[2] # {"IN"}
              /\ UNCHANGED <<tcpVars, kernelVars, server, fdVars, cur, bufVars>>

Room == BufLen - bufferLen

RecvSome(c) == LET k == RecvCount(c, Room) IN
  /\ server = "up" /\ cur = c
  /\ k > 0
  /\ TcpRecv(c, k)
  /\ buffer' = Filled(buffer, bufferLen, c, k)
  /\ bufferLen' = bufferLen + k
  /\ UNCHANGED <<kernelVars, server, fdVars, batch, cur>>

\* Errors other than EAGAIN: bufferLen += -1, and on.
RecvError(c) == /\ server = "up" /\ cur = c
                /\ ResetPending(c)
                /\ TcpReportReset(c)
                /\ bufferLen' = bufferLen - 1
                /\ UNCHANGED <<kernelVars, server, fdVars, batch, cur, buffer>>

Released_Not(fd) == UNCHANGED fdVars
Released(fd) == /\ holder' = [holder EXCEPT ![fd] = Nobody]
                /\ nonblocking' = nonblocking \ {fd}

\* The loop breaks: close(fd), which also takes it out of epoll; EPOLL_CTL_DEL fails.
Disconnect(c) == /\ server = "up" /\ cur = c
                 /\ RecvEnds(c, Room, FdOf(c) \in nonblocking)
                 /\ TcpWriteClose(c, <<>>)
                 /\ Released(FdOf(c))
                 /\ K!Forget(FdOf(c))
                 /\ cur' = Nobody
                 /\ UNCHANGED <<server, batch, bufVars>>
-----------------------------------------------------------------------------
Connect(c) == /\ server = "up"
              /\ TcpConnect(c)
              /\ K!Wake(ListenFd)
              /\ UNCHANGED <<server, interest, fdVars, batch, cur, bufVars>>

Arrival(c) == /\ server = "up"
              /\ TcpArrival(c)
              /\ IF link[c] = "accepted" THEN K!Wake(FdOf(c)) ELSE UNCHANGED ready
              /\ UNCHANGED <<server, interest, fdVars, batch, cur, bufVars>>

ServerStep == \/ Boot
              \/ \E S \in SUBSET ready : Poll(S)
              \/ \E e \in batch : Accept(e) \/ AcceptFails(e) \/ RecvBegin(e) \/ Ignored(e)
              \/ \E c \in Clients : RecvSome(c) \/ RecvError(c) \/ Disconnect(c)

Environment == \E c \in Clients : Connect(c) \/ Arrival(c)

Next == ServerStep \/ Environment

Spec == Init /\ [][Next]_vars

\* The server's only thread is scheduled as long as it can run; clients owe nothing.
FairSpec == Spec /\ WF_vars(ServerStep)
-----------------------------------------------------------------------------
Masks == {{}, {"IN", "ET"}}

\* The variables keep their types; bufferLen may be -1 after a reset.
TypeOK == /\ TcpTypeOK
          /\ server \in {"boot", "up", "failed"}
          /\ interest \in [Fds -> Masks]
          /\ ready \subseteq Fds
          /\ holder \in [ClientFds -> Clients \cup {Nobody}]
          /\ nonblocking \subseteq ClientFds
          /\ batch \subseteq Fds \X SUBSET {"IN", "ERR"}
          /\ cur \in Clients \cup {Nobody}
          /\ buffer \in [Slots -> Garbage..MaxBytes]
          /\ bufferLen \in -1..BufLen

\* accept() on the blocking socket never stops the loop: each event of the listening
\* socket that is pending has its own connection in the accept queue.
AcceptNeverBlocks ==
  Len(backlog) >= Cardinality({ListenFd} \cap ready)
                  + Cardinality({e \in batch : e[1] = ListenFd})

\* The one buffer holds the message of the client being served and nothing else: no
\* byte of an earlier client is left in it, whatever was reset or cut off.
BufferHoldsMessage ==
  cur # Nobody => \A i \in Slots : buffer[i] = IF i < readN[cur] THEN Byte(cur, i + 1) ELSE NUL

\* Closing and registering go together: a descriptor is registered as long as it is
\* open, belongs to one accepted client, and an event still to be handled is of one.
DescriptorsRegistered ==
  /\ Open = {f \in ClientFds : interest[f] # {}}
  /\ \A f, g \in Open : holder[f] = holder[g] => f = g
  /\ {holder[f] : f \in Open} = {c \in Clients : link[c] = "accepted"}
  /\ \A e \in batch : e[1] \in Open \cup {ListenFd}

\* An accepted client that sends or closes is disconnected and its descriptor freed,
\* except that a reset may leave it to itself (Ignored).
OrderlyDisconnected ==
  \A c \in Clients :
    (link[c] = "accepted" /\ HasInput(c)) ~> (link[c] = "closed" \/ peer[c] \in {"rst", "cut"})
=============================================================================
