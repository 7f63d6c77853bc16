--------------------------- MODULE ReactorProofs ---------------------------
(***************************************************************************)
(* Proofs about Reactor, for any number of clients, descriptors and bytes: *)
(* what keeps the Connection objects, connMap, the kernel's interest list, *)
(* the descriptors and the batch together, and that neither an accept()    *)
(* nor an object that a failed one leaves is ever one too many.  What the  *)
(* buffers hold is the subject of ReactorBytesProofs.                      *)
(***************************************************************************)
EXTENDS Reactor, TcpProofs

USE TcpAssumption, ReactorAssumption
USE DEF getFd, getInEpoll, getEvent, getREvent, getCurRlen, getCurWlen,
        BindRecvCallback, BindSendCallback

\* What an object is, but for the ranges of its read buffer and its length.
Objects ==
  [fd : Fds \cup {NoFd}, inetAddr : Clients \cup {InetAddress, ServerAddress},
   inEpoll : BOOLEAN, nonblocking : BOOLEAN,
   event : Masks, revent : SUBSET {"IN", "OUT", "ERR"},
   recvCallback : {"acceptCallback", "recvCallback", Null}, sendCallback : {"sendCallback", Null},
   rbuffer : [Slots -> Int], rlen : Int,
   wbuffer : [Slots -> {Garbage}], wlen : {0}]

\* The part of TypeOK that does not depend on how much is read and written.
Types == /\ Streams
         /\ server \in ServerStates
         /\ interest \in [Fds -> Masks]
         /\ ready \subseteq Fds
         /\ connMap \in [Fds \cup {NoFd} -> Objs \cup {Null}]
         /\ DOMAIN conn \subseteq Objs
         /\ conn \in [DOMAIN conn -> Objects]
         /\ openFds \subseteq ClientFds
         /\ batch \subseteq Objs
         /\ cur \in Clients \cup {Null}

\* How far main() is, and what then exists.
BootPhase ==
  /\ server \in {"boot", "listening"} =>
       /\ DOMAIN conn \subseteq {Listener}
       /\ \A o \in DOMAIN conn : ~conn[o].inEpoll
       /\ ready = {} /\ batch = {} /\ cur = Null
  /\ server = "listening" => Listener \in DOMAIN conn
  /\ server = "up" => Listener \in DOMAIN conn /\ conn[Listener].inEpoll

\* The object of the listening socket.
ListenerObject ==
  Listener \in DOMAIN conn =>
    /\ conn[Listener].fd = ListenFd
    /\ conn[Listener].inEpoll => /\ conn[Listener].event = {"IN", "ET"}
                                 /\ conn[Listener].recvCallback = "acceptCallback"

\* The objects of clients: those of the accepted ones, completely set up.
ClientObjects ==
  \A c \in Clients :
    /\ c \in DOMAIN conn <=> link[c] = "accepted"
    /\ c \in DOMAIN conn =>
         /\ conn[c].fd \in ClientFds
         /\ conn[c].inEpoll /\ conn[c].nonblocking
         /\ conn[c].event # {}
         /\ conn[c].recvCallback = "recvCallback" /\ conn[c].sendCallback = "sendCallback"

\* The objects that a failed accept() leaves.
FailureObjects == \A z \in Failures \cap DOMAIN conn : conn[z].fd = NoFd

\* From the object to the map and the kernel: an object with a descriptor that is
\* flagged is entered under it, and registered for what it asks for.
Registered ==
  \A o \in DOMAIN conn : conn[o].inEpoll /\ conn[o].fd \in Fds =>
    connMap[conn[o].fd] = o /\ interest[conn[o].fd] = conn[o].event

\* And back: an entry is of a live, flagged object with this descriptor, and what is
\* registered is entered.
Entries ==
  /\ \A f \in Fds \cup {NoFd} : connMap[f] # Null =>
       connMap[f] \in DOMAIN conn /\ conn[connMap[f]].fd = f /\ conn[connMap[f]].inEpoll
  /\ \A f \in Fds : interest[f] # {} => connMap[f] # Null
  /\ \A f \in ready : interest[f] # {}

\* The open descriptors are those of the accepted clients.
Descriptors == openFds = {conn[c].fd : c \in Accepted}

\* What is left of the batch are live objects with an event they still ask for.
Batch ==
  /\ \A o \in batch :
       /\ o \in DOMAIN conn /\ o \notin Failures /\ conn[o].inEpoll
       /\ conn[o].revent \cap {"IN", "OUT"} # {}
       /\ conn[o].revent \cap {"IN", "OUT"} \subseteq conn[o].event
  /\ cur # Null => cur \in DOMAIN conn /\ cur \notin batch /\ conn[cur].event = {"IN", "ET"}

\* The events of the listening socket that are still to be handled.
Pending == Cardinality({ListenFd} \cap ready) + Cardinality({Listener} \cap batch)
Arrived == {c \in Clients : link[c] # "idle"}

\* Each has its own connection in the accept queue, and each failed accept() had one too.
Counted == /\ Len(backlog) >= Pending
           /\ Cardinality(Failures \cap DOMAIN conn) + Pending <= Cardinality(Arrived)

\* The inductive invariant.
IInv == /\ Types /\ BootPhase /\ Queue
        /\ ListenerObject /\ ClientObjects /\ FailureObjects
        /\ Registered /\ Entries /\ Descriptors
        /\ Batch /\ Counted
-----------------------------------------------------------------------------
(* Operators of the model. *)

\* The descriptor that socket() or accept() returns is a free one.
LEMMA LowestFree ==
  ASSUME FreeFds # {}
  PROVE  LowestFd \in FreeFds
<1>1. FreeFds \subseteq Nat
  BY DEF FreeFds, ClientFds
<1>2. \E f \in FreeFds : \A g \in FreeFds : f <= g
  BY <1>1, Least
<1> QED BY <1>2 DEF LowestFd

\* Storing an object changes it alone.
LEMMA Storing ==
  ASSUME NEW o, NEW c, Store(o, c)
  PROVE  /\ DOMAIN conn' = DOMAIN conn \cup {o}
         /\ conn'[o] = c
         /\ \A x \in DOMAIN conn : x # o => conn'[x] = conn[x]
BY DEF Store

\* Storing keeps conn a map to objects.
LEMMA StoringTyped ==
  ASSUME NEW o, NEW c \in Objects, Store(o, c), conn \in [DOMAIN conn -> Objects]
  PROVE  conn' \in [DOMAIN conn' -> Objects]
BY DEF Store

\* A buffer that was never written.
Blank == [i \in Slots |-> Garbage]

\* The constructor of Connection: what a new object is.
LEMMA NewObjectFields ==
  ASSUME NEW fd \in Fds \cup {NoFd}, NEW a \in Clients \cup {InetAddress, ServerAddress}
  PROVE  LET c == NewObject(fd, a) IN
         /\ c \in Objects
         /\ c.fd = fd /\ ~c.inEpoll /\ c.revent = {}
         /\ c.rlen = 0 /\ c.rbuffer = Blank
BY DEF NewObject, Objects, Slots, Garbage, Masks, Blank

\* The fields that epoll and the loop depend on, but for the events returned.
SameShape(c, d) == /\ d.fd = c.fd /\ d.inEpoll = c.inEpoll /\ d.nonblocking = c.nonblocking
                   /\ d.event = c.event
                   /\ d.recvCallback = c.recvCallback /\ d.sendCallback = c.sendCallback

\* The setters of Connection, from here on: what each sets and what it leaves.
LEMMA SetEventFields ==
  ASSUME NEW c \in Objects, NEW m \in Masks
  PROVE  LET d == setEvent(c, m) IN
         /\ d \in Objects
         /\ d.event = m
         /\ d.fd = c.fd /\ d.inEpoll = c.inEpoll /\ d.nonblocking = c.nonblocking
         /\ d.revent = c.revent /\ d.rlen = c.rlen /\ d.rbuffer = c.rbuffer
         /\ d.recvCallback = c.recvCallback /\ d.sendCallback = c.sendCallback
BY DEF setEvent, Objects

\* setREvent: the events that epoll_wait returned, the rest is left.
LEMMA SetREventFields ==
  ASSUME NEW c \in Objects, NEW m \in SUBSET {"IN", "OUT", "ERR"}
  PROVE  LET d == setREvent(c, m) IN
         /\ d \in Objects
         /\ d.revent = m
         /\ d.fd = c.fd /\ d.inEpoll = c.inEpoll /\ d.nonblocking = c.nonblocking
         /\ d.event = c.event /\ d.rlen = c.rlen /\ d.rbuffer = c.rbuffer
         /\ d.recvCallback = c.recvCallback /\ d.sendCallback = c.sendCallback
BY DEF setREvent, Objects

\* setInEpoll: the flag that Epoll::updateConnection sets, the rest is left.
LEMMA SetInEpollFields ==
  ASSUME NEW c \in Objects
  PROVE  LET d == setInEpoll(c) IN
         /\ d \in Objects
         /\ d.inEpoll
         /\ d.fd = c.fd /\ d.nonblocking = c.nonblocking
         /\ d.event = c.event /\ d.revent = c.revent
         /\ d.rlen = c.rlen /\ d.rbuffer = c.rbuffer
         /\ d.recvCallback = c.recvCallback /\ d.sendCallback = c.sendCallback
BY DEF setInEpoll, Objects

\* setNonBlocking: fcntl has no effect on a failed descriptor.
LEMMA SetNonBlockingFields ==
  ASSUME NEW c \in Objects
  PROVE  LET d == setNonBlocking(c) IN
         /\ d \in Objects
         /\ d.nonblocking = (c.fd # NoFd)
         /\ d.fd = c.fd /\ d.inEpoll = c.inEpoll
         /\ d.event = c.event /\ d.revent = c.revent
         /\ d.rlen = c.rlen /\ d.rbuffer = c.rbuffer
         /\ d.recvCallback = c.recvCallback /\ d.sendCallback = c.sendCallback
BY DEF setNonBlocking, Objects

\* setRecvCallback: the callback for EPOLLIN, the rest is left.
LEMMA SetRecvCallbackFields ==
  ASSUME NEW c \in Objects, NEW f \in {"acceptCallback", "recvCallback"}
  PROVE  LET d == setRecvCallback(c, f) IN
         /\ d \in Objects
         /\ d.recvCallback = f
         /\ d.fd = c.fd /\ d.inEpoll = c.inEpoll /\ d.nonblocking = c.nonblocking
         /\ d.event = c.event /\ d.revent = c.revent
         /\ d.rlen = c.rlen /\ d.rbuffer = c.rbuffer /\ d.sendCallback = c.sendCallback
BY DEF setRecvCallback, Objects

\* setSendCallback: the callback for EPOLLOUT, the rest is left.
LEMMA SetSendCallbackFields ==
  ASSUME NEW c \in Objects
  PROVE  LET d == setSendCallback(c, "sendCallback") IN
         /\ d \in Objects
         /\ d.sendCallback = "sendCallback"
         /\ d.fd = c.fd /\ d.inEpoll = c.inEpoll /\ d.nonblocking = c.nonblocking
         /\ d.event = c.event /\ d.revent = c.revent
         /\ d.rlen = c.rlen /\ d.rbuffer = c.rbuffer /\ d.recvCallback = c.recvCallback
BY DEF setSendCallback, Objects

\* setRLen: the length that recvCallback keeps, the rest is left.
LEMMA SetRLenFields ==
  ASSUME NEW c \in Objects, NEW n \in Int
  PROVE  LET d == setRLen(c, n) IN
         /\ d \in Objects /\ SameShape(c, d)
         /\ d.revent = c.revent /\ d.rlen = n /\ d.rbuffer = c.rbuffer
BY DEF setRLen, Objects, SameShape

\* setRBuffer: what recv() has put into the buffer, the rest is left.
LEMMA SetRBufferFields ==
  ASSUME NEW c \in Objects, NEW b \in [Slots -> Int]
  PROVE  LET d == setRBuffer(c, b) IN
         /\ d \in Objects /\ SameShape(c, d)
         /\ d.revent = c.revent /\ d.rlen = c.rlen /\ d.rbuffer = b
BY DEF setRBuffer, Objects, SameShape

\* rBufferClear: bzero of the buffer; rlen is not reset.
LEMMA RBufferClearFields ==
  ASSUME NEW c \in Objects
  PROVE  LET d == rBufferClear(c) IN
         /\ d \in Objects /\ SameShape(c, d)
         /\ d.revent = c.revent /\ d.rlen = c.rlen /\ d.rbuffer = Zeroed
BY DEF rBufferClear, Objects, SameShape, Zeroed

\* The Connection that acceptCallback makes.
LEMMA NewConnectionFields ==
  ASSUME NEW fd \in Fds \cup {NoFd}, NEW a \in Clients \cup {InetAddress}
  PROVE  LET n == setSendCallback(setRecvCallback(
                    setEvent(setNonBlocking(NewObject(fd, a)), {"IN", "ET"}),
                    "recvCallback"), "sendCallback") IN
         /\ n \in Objects
         /\ n.fd = fd /\ ~n.inEpoll /\ n.nonblocking = (fd # NoFd)
         /\ n.event = {"IN", "ET"} /\ n.revent = {}
         /\ n.rlen = 0 /\ n.rbuffer = Blank
         /\ n.recvCallback = "recvCallback" /\ n.sendCallback = "sendCallback"
<1> DEFINE c0 == NewObject(fd, a)
           c1 == setNonBlocking(c0)
           c2 == setEvent(c1, {"IN", "ET"})
           c3 == setRecvCallback(c2, "recvCallback")
<1>1. /\ c0 \in Objects /\ c0.fd = fd /\ ~c0.inEpoll
      /\ c0.rlen = 0 /\ c0.rbuffer = Blank /\ c0.revent = {}
  BY NewObjectFields
<1>2. {"IN", "ET"} \in Masks
  BY DEF Masks
<1> HIDE DEF c0
<1>3. /\ c1 \in Objects /\ c1.fd = fd /\ ~c1.inEpoll
      /\ c1.rlen = 0 /\ c1.rbuffer = Blank /\ c1.revent = {}
      /\ c1.nonblocking = (fd # NoFd)
  BY <1>1, SetNonBlockingFields
<1> HIDE DEF c1
<1>4. /\ c2 \in Objects /\ c2.fd = fd /\ ~c2.inEpoll
      /\ c2.rlen = 0 /\ c2.rbuffer = Blank /\ c2.revent = {}
      /\ c2.nonblocking = (fd # NoFd) /\ c2.event = {"IN", "ET"}
  BY <1>2, <1>3, SetEventFields
<1> HIDE DEF c2
<1>5. /\ c3 \in Objects /\ c3.fd = fd /\ ~c3.inEpoll
      /\ c3.rlen = 0 /\ c3.rbuffer = Blank /\ c3.revent = {}
      /\ c3.nonblocking = (fd # NoFd) /\ c3.event = {"IN", "ET"}
      /\ c3.recvCallback = "recvCallback"
  BY <1>4, SetRecvCallbackFields
<1> HIDE DEF c3
<1>6. LET c == setSendCallback(c3, "sendCallback") IN
      /\ c \in Objects
      /\ c.fd = fd /\ ~c.inEpoll /\ c.nonblocking = (fd # NoFd)
      /\ c.event = {"IN", "ET"} /\ c.revent = {}
      /\ c.rlen = 0 /\ c.rbuffer = Blank
      /\ c.recvCallback = "recvCallback" /\ c.sendCallback = "sendCallback"
  BY <1>5, SetSendCallbackFields
<1> QED BY <1>6 DEF c0, c1, c2, c3
-----------------------------------------------------------------------------
(* What an action does to the structure. *)

\* The objects and their sharing with epoll, as one formula.
Structure == /\ ListenerObject /\ ClientObjects /\ FailureObjects
             /\ Registered /\ Entries /\ Descriptors

\* Most actions leave the fields that epoll depends on, and what is registered, alone.
LEMMA StructureKept ==
  ASSUME IInv,
         \A c \in Clients : link'[c] = "accepted" <=> link[c] = "accepted",
         DOMAIN conn' = DOMAIN conn,
         \A o \in DOMAIN conn : SameShape(conn[o], conn'[o]),
         UNCHANGED <<interest, connMap, openFds>>,
         \A f \in ready' : interest[f] # {}
  PROVE  Structure'
<1> USE DEF SameShape
<1>1. ListenerObject'
  BY DEF IInv, ListenerObject
<1>2. ClientObjects'
  BY DEF IInv, ClientObjects
<1>3. FailureObjects'
  BY DEF IInv, FailureObjects
<1>4. Registered'
  BY DEF IInv, Registered
<1>5. Entries'
  BY DEF IInv, Entries, Types, Streams
<1>6. Descriptors'
  BY DEF IInv, Descriptors, Accepted
<1> QED BY <1>1, <1>2, <1>3, <1>4, <1>5, <1>6 DEF Structure

\* The effect of updateConnection on object o, whose fields are c.
LEMMA Updating ==
  ASSUME Types, NEW o \in Objs, NEW c \in Objects, NEW input,
         UpdateConnection(o, c, input)
  PROVE  /\ DOMAIN conn' = DOMAIN conn \cup {o}
         /\ conn' \in [DOMAIN conn' -> Objects]
         /\ SameShape(setInEpoll(c), conn'[o])
         /\ conn'[o].revent = c.revent /\ conn'[o].rlen = c.rlen /\ conn'[o].rbuffer = c.rbuffer
         /\ \A x \in DOMAIN conn : x # o => conn'[x] = conn[x]
         /\ connMap' = IF c.inEpoll THEN connMap ELSE [connMap EXCEPT ![c.fd] = o]
         /\ \A f \in Fds : interest'[f] = IF f = c.fd THEN c.event ELSE interest[f]
         /\ interest' \in [Fds -> Masks] /\ ready' \subseteq Fds
         /\ \A f \in Fds : f # c.fd => (f \in ready' <=> f \in ready)
<1>1. CtlSet(c.fd, c.event, input) /\ Store(o, setInEpoll(c))
  BY DEF UpdateConnection
<1>2. setInEpoll(c) \in Objects
  BY SetInEpollFields
<1>3. /\ DOMAIN conn' = DOMAIN conn \cup {o}
      /\ conn'[o] = setInEpoll(c)
      /\ \A x \in DOMAIN conn : x # o => conn'[x] = conn[x]
  BY <1>1, Storing
<1>4. conn' \in [DOMAIN conn' -> Objects]
  BY <1>1, <1>2, StoringTyped DEF Types, Streams
<1>5. SameShape(setInEpoll(c), conn'[o])
  BY <1>3 DEF SameShape
<1>6. conn'[o].revent = c.revent /\ conn'[o].rlen = c.rlen /\ conn'[o].rbuffer = c.rbuffer
  BY <1>3, SetInEpollFields
<1>7. c.event \in Masks /\ c.fd \in Fds \cup {NoFd}
  BY DEF Objects
<1>8. /\ \A f \in Fds : interest'[f] = IF f = c.fd THEN c.event ELSE interest[f]
      /\ interest' \in [Fds -> Masks] /\ ready' \subseteq Fds
      /\ \A f \in Fds : f # c.fd => (f \in ready' <=> f \in ready)
  <2>1. CASE c.fd \in Fds
    <3>1. /\ interest' = [interest EXCEPT ![c.fd] = c.event]
          /\ ready' = ready \cup {c.fd} \/ ready' = ready \ {c.fd}
      BY <1>1, <2>1 DEF CtlSet
    <3>2. interest \in [Fds -> Masks] /\ ready \subseteq Fds
      BY DEF Types
    <3>3. ready' \subseteq Fds /\ \A f \in Fds : f # c.fd => (f \in ready' <=> f \in ready)
      BY <2>1, <3>1, <3>2
    <3>4. /\ interest' \in [Fds -> Masks]
          /\ \A f \in Fds : interest'[f] = IF f = c.fd THEN c.event ELSE interest[f]
      BY <1>7, <3>1, <3>2
    <3> QED BY <3>3, <3>4
  <2>2. CASE c.fd \notin Fds
    BY <1>1, <1>7, <2>2 DEF CtlSet, Types, Streams
  <2> QED BY <2>1, <2>2
<1> QED BY <1>3, <1>4, <1>5, <1>6, <1>8 DEF UpdateConnection

\* An object that is already entered keeps its descriptor; one that is not yet must
\* have a descriptor of its own.
MayUpdate(o, c) ==
  IF c.inEpoll
  THEN o \in DOMAIN conn /\ conn[o].inEpoll /\ conn[o].fd = c.fd /\ c.fd \in Fds
  ELSE \A x \in DOMAIN conn : conn[x].inEpoll => x # o /\ (conn[x].fd # c.fd \/ c.fd = NoFd)

\* updateConnection keeps the map, the interest list and the objects together.
LEMMA UpdatedEntries ==
  ASSUME IInv, NEW o \in Objs, NEW c \in Objects, NEW input,
         UpdateConnection(o, c, input), c.event # {}, MayUpdate(o, c)
  PROVE  Registered' /\ Entries'
<1>1. /\ DOMAIN conn' = DOMAIN conn \cup {o}
      /\ SameShape(setInEpoll(c), conn'[o])
      /\ \A x \in DOMAIN conn : x # o => conn'[x] = conn[x]
      /\ connMap' = IF c.inEpoll THEN connMap ELSE [connMap EXCEPT ![c.fd] = o]
      /\ \A f \in Fds : interest'[f] = IF f = c.fd THEN c.event ELSE interest[f]
      /\ ready' \subseteq Fds
      /\ \A f \in Fds : f # c.fd => (f \in ready' <=> f \in ready)
  BY Updating DEF IInv
<1>2. conn'[o].fd = c.fd /\ conn'[o].inEpoll /\ conn'[o].event = c.event
  BY <1>1, SetInEpollFields DEF SameShape
<1>3. c.fd \in Fds \cup {NoFd}
  BY DEF Objects
<1>4. connMap \in [Fds \cup {NoFd} -> Objs \cup {Null}] /\ DOMAIN conn \subseteq Objs
  BY DEF IInv, Types, Streams
<1>5. Registered /\ Entries
  BY DEF IInv
<1>6. ASSUME NEW x \in DOMAIN conn', conn'[x].inEpoll, conn'[x].fd \in Fds
      PROVE  connMap'[conn'[x].fd] = x /\ interest'[conn'[x].fd] = conn'[x].event
  <2>1. CASE x = o
    <3>1. c.fd \in Fds /\ conn'[x].fd = c.fd /\ conn'[x].event = c.event
      BY <1>2, <1>6, <2>1
    <3>2. connMap'[c.fd] = o
      <4>1. CASE c.inEpoll
        BY <1>1, <1>5, <4>1 DEF MayUpdate, Registered
      <4>2. CASE ~c.inEpoll
        BY <1>1, <1>3, <1>4, <4>2
      <4> QED BY <4>1, <4>2
    <3> QED BY <1>1, <2>1, <3>1, <3>2
  <2>2. CASE x # o
    <3>1. /\ x \in DOMAIN conn /\ conn'[x] = conn[x]
          /\ connMap[conn[x].fd] = x /\ interest[conn[x].fd] = conn[x].event
      BY <1>1, <1>5, <1>6, <2>2 DEF Registered
    <3>2. conn[x].fd # c.fd
      BY <1>5, <1>6, <2>2, <3>1 DEF MayUpdate, Registered
    <3>3. conn[x].fd \in Fds /\ conn[x].fd \in Fds \cup {NoFd}
      BY <1>6, <3>1
    <3>4. connMap'[conn[x].fd] = connMap[conn[x].fd]
      BY <1>1, <1>3, <1>4, <3>2, <3>3
    <3>5. interest'[conn[x].fd] = interest[conn[x].fd]
      BY <1>1, <3>2, <3>3
    <3> QED BY <3>1, <3>4, <3>5
  <2> QED BY <2>1, <2>2
<1>7. ASSUME NEW f \in Fds \cup {NoFd}, connMap'[f] # Null
      PROVE  /\ connMap'[f] \in DOMAIN conn'
             /\ conn'[connMap'[f]].fd = f /\ conn'[connMap'[f]].inEpoll
  <2>1. CASE ~c.inEpoll /\ f = c.fd
    BY <1>1, <1>2, <1>4, <2>1
  <2>2. CASE c.inEpoll \/ f # c.fd
    <3>1. connMap'[f] = connMap[f]
      BY <1>1, <1>4, <2>2
    <3>2. /\ connMap[f] \in DOMAIN conn
          /\ conn[connMap[f]].fd = f /\ conn[connMap[f]].inEpoll
      BY <1>5, <1>7, <3>1 DEF Entries
    <3>3. CASE connMap[f] # o
      BY <1>1, <3>1, <3>2, <3>3
    <3>4. CASE connMap[f] = o
      BY <1>1, <1>2, <3>1, <3>2, <3>4 DEF MayUpdate
    <3> QED BY <3>3, <3>4
  <2> QED BY <2>1, <2>2
<1>8. ASSUME NEW f \in Fds, interest'[f] # {}
      PROVE  connMap'[f] # Null
  <2>1. CASE f = c.fd
    <3>1. connMap'[f] = o
      BY <1>1, <1>3, <1>4, <1>5, <2>1 DEF MayUpdate, Registered
    <3> QED BY <3>1
  <2>2. CASE f # c.fd
    BY <1>1, <1>4, <1>5, <1>8, <2>2 DEF Entries
  <2> QED BY <2>1, <2>2
<1>9. ASSUME NEW f \in ready'
      PROVE  interest'[f] # {}
  BY <1>1, <1>5, <1>9 DEF Entries
<1> QED BY <1>6, <1>7, <1>8, <1>9 DEF Registered, Entries
-----------------------------------------------------------------------------
(* Counting the events of the listening socket. *)

\* The sets that are counted are finite, and their sizes are numbers.
LEMMA Counts ==
  ASSUME IInv
  PROVE  /\ Pending = (IF ListenFd \in ready THEN 1 ELSE 0) + (IF Listener \in batch THEN 1 ELSE 0)
         /\ Pending' = (IF ListenFd \in ready' THEN 1 ELSE 0)
                       + (IF Listener \in batch' THEN 1 ELSE 0)
         /\ IsFiniteSet(Arrived) /\ Cardinality(Arrived) \in Nat
         /\ IsFiniteSet(Arrived') /\ Cardinality(Arrived') \in Nat
         /\ IsFiniteSet(Failures) /\ Cardinality(Failures) = Cardinality(Clients)
         /\ IsFiniteSet(Failures \cap DOMAIN conn) /\ Cardinality(Failures \cap DOMAIN conn) \in Nat
         /\ Cardinality(Clients) \in Nat
         /\ Cardinality(Arrived) <= Cardinality(Clients)
         /\ Len(backlog) \in Nat
<1>1. Cardinality(Clients) \in Nat
  BY FS_CardinalityType
<1>2. Arrived \subseteq Clients /\ Arrived' \subseteq Clients
  BY DEF Arrived
<1>3. IsFiniteSet(Failures) /\ Cardinality(Failures) = Cardinality(Clients)
  BY <1>1, FS_Interval DEF Failures
<1>4. Failures \cap DOMAIN conn \subseteq Failures
  OBVIOUS
<1>5. /\ IsFiniteSet(Arrived) /\ IsFiniteSet(Arrived') /\ IsFiniteSet(Failures \cap DOMAIN conn)
      /\ Cardinality(Arrived) <= Cardinality(Clients)
  BY <1>2, <1>3, <1>4, FS_Subset
<1>6. Len(backlog) \in Nat
  BY DEF IInv, Types, Streams
<1> QED BY <1>1, <1>3, <1>5, <1>6, OneOrNone, FS_CardinalityType DEF Pending

\* No new event, no new failure and no shorter queue: what is counted still fits.
LEMMA CountedKept ==
  ASSUME IInv, Pending' <= Pending,
         backlog' = backlog, Arrived \subseteq Arrived',
         Failures \cap DOMAIN conn' = Failures \cap DOMAIN conn
  PROVE  Counted'
<1>1. Counted
  BY DEF IInv
<1>2. Pending' <= Pending /\ Pending \in Nat /\ Pending' \in Nat
  BY Counts
<1>3. Cardinality(Arrived) <= Cardinality(Arrived')
  BY Counts, FS_Subset
<1>4. Cardinality(Failures \cap DOMAIN conn') = Cardinality(Failures \cap DOMAIN conn)
  OBVIOUS
<1>5. /\ Cardinality(Failures \cap DOMAIN conn) \in Nat /\ Len(backlog) \in Nat
      /\ Cardinality(Arrived) \in Nat /\ Cardinality(Arrived') \in Nat
  BY Counts
<1> HIDE DEF Pending, Arrived
<1> QED BY <1>1, <1>2, <1>3, <1>4, <1>5 DEF Counted
-----------------------------------------------------------------------------
(* The steps, one lemma for each action or group of actions with the same effect. *)

\* The process ends: BootFailure, LoopCheck, SendKilled.
LEMMA EndStep ==
  ASSUME IInv, server' \in {"failed", "loopcheck", "sigpipe"}, batch' \subseteq batch,
         UNCHANGED <<tcpVars, epollVars, conn, openFds, cur>>
  PROVE  IInv'
<1> USE DEF tcpVars, epollVars
<1>1. Structure'
  <2>1. \A o \in DOMAIN conn : SameShape(conn[o], conn'[o])
    BY DEF SameShape
  <2> QED BY <2>1, StructureKept DEF IInv, Entries
<1>2. Types'
  BY DEF IInv, Types, Streams, ServerStates
<1>3. BootPhase' /\ Queue' /\ Batch'
  BY DEF IInv, BootPhase, Queue, Batch
<1>4. Counted'
  <2>1. Pending' <= Pending
    BY Counts
  <2> QED BY <2>1, CountedKept DEF Arrived
<1> QED BY <1>1, <1>2, <1>3, <1>4 DEF IInv, Structure

\* Connect: the queue gets longer, and at most one event more.
LEMMA ConnectStep ==
  ASSUME IInv, NEW c \in Clients, Connect(c)
  PROVE  IInv'
<1>1. /\ TcpConnect(c)
      /\ ready' = ready \/ (ready' = ready \cup {ListenFd} /\ "IN" \in interest[ListenFd])
      /\ server \in {"listening", "up"}
      /\ UNCHANGED <<interest, connMap, conn, openFds, server, batch, cur>>
  BY DEF Connect, Wake
<1>2. /\ Streams' /\ Queue'
      /\ Len(backlog) \in Nat /\ Len(backlog') = Len(backlog) + 1
      /\ link[c] = "idle"
      /\ \A x \in Clients : link'[x] = IF x = c THEN "queued" ELSE link[x]
  BY <1>1, ConnectQueue DEF IInv, Types
<1>3. Structure'
  <2>1. \A o \in DOMAIN conn : SameShape(conn[o], conn'[o])
    BY <1>1 DEF SameShape
  <2>2. \A f \in ready' : interest[f] # {}
    BY <1>1 DEF IInv, Entries
  <2>3. \A x \in Clients : link'[x] = "accepted" <=> link[x] = "accepted"
    BY <1>2
  <2> QED BY <1>1, <2>1, <2>2, <2>3, StructureKept
<1>4. Types'
  BY <1>1, <1>2 DEF IInv, Types
<1>5. BootPhase'
  BY <1>1 DEF IInv, BootPhase, Entries, Types
<1>6. Batch'
  BY <1>1 DEF IInv, Batch
<1>7. Counted'
  <2>1. Arrived' = Arrived \cup {c} /\ c \notin Arrived
    BY <1>2 DEF Arrived
  <2>2. Cardinality(Arrived') = Cardinality(Arrived) + 1
    BY <2>1, Counts, FS_AddElement
  <2>3. Pending' <= Pending + 1 /\ Pending \in Nat /\ Pending' \in Nat
    BY <1>1, Counts
  <2> QED BY <1>1, <1>2, <2>2, <2>3, Counts DEF IInv, Counted
<1> QED BY <1>2, <1>3, <1>4, <1>5, <1>6, <1>7 DEF IInv, Structure

\* Arrival: a descriptor may become ready, if it is registered for input.
LEMMA ArrivalStep ==
  ASSUME IInv, NEW c \in Clients, Arrival(c)
  PROVE  IInv'
<1>1. /\ Streams'
      /\ UNCHANGED <<link, backlog, readN, echoed, interest, connMap, conn, openFds, server,
                     batch, cur>>
  BY ArrivalStreams DEF Arrival, IInv, Types
<1>2. \/ ready' = ready
      \/ /\ c \in DOMAIN conn /\ conn[c].fd \in Fds
         /\ ready' = ready \cup {conn[c].fd} /\ interest[conn[c].fd] # {}
  BY DEF Arrival, Wake
<1>3. ListenFd \in ready' => ListenFd \in ready
  BY <1>2 DEF IInv, ClientObjects, ClientFds
<1>4. Structure'
  <2>1. \A o \in DOMAIN conn : SameShape(conn[o], conn'[o])
    BY <1>1 DEF SameShape
  <2>2. \A f \in ready' : interest[f] # {}
    BY <1>2 DEF IInv, Entries
  <2> QED BY <1>1, <2>1, <2>2, StructureKept
<1>5. Types'
  BY <1>1, <1>2 DEF IInv, Types
<1>6. BootPhase'
  BY <1>1, <1>2 DEF IInv, BootPhase, ClientObjects
<1>7. Queue' /\ Batch'
  BY <1>1 DEF IInv, Queue, Batch
<1>8. Counted'
  <2>1. Pending' <= Pending
    BY <1>1, <1>3, Counts
  <2> QED BY <1>1, <2>1, CountedKept DEF Arrived
<1> QED BY <1>4, <1>5, <1>6, <1>7, <1>8 DEF IInv, Structure

\* While main() is not past the constructor, nothing is registered.
LEMMA NothingRegistered ==
  ASSUME IInv, server \in {"boot", "listening"}
  PROVE  /\ \A f \in Fds \cup {NoFd} : connMap[f] = Null
         /\ \A f \in Fds : interest[f] = {}
         /\ DOMAIN conn \subseteq {Listener}
         /\ ready = {} /\ batch = {} /\ cur = Null
BY DEF IInv, BootPhase, Entries

\* BootListen: the object of the listening socket, not yet known to epoll.
LEMMA BootListenStep ==
  ASSUME IInv, BootListen
  PROVE  IInv'
<1> DEFINE s == NewObject(ListenFd, ServerAddress)
<1>1. /\ server = "boot" /\ server' = "listening" /\ Store(Listener, s)
      /\ UNCHANGED <<link, backlog, sentN, readN, peer, echoed, interest, ready, connMap,
                     openFds, batch, cur>>
  BY DEF BootListen, tcpVars, epollVars
<1>2. s \in Objects /\ s.fd = ListenFd /\ ~s.inEpoll
  BY NewObjectFields
<1> HIDE DEF s
<1>3. Listener \in Objs /\ Listener \notin Clients /\ Listener \notin Failures
  BY DEF Objs
<1>4. DOMAIN conn' = {Listener} /\ conn'[Listener] = s /\ conn' \in [DOMAIN conn' -> Objects]
  BY <1>1, <1>2, NothingRegistered, Storing, StoringTyped DEF IInv, Types, Streams
<1>5. Types'
  BY <1>1, <1>3, <1>4 DEF IInv, Types, Streams, ServerStates
<1>6. BootPhase' /\ Queue' /\ Batch'
  BY <1>1, <1>2, <1>4, NothingRegistered DEF IInv, BootPhase, Queue, Batch
<1>7. ListenerObject' /\ FailureObjects' /\ Registered'
  BY <1>2, <1>3, <1>4 DEF ListenerObject, FailureObjects, Registered
<1>8. ClientObjects' /\ Descriptors'
  BY <1>1, <1>3, <1>4, NothingRegistered DEF IInv, ClientObjects, Descriptors, Accepted
<1>9. Entries'
  BY <1>1, NothingRegistered DEF Entries
<1>10. Counted'
  <2>1. Pending' <= Pending
    BY <1>1, Counts
  <2>2. Failures \cap DOMAIN conn' = Failures \cap DOMAIN conn
    BY <1>1, <1>3, <1>4, NothingRegistered
  <2> QED BY <1>1, <2>1, <2>2, CountedKept DEF Arrived
<1> QED BY <1>5, <1>6, <1>7, <1>8, <1>9, <1>10 DEF IInv

\* BootRegister: the listening socket is registered; that it may be ready at once, for
\* the connections that are already queued, is one event.
LEMMA BootRegisterStep ==
  ASSUME IInv, BootRegister
  PROVE  IInv'
<1> DEFINE s0 == setEvent(conn[Listener], {"IN", "ET"})
           s1 == setNonBlocking(s0)
           s  == setRecvCallback(s1, "acceptCallback")
<1>1. /\ server = "listening" /\ server' = "up"
      /\ UpdateConnection(Listener, s, backlog # <<>>)
      /\ UNCHANGED <<link, backlog, sentN, readN, peer, echoed, openFds, batch, cur>>
  BY DEF BootRegister, tcpVars
<1>2. Listener \in Objs /\ Listener \notin Clients /\ Listener \notin Failures
  BY DEF Objs
<1>3. /\ DOMAIN conn = {Listener} /\ conn[Listener] \in Objects
      /\ conn[Listener].fd = ListenFd /\ ~conn[Listener].inEpoll
  <2>1. DOMAIN conn = {Listener} /\ ~conn[Listener].inEpoll
    BY <1>1 DEF IInv, BootPhase
  <2>2. conn \in [DOMAIN conn -> Objects]
    BY DEF IInv, Types, Streams
  <2>3. conn[Listener] \in Objects
    BY <2>1, <2>2
  <2>4. conn[Listener].fd = ListenFd
    BY <2>1 DEF IInv, ListenerObject
  <2> QED BY <2>1, <2>3, <2>4
<1>4. /\ s \in Objects /\ s.fd = ListenFd /\ ~s.inEpoll
      /\ s.event = {"IN", "ET"} /\ s.recvCallback = "acceptCallback"
  <2>1. {"IN", "ET"} \in Masks
    BY DEF Masks
  <2>2. s0 \in Objects /\ s0.fd = ListenFd /\ ~s0.inEpoll /\ s0.event = {"IN", "ET"}
    BY <1>3, <2>1, SetEventFields
  <2> HIDE DEF s0
  <2>3. s1 \in Objects /\ s1.fd = ListenFd /\ ~s1.inEpoll /\ s1.event = {"IN", "ET"}
    BY <2>2, SetNonBlockingFields
  <2> HIDE DEF s1
  <2> QED BY <2>3, SetRecvCallbackFields
<1> HIDE DEF s
<1>5. /\ DOMAIN conn' = {Listener} /\ conn' \in [DOMAIN conn' -> Objects]
      /\ SameShape(setInEpoll(s), conn'[Listener])
      /\ connMap' = [connMap EXCEPT ![ListenFd] = Listener]
      /\ interest' \in [Fds -> Masks] /\ ready' \subseteq Fds
      /\ \A f \in Fds : f # ListenFd => (f \in ready' <=> f \in ready)
  <2>1. Types
    BY DEF IInv
  <2>2. /\ DOMAIN conn' = DOMAIN conn \cup {Listener} /\ conn' \in [DOMAIN conn' -> Objects]
        /\ SameShape(setInEpoll(s), conn'[Listener])
        /\ connMap' = IF s.inEpoll THEN connMap ELSE [connMap EXCEPT ![s.fd] = Listener]
        /\ interest' \in [Fds -> Masks] /\ ready' \subseteq Fds
        /\ \A f \in Fds : f # s.fd => (f \in ready' <=> f \in ready)
    BY <1>1, <1>2, <1>4, <2>1, Updating
  <2> QED BY <1>3, <1>4, <2>2
<1>6. /\ conn'[Listener].fd = ListenFd /\ conn'[Listener].inEpoll
      /\ conn'[Listener].event = {"IN", "ET"} /\ conn'[Listener].recvCallback = "acceptCallback"
  BY <1>4, <1>5, SetInEpollFields DEF SameShape
<1>7. Registered' /\ Entries'
  <2>1. MayUpdate(Listener, s)
    BY <1>3, <1>4 DEF MayUpdate
  <2> QED BY <1>1, <1>2, <1>4, <2>1, UpdatedEntries
<1>8. Types'
  BY <1>1, <1>2, <1>5 DEF IInv, Types, Streams, ServerStates
<1>9. BootPhase' /\ Queue' /\ Batch'
  BY <1>1, <1>5, <1>6, NothingRegistered DEF IInv, BootPhase, Queue, Batch
<1>10. ListenerObject' /\ FailureObjects'
  BY <1>2, <1>5, <1>6 DEF ListenerObject, FailureObjects
<1>11. ClientObjects' /\ Descriptors'
  BY <1>1, <1>2, <1>3, <1>5 DEF IInv, ClientObjects, Descriptors, Accepted
<1>12. Counted'
  <2>1. backlog = <<>> => ready' = {}
    <3>1. CtlSet(ListenFd, {"IN", "ET"}, backlog # <<>>) /\ ready = {}
      BY <1>1, <1>4, NothingRegistered DEF UpdateConnection
    <3> QED BY <3>1 DEF CtlSet
  <2>2. Pending' <= 1 /\ Pending' \in Nat /\ (backlog = <<>> => Pending' = 0)
    BY <1>1, <2>1, NothingRegistered, Counts
  <2>3. Failures \cap DOMAIN conn' = {}
    BY <1>2, <1>5
  <2>4. Cardinality(Failures \cap DOMAIN conn') = 0
    BY <2>3, FS_EmptySet
  <2>5. Cardinality(Arrived') \in Nat
    BY Counts
  <2>6. CASE backlog = <<>>
    BY <1>1, <2>2, <2>4, <2>5, <2>6 DEF Counted
  <2>7. CASE backlog # <<>>
    <3>1. backlog \in Seq(Clients) /\ Len(backlog) \in Nat /\ Len(backlog) >= 1
      BY <2>7 DEF IInv, Types, Streams
    <3>2. backlog[1] \in Arrived'
      BY <1>1, <3>1 DEF IInv, Queue, Arrived
    <3>3. Cardinality(Arrived') # 0
      BY <3>2, Counts, FS_EmptySet
    <3> HIDE DEF Pending, Arrived
    <3> QED BY <1>1, <2>2, <2>4, <2>5, <3>1, <3>3 DEF Counted
  <2> QED BY <2>6, <2>7
<1> QED BY <1>7, <1>8, <1>9, <1>10, <1>11, <1>12 DEF IInv
-----------------------------------------------------------------------------
(* The rounds of the event loop. *)

\* Poll: epoll_wait finds an object for every descriptor it returns, and the listening
\* socket, edge-triggered, leaves the ready list for the batch.
LEMMA PollStep ==
  ASSUME IInv, NEW S \in SUBSET ready, Poll(S)
  PROVE  IInv'
<1>1. /\ server = "up" /\ batch = {} /\ cur = Null
      /\ batch' = {connMap[f] : f \in S}
      /\ UNCHANGED <<link, backlog, sentN, readN, peer, echoed, interest, connMap, openFds,
                     server, cur>>
      /\ S \subseteq Reportable(Input)
      /\ ready' = {f \in Reportable(Input) : f \in S => "ET" \notin interest[f]}
      /\ DOMAIN conn' = DOMAIN conn
      /\ \A o \in DOMAIN conn :
           conn'[o] = IF \E f \in S : connMap[f] = o
                      THEN setREvent(conn[o],
                                 Events(CHOOSE f \in S : connMap[f] = o, Input, Failed))
                      ELSE conn[o]
  BY DEF Poll, Wait, Deliver, tcpVars
<1>2. S \subseteq ready /\ ready' \subseteq ready /\ ready \subseteq Fds
  BY <1>1 DEF Reportable, IInv, Types, Streams
<1>3. \A f \in S : /\ connMap[f] \in DOMAIN conn /\ conn[connMap[f]].fd = f
                   /\ conn[connMap[f]].inEpoll /\ conn[connMap[f]].event = interest[f]
  <2> SUFFICES ASSUME NEW f \in S
               PROVE  /\ connMap[f] \in DOMAIN conn /\ conn[connMap[f]].fd = f
                      /\ conn[connMap[f]].inEpoll /\ conn[connMap[f]].event = interest[f]
    OBVIOUS
  <2>1. f \in Fds /\ interest[f] # {}
    BY <1>2 DEF IInv, Entries
  <2>2. /\ connMap[f] \in DOMAIN conn /\ conn[connMap[f]].fd = f
        /\ conn[connMap[f]].inEpoll
    BY <2>1 DEF IInv, Entries
  <2> QED BY <2>1, <2>2 DEF IInv, Registered
<1>4. \A o \in DOMAIN conn : \A f \in S : connMap[f] = o =>
        conn'[o] = setREvent(conn[o], Events(f, Input, Failed))
  <2> SUFFICES ASSUME NEW o \in DOMAIN conn, NEW f \in S, connMap[f] = o
               PROVE  conn'[o] = setREvent(conn[o], Events(f, Input, Failed))
    OBVIOUS
  <2>1. f = CHOOSE g \in S : connMap[g] = o
    BY <1>3
  <2> QED BY <1>1, <2>1
<1>5. \A o \in DOMAIN conn : conn[o] \in Objects
  BY DEF IInv, Types, Streams
<1>6. \A f : Events(f, Input, Failed) \subseteq {"IN", "OUT", "ERR"}
  BY DEF Events
<1>7. \A o \in DOMAIN conn : conn'[o] \in Objects /\ SameShape(conn[o], conn'[o])
  <2> SUFFICES ASSUME NEW o \in DOMAIN conn
               PROVE  conn'[o] \in Objects /\ SameShape(conn[o], conn'[o])
    OBVIOUS
  <2>1. CASE \E f \in S : connMap[f] = o
    BY <1>4, <1>5, <1>6, <2>1, SetREventFields DEF SameShape
  <2>2. CASE ~\E f \in S : connMap[f] = o
    BY <1>1, <1>5, <2>2 DEF SameShape
  <2> QED BY <2>1, <2>2
<1>8. Structure'
  <2>1. \A f \in ready' : interest[f] # {}
    BY <1>2 DEF IInv, Entries
  <2> QED BY <1>1, <1>7, <2>1, StructureKept
<1>9. Types'
  <2>1. conn' \in [DOMAIN conn' -> Objects]
    <3>1. conn' = [o \in DOMAIN conn |-> conn'[o]]
      BY <1>1 DEF Poll, Wait
    <3> QED BY <1>1, <1>7, <3>1
  <2>2. batch' \subseteq Objs
    BY <1>1, <1>3 DEF IInv, Types, Streams
  <2> QED BY <1>1, <1>2, <2>1, <2>2 DEF IInv, Types, Streams
<1>10. BootPhase' /\ Queue'
  BY <1>1, <1>7 DEF IInv, BootPhase, Queue, SameShape
<1>11. Batch'
  <2> SUFFICES ASSUME NEW f \in S, NEW o, o = connMap[f]
               PROVE  /\ o \in DOMAIN conn' /\ o \notin Failures /\ conn'[o].inEpoll
                      /\ conn'[o].revent \cap {"IN", "OUT"} # {}
                      /\ conn'[o].revent \cap {"IN", "OUT"} \subseteq conn'[o].event
    BY <1>1 DEF Batch
  <2>1. o \in DOMAIN conn /\ conn[o] \in Objects
    BY <1>3, <1>5
  <2>2. conn'[o].revent = Events(f, Input, Failed)
    BY <1>4, <1>6, <2>1, SetREventFields
  <2>3. conn'[o].event = interest[f] /\ conn'[o].inEpoll
    BY <1>3, <1>7, <2>1 DEF SameShape
  <2>4. f \in Reportable(Input)
    BY <1>1
  <2>5. o \notin Failures
    BY <1>2, <1>3, <2>1 DEF IInv, FailureObjects
  <2> QED BY <1>1, <2>1, <2>2, <2>3, <2>4, <2>5 DEF Reportable, Events
<1>12. Counted'
  <2>1. Listener \in batch' => ListenFd \in ready /\ ListenFd \notin ready'
    <3> SUFFICES ASSUME Listener \in batch'
                 PROVE  ListenFd \in ready /\ ListenFd \notin ready'
      OBVIOUS
    <3>1. PICK f \in S : connMap[f] = Listener
      BY <1>1
    <3>2. /\ Listener \in DOMAIN conn /\ conn[Listener].fd = f
          /\ conn[Listener].inEpoll /\ interest[f] = conn[Listener].event
      BY <1>3, <3>1
    <3>3. f = ListenFd /\ "ET" \in interest[f]
      BY <3>2 DEF IInv, ListenerObject
    <3> QED BY <1>1, <1>2, <3>3
  <2>2. Pending' <= Pending
    BY <1>1, <1>2, <2>1, Counts
  <2>3. Arrived \subseteq Arrived' /\ Failures \cap DOMAIN conn' = Failures \cap DOMAIN conn
    BY <1>1 DEF Arrived
  <2> QED BY <1>1, <2>2, <2>3, CountedKept
<1> QED BY <1>8, <1>9, <1>10, <1>11, <1>12 DEF IInv, Structure

\* What it takes for a callback to be run: an event that the object asks for.
LEMMA TurnTaken ==
  ASSUME IInv, NEW o \in Objs, NEW f \in {"acceptCallback", "recvCallback", "sendCallback"},
         Turn(o, f)
  PROVE  /\ server = "up" /\ cur = Null
         /\ o \in batch /\ o \in DOMAIN conn /\ batch' = batch \ {o}
         /\ o \notin Failures /\ conn[o].inEpoll
         /\ f = "recvCallback" => conn[o].event = {"IN", "ET"}
         /\ f = "sendCallback" => conn[o].event = {"OUT"}
<1>1. /\ server = "up" /\ cur = Null /\ o \in batch /\ batch' = batch \ {o}
      /\ Callback(conn[o]) = f
  BY DEF Turn, Without
<1>2. /\ o \in DOMAIN conn /\ o \notin Failures /\ conn[o].inEpoll
      /\ conn[o].revent \cap {"IN", "OUT"} # {}
      /\ conn[o].revent \cap {"IN", "OUT"} \subseteq conn[o].event
  BY <1>1 DEF IInv, Batch
<1>3. conn[o] \in Objects
  BY <1>2 DEF IInv, Types, Streams
<1>4. conn[o].recvCallback \in {"acceptCallback", "recvCallback", Null} /\ conn[o].event \in Masks
      /\ conn[o].sendCallback \in {"sendCallback", Null}
  BY <1>3 DEF Objects
<1>5. f = "recvCallback" => conn[o].event = {"IN", "ET"}
  BY <1>1, <1>2, <1>4 DEF Callback, Masks
<1>6. f = "sendCallback" => conn[o].event = {"OUT"}
  BY <1>1, <1>2, <1>4 DEF Callback, Masks
<1> QED BY <1>1, <1>2, <1>5, <1>6
-----------------------------------------------------------------------------
(* recvCallback *)

\* The buffer after recv(): every slot holds a number.
LEMMA FilledTyped ==
  ASSUME NEW b \in [Slots -> Int], NEW at, NEW c, NEW k, readN \in [Clients -> 0..MaxBytes],
         c \in Clients, at \in Int
  PROVE  Filled(b, at, c, k) \in [Slots -> Int]
<1> SUFFICES ASSUME NEW i \in Slots
             PROVE  Filled(b, at, c, k)[i] \in Int
  BY DEF Filled
<1>1. i \in Int /\ b[i] \in Int /\ DOMAIN b = Slots
  BY DEF Slots
<1>2. readN[c] + i - at + 1 \in Int
  BY <1>1
<1>3. Byte(c, readN[c] + i - at + 1) \in Int
  BY <1>2 DEF Byte, NUL
<1> QED BY <1>1, <1>3 DEF Filled

\* Only the reading side of object c, and who is reading, changes.
LEMMA ReadingStep ==
  ASSUME IInv, NEW c \in Clients, server = "up", c \in DOMAIN conn,
         NEW d \in Objects, Store(c, d), SameShape(conn[c], d), d.revent = conn[c].revent,
         UNCHANGED <<link, backlog, sentN, interest, ready, connMap, openFds, server>>,
         readN' \in [Clients -> 0..MaxBytes],
         peer' \in [Clients -> {"open", "fin", "rst", "gone", "cut"}],
         batch' \subseteq batch, cur' = c, c \notin batch', conn[c].event = {"IN", "ET"}
  PROVE  IInv'
<1>1. /\ DOMAIN conn' = DOMAIN conn
      /\ conn'[c] = d
      /\ \A o \in DOMAIN conn : o # c => conn'[o] = conn[o]
  <2>1. /\ DOMAIN conn' = DOMAIN conn \cup {c}
        /\ conn'[c] = d
        /\ \A o \in DOMAIN conn : o # c => conn'[o] = conn[o]
    BY Storing, Zenon
  <2>2. DOMAIN conn' = DOMAIN conn
    BY <2>1
  <2> QED BY <2>1, <2>2
<1>2. \A o \in DOMAIN conn : SameShape(conn[o], conn'[o]) /\ conn'[o].revent = conn[o].revent
  BY <1>1 DEF SameShape
<1>3. Structure'
  BY <1>1, <1>2, StructureKept DEF IInv, Entries
<1>4. Types'
  <2>1. conn' \in [DOMAIN conn' -> Objects]
    BY StoringTyped DEF IInv, Types, Streams
  <2> QED BY <1>1, <2>1 DEF IInv, Types, Streams
<1>5. BootPhase' /\ Queue'
  BY <1>1, <1>2 DEF IInv, BootPhase, Queue, SameShape
<1>6. Batch'
  <2>1. \A o \in batch' : /\ o \in DOMAIN conn' /\ o \notin Failures /\ conn'[o].inEpoll
                          /\ conn'[o].revent \cap {"IN", "OUT"} # {}
                          /\ conn'[o].revent \cap {"IN", "OUT"} \subseteq conn'[o].event
    BY <1>1 DEF IInv, Batch
  <2>2. cur' \in DOMAIN conn' /\ cur' \notin batch' /\ conn'[cur'].event = {"IN", "ET"}
    BY <1>1, <1>2 DEF SameShape
  <2> QED BY <2>1, <2>2 DEF Batch
<1>7. Counted'
  <2>1. Pending' <= Pending
    BY Counts
  <2> QED BY <1>1, <2>1, CountedKept DEF Arrived
<1> QED BY <1>3, <1>4, <1>5, <1>6, <1>7 DEF IInv, Structure

\* RecvBegin: the Connection's turn comes, and its buffer is cleared.
LEMMA RecvBeginStep ==
  ASSUME IInv, NEW c \in Clients, RecvBegin(c)
  PROVE  IInv'
<1> DEFINE d == rBufferClear(conn[c])
<1>1. /\ Turn(c, "recvCallback") /\ cur' = c /\ Store(c, d)
      /\ UNCHANGED <<link, backlog, sentN, readN, peer, interest, ready, connMap, openFds, server>>
  BY DEF RecvBegin, tcpVars, epollVars
<1>2. /\ server = "up" /\ c \in DOMAIN conn /\ batch' = batch \ {c} /\ conn[c].event = {"IN", "ET"}
  BY <1>1, TurnTaken DEF Objs
<1>3. d \in Objects /\ SameShape(conn[c], d) /\ d.revent = conn[c].revent
  BY <1>2, RBufferClearFields DEF IInv, Types, Streams
<1>4. /\ readN' \in [Clients -> 0..MaxBytes]
      /\ peer' \in [Clients -> {"open", "fin", "rst", "gone", "cut"}]
  BY <1>1 DEF IInv, Types, Streams
<1> HIDE DEF d
<1> QED BY <1>1, <1>2, <1>3, <1>4, ReadingStep

\* What holds while a recvCallback runs.
LEMMA Reading ==
  ASSUME IInv, NEW c \in Clients, cur = c
  PROVE  /\ c \in DOMAIN conn /\ conn[c] \in Objects /\ c \notin batch
         /\ conn[c].event = {"IN", "ET"} /\ conn[c].inEpoll
         /\ link[c] = "accepted"
BY DEF IInv, Batch, Types, Streams, ClientObjects, Objs

\* RecvSome: bytes are put into the buffer.
LEMMA RecvSomeStep ==
  ASSUME IInv, NEW c \in Clients, RecvSome(c)
  PROVE  IInv'
<1> DEFINE k == RecvCount(c, Room(c))
           b == Filled(conn[c].rbuffer, Offset(c), c, k)
           d0 == setRBuffer(conn[c], b)
           n == NewLen(c, k)
           d == setRLen(d0, n)
<1>1. /\ server = "up" /\ cur = c /\ k > 0 /\ Store(c, d)
      /\ readN' = [readN EXCEPT ![c] = @ + k]
      /\ UNCHANGED <<link, backlog, sentN, peer, interest, ready, connMap, openFds, server,
                     batch, cur>>
  BY DEF RecvSome, TcpRecv, epollVars
<1>2. c \in DOMAIN conn /\ conn[c] \in Objects /\ c \notin batch /\ conn[c].event = {"IN", "ET"}
  BY <1>1, Reading
<1>3. conn[c].rbuffer \in [Slots -> Int] /\ conn[c].rlen \in Int /\ Room(c) \in Int
  BY <1>2 DEF Objects, Room
<1>4. k \in Int /\ k <= Unread(c)
  <2>1. sentN[c] \in Int /\ readN[c] \in Int
    BY DEF IInv, Types, Streams
  <2> QED BY <1>3, <2>1, RecvCountBound
<1>5. readN' \in [Clients -> 0..MaxBytes]
  <2>1. /\ readN \in [Clients -> 0..MaxBytes]
        /\ sentN[c] \in 0..MaxBytes /\ readN[c] \in 0..MaxBytes
    BY DEF IInv, Types, Streams
  <2>2. readN[c] + k \in 0..MaxBytes
    BY <1>1, <1>4, <2>1 DEF Unread
  <2> HIDE DEF k
  <2> QED BY <1>1, <2>1, <2>2
<1>6. peer' \in [Clients -> {"open", "fin", "rst", "gone", "cut"}]
  BY <1>1 DEF IInv, Types, Streams
<1>7. b \in [Slots -> Int] /\ n \in Int
  <2> HIDE DEF k
  <2>1. n \in Int /\ Offset(c) \in Int
    BY <1>3, <1>4 DEF Offset, NewLen
  <2>2. readN \in [Clients -> 0..MaxBytes]
    BY DEF IInv, Types, Streams
  <2>3. b \in [Slots -> Int]
    BY <1>3, <2>1, <2>2, FilledTyped
  <2> QED BY <2>1, <2>3
<1> HIDE DEF b, n
<1>8. d0 \in Objects /\ SameShape(conn[c], d0) /\ d0.revent = conn[c].revent
  BY <1>2, <1>7, SetRBufferFields
<1> HIDE DEF d0
<1>9. d \in Objects /\ SameShape(conn[c], d) /\ d.revent = conn[c].revent
  BY <1>7, <1>8, SetRLenFields DEF SameShape
<1> HIDE DEF d, k
<1> QED BY <1>1, <1>2, <1>5, <1>6, <1>9, ReadingStep

\* RecvError: the error of a reset is taken for a length.
LEMMA RecvErrorStep ==
  ASSUME IInv, NEW c \in Clients, RecvError(c)
  PROVE  IInv'
<1> DEFINE n == NewLen(c, -1)
           d == setRLen(conn[c], n)
<1>1. /\ server = "up" /\ cur = c /\ Store(c, d)
      /\ peer' = [peer EXCEPT ![c] = "gone"]
      /\ UNCHANGED <<link, backlog, sentN, readN, interest, ready, connMap, openFds, server,
                     batch, cur>>
  BY DEF RecvError, TcpReportReset, epollVars
<1>2. c \in DOMAIN conn /\ conn[c] \in Objects /\ c \notin batch /\ conn[c].event = {"IN", "ET"}
  BY <1>1, Reading
<1>3. n \in Int
  BY <1>2 DEF NewLen, Objects
<1> HIDE DEF n
<1>4. d \in Objects /\ SameShape(conn[c], d) /\ d.revent = conn[c].revent
  BY <1>2, <1>3, SetRLenFields
<1>5. /\ readN' \in [Clients -> 0..MaxBytes]
      /\ peer' \in [Clients -> {"open", "fin", "rst", "gone", "cut"}]
  BY <1>1 DEF IInv, Types, Streams
<1> HIDE DEF d
<1> QED BY <1>1, <1>2, <1>4, <1>5, ReadingStep

\* RecvEnd: the Connection asks for EPOLLOUT from now on.
LEMMA RecvEndStep ==
  ASSUME IInv, NEW c \in Clients, RecvEnd(c)
  PROVE  IInv'
<1> DEFINE d == setEvent(conn[c], {"OUT"})
<1>1. /\ server = "up" /\ cur = c /\ cur' = Null
      /\ UpdateConnection(c, d, HasInput(c))
      /\ UNCHANGED <<link, backlog, sentN, readN, peer, openFds, server, batch>>
  BY DEF RecvEnd, tcpVars
<1>2. c \in DOMAIN conn /\ conn[c] \in Objects /\ c \notin batch /\ c \in Objs /\ conn[c].inEpoll
  BY <1>1, Reading DEF Objs
<1>3. conn[c].fd \in ClientFds /\ conn[c].fd \in Fds /\ conn[c].fd # ListenFd
  BY <1>2 DEF IInv, ClientObjects, ClientFds
<1>4. {"OUT"} \in Masks
  BY DEF Masks
<1>5. /\ d \in Objects /\ d.event = {"OUT"} /\ d.fd = conn[c].fd /\ d.inEpoll
      /\ d.nonblocking = conn[c].nonblocking /\ d.revent = conn[c].revent
      /\ d.recvCallback = conn[c].recvCallback /\ d.sendCallback = conn[c].sendCallback
  BY <1>2, <1>4, SetEventFields
<1> HIDE DEF d
<1>6. /\ DOMAIN conn' = DOMAIN conn /\ conn' \in [DOMAIN conn' -> Objects]
      /\ SameShape(setInEpoll(d), conn'[c])
      /\ \A x \in DOMAIN conn : x # c => conn'[x] = conn[x]
      /\ connMap' = connMap
      /\ interest' \in [Fds -> Masks] /\ ready' \subseteq Fds
      /\ ListenFd \in ready' <=> ListenFd \in ready
  <2>1. Types
    BY DEF IInv
  <2>2. /\ DOMAIN conn' = DOMAIN conn \cup {c} /\ conn' \in [DOMAIN conn' -> Objects]
        /\ SameShape(setInEpoll(d), conn'[c])
        /\ \A x \in DOMAIN conn : x # c => conn'[x] = conn[x]
        /\ connMap' = IF d.inEpoll THEN connMap ELSE [connMap EXCEPT ![d.fd] = c]
        /\ interest' \in [Fds -> Masks] /\ ready' \subseteq Fds
        /\ \A f \in Fds : f # d.fd => (f \in ready' <=> f \in ready)
    BY <1>1, <1>2, <1>5, <2>1, Updating
  <2> QED BY <1>2, <1>3, <1>5, <2>2
<1>7. /\ conn'[c].fd = conn[c].fd /\ conn'[c].inEpoll /\ conn'[c].event = {"OUT"}
      /\ conn'[c].nonblocking = conn[c].nonblocking
      /\ conn'[c].recvCallback = conn[c].recvCallback
      /\ conn'[c].sendCallback = conn[c].sendCallback
  BY <1>5, <1>6, SetInEpollFields DEF SameShape
<1>8. c \notin Failures /\ c # Listener
  BY <1>2
<1>9. Registered' /\ Entries'
  <2>1. MayUpdate(c, d)
    BY <1>2, <1>3, <1>5 DEF MayUpdate
  <2> QED BY <1>1, <1>2, <1>5, <2>1, UpdatedEntries
<1>10. Types'
  BY <1>1, <1>6 DEF IInv, Types, Streams
<1>11. BootPhase' /\ Queue' /\ Batch'
  BY <1>1, <1>2, <1>6, <1>8 DEF IInv, BootPhase, Queue, Batch
<1>12. ListenerObject' /\ FailureObjects'
  BY <1>6, <1>8 DEF IInv, ListenerObject, FailureObjects
<1>13. ClientObjects'
  BY <1>1, <1>6, <1>7 DEF IInv, ClientObjects
<1>14. Descriptors'
  BY <1>1, <1>6, <1>7 DEF IInv, Descriptors, Accepted
<1>15. Counted'
  <2>1. Pending' <= Pending
    BY <1>1, <1>6, Counts
  <2> QED BY <1>1, <1>6, <2>1, CountedKept DEF Arrived
<1> QED BY <1>9, <1>10, <1>11, <1>12, <1>13, <1>14, <1>15 DEF IInv
-----------------------------------------------------------------------------
(* acceptCallback *)

\* AcceptClient: the new descriptor is no one else's, and the event of the listening
\* socket and the head of the accept queue go together.
LEMMA AcceptClientStep ==
  ASSUME IInv, NEW c \in Clients, AcceptClient(c)
  PROVE  IInv'
<1> DEFINE d == setSendCallback(setRecvCallback(
                  setEvent(setNonBlocking(NewObject(LowestFd, c)), {"IN", "ET"}),
                  "recvCallback"), "sendCallback")
<1>1. /\ Turn(Listener, "acceptCallback") /\ FreeFds # {}
      /\ backlog # <<>> /\ c = Head(backlog) /\ backlog' = Tail(backlog)
      /\ link' = [link EXCEPT ![c] = "accepted"]
      /\ openFds' = openFds \cup {LowestFd}
      /\ UpdateConnection(c, d, HasInput(c))
      /\ UNCHANGED <<sentN, readN, peer, echoed, server, cur>>
  BY DEF AcceptClient, TcpAccept, NewConnection
<1>2. /\ server = "up" /\ cur = Null /\ Listener \in batch /\ Listener \in DOMAIN conn
      /\ batch' = batch \ {Listener}
  BY <1>1, TurnTaken DEF Objs
<1>3. LowestFd \in ClientFds /\ LowestFd \notin openFds /\ LowestFd \in Fds /\ LowestFd # ListenFd
  BY <1>1, LowestFree DEF FreeFds, ClientFds
<1>4. /\ d \in Objects /\ d.fd = LowestFd /\ ~d.inEpoll /\ d.nonblocking
      /\ d.event = {"IN", "ET"}
      /\ d.recvCallback = "recvCallback" /\ d.sendCallback = "sendCallback"
  <2>1. LowestFd \in Fds \cup {NoFd} /\ c \in Clients \cup {InetAddress}
    BY <1>3
  <2>2. /\ d \in Objects
        /\ d.fd = LowestFd /\ ~d.inEpoll /\ d.nonblocking = (LowestFd # NoFd)
        /\ d.event = {"IN", "ET"} /\ d.revent = {}
        /\ d.rlen = 0 /\ d.rbuffer = Blank
        /\ d.recvCallback = "recvCallback" /\ d.sendCallback = "sendCallback"
    <3>1. PICK f : f = LowestFd
      OBVIOUS
    <3>2. PICK a : a = c
      OBVIOUS
    <3>3. PICK n : n = setSendCallback(setRecvCallback(
                         setEvent(setNonBlocking(NewObject(f, a)), {"IN", "ET"}),
                         "recvCallback"), "sendCallback")
      OBVIOUS
    <3>4. f \in Fds \cup {NoFd} /\ a \in Clients \cup {InetAddress}
      BY <2>1, <3>1, <3>2
    <3>5. /\ n \in Objects
          /\ n.fd = f /\ ~n.inEpoll /\ n.nonblocking = (f # NoFd)
          /\ n.event = {"IN", "ET"} /\ n.revent = {}
          /\ n.rlen = 0 /\ n.rbuffer = Blank
          /\ n.recvCallback = "recvCallback" /\ n.sendCallback = "sendCallback"
      BY <3>3, <3>4, NewConnectionFields
    <3>6. d = n
      BY <3>1, <3>2, <3>3, Zenon
    <3> QED BY <3>1, <3>5, <3>6, Zenon
  <2>3. LowestFd # NoFd
    BY <1>3
  <2> QED BY <2>2, <2>3
<1> HIDE DEF d
<1>5. /\ Streams' /\ Queue' /\ c \in Clients /\ link[c] = "queued"
      /\ Len(backlog) \in Nat /\ Len(backlog) >= 1 /\ Len(backlog') = Len(backlog) - 1
      /\ \A x \in Clients : link'[x] = IF x = c THEN "accepted" ELSE link[x]
  BY <1>1, AcceptQueue DEF AcceptClient, IInv, Types
<1>6. c \notin DOMAIN conn /\ c \in Objs /\ c \notin Failures /\ c # Listener
  BY <1>5 DEF IInv, ClientObjects, Objs
<1>7. /\ DOMAIN conn' = DOMAIN conn \cup {c} /\ conn' \in [DOMAIN conn' -> Objects]
      /\ SameShape(setInEpoll(d), conn'[c])
      /\ \A x \in DOMAIN conn : conn'[x] = conn[x]
      /\ connMap' = [connMap EXCEPT ![LowestFd] = c]
      /\ interest' \in [Fds -> Masks] /\ ready' \subseteq Fds
      /\ ListenFd \in ready' <=> ListenFd \in ready
  <2>1. Types
    BY DEF IInv
  <2>2. /\ DOMAIN conn' = DOMAIN conn \cup {c} /\ conn' \in [DOMAIN conn' -> Objects]
        /\ SameShape(setInEpoll(d), conn'[c])
        /\ \A x \in DOMAIN conn : x # c => conn'[x] = conn[x]
        /\ connMap' = IF d.inEpoll THEN connMap ELSE [connMap EXCEPT ![d.fd] = c]
        /\ interest' \in [Fds -> Masks] /\ ready' \subseteq Fds
        /\ \A f \in Fds : f # d.fd => (f \in ready' <=> f \in ready)
    BY <1>1, <1>4, <1>6, <2>1, Updating
  <2> QED BY <1>3, <1>4, <1>6, <2>2
<1>8. /\ conn'[c].fd = LowestFd /\ conn'[c].inEpoll /\ conn'[c].event = {"IN", "ET"}
      /\ conn'[c].nonblocking
      /\ conn'[c].recvCallback = "recvCallback" /\ conn'[c].sendCallback = "sendCallback"
  BY <1>4, <1>7, SetInEpollFields DEF SameShape
<1>9. Registered' /\ Entries'
  <2>1. ASSUME NEW x \in DOMAIN conn
        PROVE  x # c /\ conn[x].fd # LowestFd
    <3>1. x # c
      BY <1>6
    <3>2. CASE x = Listener
      BY <1>3, <3>2 DEF IInv, ListenerObject
    <3>3. CASE x \in Clients
      <4>1. x \in Accepted
        BY <3>3 DEF Accepted
      <4>2. conn[x].fd \in openFds
        BY <4>1 DEF IInv, Descriptors
      <4> QED BY <1>3, <3>1, <4>2
    <3>4. CASE x \in Failures
      BY <1>3, <3>4 DEF IInv, FailureObjects
    <3> QED BY <3>1, <3>2, <3>3, <3>4 DEF IInv, Types, Streams, Objs
  <2>2. MayUpdate(c, d)
    BY <1>4, <2>1 DEF MayUpdate
  <2> QED BY <1>1, <1>4, <1>6, <2>2, UpdatedEntries
<1>10. Types'
  <2>1. connMap' \in [Fds \cup {NoFd} -> Objs \cup {Null}]
    BY <1>6, <1>7 DEF IInv, Types, Streams
  <2>2. DOMAIN conn' \subseteq Objs /\ openFds' \subseteq ClientFds /\ batch' \subseteq Objs
    BY <1>1, <1>2, <1>3, <1>6, <1>7 DEF IInv, Types, Streams
  <2> QED BY <1>1, <1>5, <1>7, <2>1, <2>2 DEF IInv, Types
<1>11. BootPhase'
  BY <1>1, <1>2, <1>7 DEF IInv, BootPhase
<1>12. ListenerObject' /\ FailureObjects'
  BY <1>2, <1>6, <1>7 DEF IInv, ListenerObject, FailureObjects
<1>13. ClientObjects'
  <2> SUFFICES ASSUME NEW x \in Clients
               PROVE  /\ x \in DOMAIN conn' <=> link'[x] = "accepted"
                      /\ x \in DOMAIN conn' =>
                           /\ conn'[x].fd \in ClientFds
                           /\ conn'[x].inEpoll /\ conn'[x].nonblocking
                           /\ conn'[x].event # {}
                           /\ conn'[x].recvCallback = "recvCallback"
                           /\ conn'[x].sendCallback = "sendCallback"
    BY DEF ClientObjects
  <2>1. CASE x = c
    BY <1>1, <1>3, <1>5, <1>7, <1>8, <2>1
  <2>2. CASE x # c
    <3>1. (x \in DOMAIN conn' <=> x \in DOMAIN conn) /\ link'[x] = link[x]
      BY <1>1, <1>5, <1>7, <2>2
    <3>2. x \in DOMAIN conn => conn'[x] = conn[x]
      BY <1>7
    <3> QED BY <3>1, <3>2 DEF IInv, ClientObjects
  <2> QED BY <2>1, <2>2
<1>14. Descriptors'
  <2>1. Accepted' = Accepted \cup {c}
    BY <1>7 DEF Accepted
  <2> QED BY <1>1, <1>7, <1>8, <2>1 DEF IInv, Descriptors, Accepted
<1>15. Batch'
  BY <1>1, <1>2, <1>7 DEF IInv, Batch
<1>16. Counted'
  <2>1. Pending' = Pending - 1 /\ Pending \in Nat /\ Pending' \in Nat
    BY <1>2, <1>7, Counts
  <2>2. Cardinality(Arrived') = Cardinality(Arrived)
    <3>1. Arrived' = Arrived
      BY <1>1, <1>5, <1>6 DEF Arrived
    <3> QED BY <3>1, Zenon
  <2>3. Cardinality(Failures \cap DOMAIN conn') = Cardinality(Failures \cap DOMAIN conn)
    <3>1. Failures \cap DOMAIN conn' = Failures \cap DOMAIN conn
      BY <1>6, <1>7
    <3> QED BY <3>1, Zenon
  <2>4. /\ Cardinality(Failures \cap DOMAIN conn) \in Nat /\ Cardinality(Arrived) \in Nat
    BY Counts
  <2>5. /\ Len(backlog) >= Pending
        /\ Cardinality(Failures \cap DOMAIN conn) + Pending <= Cardinality(Arrived)
    BY DEF IInv, Counted
  <2>6. Len(backlog) \in Nat /\ Len(backlog') = Len(backlog) - 1
    BY <1>5
  <2> HIDE DEF Pending, Arrived
  <2>7. Len(backlog') >= Pending'
    BY <2>1, <2>5, <2>6
  <2>8. Cardinality(Failures \cap DOMAIN conn') + Pending' <= Cardinality(Arrived')
    BY <2>1, <2>2, <2>3, <2>4, <2>5
  <2> QED BY <2>7, <2>8 DEF Counted
<1> QED BY <1>5, <1>9, <1>10, <1>11, <1>12, <1>13, <1>14, <1>15, <1>16 DEF IInv

\* There are as many Failures as clients, and each failed accept() took an event that
\* a client of its own had caused: when there is an event, one of them is left.
LEMMA FailureLeft ==
  ASSUME IInv, Listener \in batch
  PROVE  \E z \in Failures \ DOMAIN conn : \A y \in Failures \ DOMAIN conn : z <= y
<1>1. Pending \in Nat /\ Pending >= 1
  BY Counts
<1>2. Cardinality(Failures \cap DOMAIN conn) < Cardinality(Failures)
  <2> HIDE DEF Pending, Arrived, Failures
  <2>1. /\ Cardinality(Failures) \in Nat /\ Cardinality(Arrived) \in Nat
        /\ Cardinality(Failures \cap DOMAIN conn) \in Nat
        /\ Cardinality(Arrived) <= Cardinality(Failures)
    BY Counts
  <2>2. Cardinality(Failures \cap DOMAIN conn) + Pending <= Cardinality(Arrived)
    BY DEF IInv, Counted
  <2> QED BY <1>1, <2>1, <2>2
<1>3. Failures \ DOMAIN conn # {}
  <2>1. ASSUME Failures \ DOMAIN conn = {}
        PROVE  FALSE
    <3>1. Failures \cap DOMAIN conn = Failures
      BY <2>1
    <3>2. Cardinality(Failures) \in Nat
      BY Counts
    <3>3. Cardinality(Failures \cap DOMAIN conn) = Cardinality(Failures)
      BY <3>1, Zenon
    <3> HIDE DEF Failures
    <3> QED BY <1>2, <3>2, <3>3
  <2> QED BY <2>1
<1>4. Failures \ DOMAIN conn \subseteq Nat
  BY DEF Failures
<1> QED BY <1>3, <1>4, Least

\* AcceptFails: one more object with descriptor -1, which epoll never sees.
LEMMA AcceptFailsStep ==
  ASSUME IInv, AcceptFails
  PROVE  IInv'
<1> DEFINE left == Failures \ DOMAIN conn
           z == CHOOSE z \in left : \A y \in left : z <= y
           d == setSendCallback(setRecvCallback(
                  setEvent(setNonBlocking(NewObject(NoFd, InetAddress)), {"IN", "ET"}),
                  "recvCallback"), "sendCallback")
<1>1. /\ Turn(Listener, "acceptCallback")
      /\ UpdateConnection(z, d, FALSE)
      /\ UNCHANGED <<link, backlog, sentN, readN, peer, echoed, openFds, server, cur>>
  BY DEF AcceptFails, NewConnection, tcpVars
<1>2. /\ server = "up" /\ cur = Null /\ Listener \in batch /\ Listener \in DOMAIN conn
      /\ batch' = batch \ {Listener}
  BY <1>1, TurnTaken DEF Objs
<1>3. z \in Failures /\ z \notin DOMAIN conn
  BY <1>2, FailureLeft
<1> HIDE DEF z
<1>4. /\ d \in Objects /\ d.fd = NoFd /\ ~d.inEpoll /\ d.event = {"IN", "ET"}
  <2>1. NoFd \in Fds \cup {NoFd} /\ InetAddress \in Clients \cup {InetAddress}
    OBVIOUS
  <2>2. /\ d \in Objects
        /\ d.fd = NoFd /\ ~d.inEpoll /\ d.nonblocking = (NoFd # NoFd)
        /\ d.event = {"IN", "ET"} /\ d.revent = {}
        /\ d.rlen = 0 /\ d.rbuffer = Blank
        /\ d.recvCallback = "recvCallback" /\ d.sendCallback = "sendCallback"
    BY <2>1, NewConnectionFields, Zenon
  <2> QED BY <2>2
<1> HIDE DEF d
<1>5. z \in Objs /\ z \notin Clients /\ z # Listener
  BY <1>3 DEF Objs
<1>6. /\ DOMAIN conn' = DOMAIN conn \cup {z} /\ conn' \in [DOMAIN conn' -> Objects]
      /\ SameShape(setInEpoll(d), conn'[z])
      /\ \A x \in DOMAIN conn : conn'[x] = conn[x]
      /\ connMap' = [connMap EXCEPT ![NoFd] = z]
      /\ interest' \in [Fds -> Masks] /\ ready' \subseteq Fds
      /\ ListenFd \in ready' <=> ListenFd \in ready
  <2>1. Types
    BY DEF IInv
  <2>2. /\ DOMAIN conn' = DOMAIN conn \cup {z} /\ conn' \in [DOMAIN conn' -> Objects]
        /\ SameShape(setInEpoll(d), conn'[z])
        /\ \A x \in DOMAIN conn : x # z => conn'[x] = conn[x]
        /\ connMap' = IF d.inEpoll THEN connMap ELSE [connMap EXCEPT ![d.fd] = z]
        /\ interest' \in [Fds -> Masks] /\ ready' \subseteq Fds
        /\ \A f \in Fds : f # d.fd => (f \in ready' <=> f \in ready)
    BY <1>1, <1>4, <1>5, <2>1, Updating
  <2> QED BY <1>3, <1>4, <2>2
<1>7. conn'[z].fd = NoFd
  BY <1>4, <1>6, SetInEpollFields DEF SameShape
<1>8. Registered' /\ Entries'
  <2>1. MayUpdate(z, d)
    BY <1>3, <1>4 DEF MayUpdate
  <2> QED BY <1>1, <1>4, <1>5, <2>1, UpdatedEntries
<1>9. Types'
  <2>1. connMap' \in [Fds \cup {NoFd} -> Objs \cup {Null}]
    BY <1>5, <1>6 DEF IInv, Types, Streams
  <2>2. DOMAIN conn' \subseteq Objs /\ batch' \subseteq Objs
    BY <1>2, <1>5, <1>6 DEF IInv, Types, Streams
  <2> QED BY <1>1, <1>6, <2>1, <2>2 DEF IInv, Types, Streams
<1>10. BootPhase' /\ Queue'
  BY <1>1, <1>2, <1>6 DEF IInv, BootPhase, Queue
<1>11. ListenerObject' /\ FailureObjects'
  BY <1>2, <1>5, <1>6, <1>7 DEF IInv, ListenerObject, FailureObjects
<1>12. ClientObjects' /\ Descriptors'
  BY <1>1, <1>5, <1>6 DEF IInv, ClientObjects, Descriptors, Accepted
<1>13. Batch'
  BY <1>1, <1>2, <1>6 DEF IInv, Batch
<1>14. Counted'
  <2>1. Pending' = Pending - 1 /\ Pending \in Nat /\ Pending' \in Nat
    BY <1>2, <1>6, Counts
  <2>2. Cardinality(Arrived') = Cardinality(Arrived)
    BY <1>1 DEF Arrived
  <2>3. /\ Failures \cap DOMAIN conn' = (Failures \cap DOMAIN conn) \cup {z}
        /\ z \notin Failures \cap DOMAIN conn
    BY <1>3, <1>6
  <2>4. /\ IsFiniteSet(Failures \cap DOMAIN conn) /\ Cardinality(Failures \cap DOMAIN conn) \in Nat
        /\ Cardinality(Arrived) \in Nat /\ Len(backlog) \in Nat
    BY Counts
  <2>5. Cardinality(Failures \cap DOMAIN conn') = Cardinality(Failures \cap DOMAIN conn) + 1
    <3> DEFINE T == Failures \cap DOMAIN conn
    <3>1. IsFiniteSet(T) /\ z \notin T
      BY <2>3, <2>4
    <3>2. Cardinality(T \cup {z}) = Cardinality(T) + 1
      <4> HIDE DEF T
      <4> QED BY <3>1, FS_AddElement
    <3> QED BY <2>3, <3>2
  <2>6. /\ Len(backlog) >= Pending
        /\ Cardinality(Failures \cap DOMAIN conn) + Pending <= Cardinality(Arrived)
    BY DEF IInv, Counted
  <2> HIDE DEF Pending, Arrived
  <2>7. Len(backlog') >= Pending'
    BY <1>1, <2>1, <2>4, <2>6
  <2>8. Cardinality(Failures \cap DOMAIN conn') + Pending' <= Cardinality(Arrived')
    BY <2>1, <2>2, <2>4, <2>5, <2>6
  <2> QED BY <2>7, <2>8 DEF Counted
<1> QED BY <1>8, <1>9, <1>10, <1>11, <1>12, <1>13, <1>14 DEF IInv
-----------------------------------------------------------------------------
(* sendCallback *)

\* Two objects with the same descriptor are one.
LEMMA OwnDescriptor ==
  ASSUME IInv
  PROVE  \A o, p \in DOMAIN conn : conn[o].fd = conn[p].fd /\ conn[o].fd # NoFd => o = p
<1> SUFFICES ASSUME NEW o \in DOMAIN conn, NEW p \in DOMAIN conn,
                    conn[o].fd = conn[p].fd, conn[o].fd # NoFd
             PROVE  o = p
  OBVIOUS
<1>1. /\ Registered /\ server \in ServerStates
      /\ DOMAIN conn \subseteq Objs /\ conn[o] \in Objects /\ conn[p] \in Objects
  BY DEF IInv, Types, Streams
<1>2. conn[o].fd \in Fds
  BY <1>1 DEF Objects
<1>3. ASSUME NEW x \in DOMAIN conn, conn[x].fd \in Fds, x # Listener
      PROVE  x \in Clients /\ conn[x].inEpoll /\ conn[x].fd # ListenFd
  <2>1. x \notin Failures
    BY <1>3 DEF IInv, FailureObjects
  <2>2. x \in Clients
    BY <1>1, <1>3, <2>1 DEF Objs
  <2> QED BY <2>2 DEF IInv, ClientObjects, ClientFds
<1>4. Listener \in DOMAIN conn => conn[Listener].fd = ListenFd
  BY DEF IInv, ListenerObject
<1>5. CASE o = Listener \/ p = Listener
  BY <1>2, <1>3, <1>4, <1>5
<1>6. CASE o # Listener /\ p # Listener
  <2>1. conn[o].inEpoll /\ conn[p].inEpoll
    BY <1>2, <1>3, <1>6
  <2> QED BY <1>1, <1>2, <2>1 DEF Registered
<1> QED BY <1>5, <1>6

\* SendCallback: the object, its entry, its registration and its descriptor go together.
LEMMA SendCallbackStep ==
  ASSUME IInv, NEW c \in Clients, SendCallback(c)
  PROVE  IInv'
<1> DEFINE fd == conn[c].fd
<1>1. /\ Turn(c, "sendCallback")
      /\ link' = [link EXCEPT ![c] = "closed"]
      /\ UNCHANGED <<backlog, sentN, readN, peer, server, cur>>
      /\ connMap' = [connMap EXCEPT ![fd] = Null]
      /\ interest' = [interest EXCEPT ![fd] = {}] /\ ready' = ready \ {fd}
      /\ conn' = [x \in DOMAIN conn \ {c} |-> conn[x]]
      /\ openFds' = openFds \ {fd}
  BY DEF SendCallback, TcpWriteClose, DeleteConnection, WithoutEntry, Forget, Destroy
<1>2. /\ server = "up" /\ cur = Null /\ c \in batch /\ c \in DOMAIN conn /\ batch' = batch \ {c}
      /\ c \notin Failures /\ c # Listener
  BY <1>1, TurnTaken DEF Objs
<1>3. fd \in ClientFds /\ fd \in Fds /\ fd # ListenFd /\ fd # NoFd /\ link[c] = "accepted"
  BY <1>2 DEF IInv, ClientObjects, ClientFds
<1>4. \A x \in DOMAIN conn : x # c => conn[x].fd # fd
  BY <1>2, <1>3, OwnDescriptor
<1>5. /\ DOMAIN conn' = DOMAIN conn \ {c}
      /\ \A x \in DOMAIN conn' : x \in DOMAIN conn /\ x # c /\ conn'[x] = conn[x]
  BY <1>1
<1>6. /\ connMap \in [Fds \cup {NoFd} -> Objs \cup {Null}]
      /\ interest \in [Fds -> Masks] /\ ready \subseteq Fds
      /\ DOMAIN conn \subseteq Objs /\ conn \in [DOMAIN conn -> Objects]
      /\ link \in [Clients -> {"idle", "queued", "accepted", "closed"}]
  BY DEF IInv, Types, Streams
<1> HIDE DEF fd
<1>7. /\ \A f \in Fds \cup {NoFd} : connMap'[f] = IF f = fd THEN Null ELSE connMap[f]
      /\ \A f \in Fds : interest'[f] = IF f = fd THEN {} ELSE interest[f]
      /\ \A x \in Clients : link'[x] = IF x = c THEN "closed" ELSE link[x]
  BY <1>1, <1>3, <1>6
<1>8. Registered'
  <2> SUFFICES ASSUME NEW o \in DOMAIN conn', conn'[o].inEpoll, conn'[o].fd \in Fds
               PROVE  connMap'[conn'[o].fd] = o /\ interest'[conn'[o].fd] = conn'[o].event
    BY DEF Registered
  <2>1. o \in DOMAIN conn /\ conn'[o] = conn[o] /\ conn[o].fd # fd
    BY <1>4, <1>5
  <2>2. connMap[conn[o].fd] = o /\ interest[conn[o].fd] = conn[o].event
    BY <2>1 DEF IInv, Registered
  <2>3. conn[o].fd \in Fds /\ conn[o].fd \in Fds \cup {NoFd}
    BY <2>1
  <2>4. /\ connMap'[conn[o].fd] = connMap[conn[o].fd]
        /\ interest'[conn[o].fd] = interest[conn[o].fd]
    BY <1>7, <2>1, <2>3, Zenon
  <2> QED BY <2>1, <2>2, <2>4, Zenon
<1>9. Entries'
  <2>1. ASSUME NEW f \in Fds \cup {NoFd}, connMap'[f] # Null
        PROVE  /\ connMap'[f] \in DOMAIN conn'
               /\ conn'[connMap'[f]].fd = f /\ conn'[connMap'[f]].inEpoll
    <3>1. f # fd /\ connMap'[f] = connMap[f]
      BY <1>7, <2>1
    <3>2. connMap[f] \in DOMAIN conn /\ conn[connMap[f]].fd = f /\ conn[connMap[f]].inEpoll
      BY <2>1, <3>1 DEF IInv, Entries
    <3>3. connMap[f] # c
      BY <3>1, <3>2 DEF fd
    <3> QED BY <1>5, <3>1, <3>2, <3>3
  <2>2. ASSUME NEW f \in Fds, interest'[f] # {}
        PROVE  connMap'[f] # Null
    BY <1>7, <2>2 DEF IInv, Entries
  <2>3. ASSUME NEW f \in ready'
        PROVE  interest'[f] # {}
    BY <1>1, <1>6, <1>7, <2>3 DEF IInv, Entries
  <2> QED BY <2>1, <2>2, <2>3 DEF Entries
<1>10. Types'
  <2>1. conn' \in [DOMAIN conn' -> Objects] /\ DOMAIN conn' \subseteq Objs
    BY <1>1, <1>6
  <2>2. /\ connMap' \in [Fds \cup {NoFd} -> Objs \cup {Null}] /\ interest' \in [Fds -> Masks]
        /\ link' \in [Clients -> {"idle", "queued", "accepted", "closed"}]
    BY <1>1, <1>6 DEF Masks
  <2>3. ready' \subseteq Fds /\ batch' \subseteq Objs /\ openFds' \subseteq ClientFds
    BY <1>1, <1>2 DEF IInv, Types, Streams
  <2>4. /\ backlog' \in Seq(Clients) /\ sentN' \in [Clients -> 0..MaxBytes]
        /\ readN' \in [Clients -> 0..MaxBytes]
        /\ peer' \in [Clients -> {"open", "fin", "rst", "gone", "cut"}]
        /\ server' \in ServerStates /\ cur' \in Clients \cup {Null}
    BY <1>1 DEF IInv, Types, Streams
  <2> QED BY <2>1, <2>2, <2>3, <2>4 DEF Types, Streams
<1>11. BootPhase'
  BY <1>1, <1>2, <1>5 DEF IInv, BootPhase
<1>12. Queue'
  <2>1. \A i \in 1..Len(backlog) : backlog[i] \in Clients
    BY DEF IInv, Types, Streams
  <2> QED BY <1>1, <1>3, <1>7, <2>1 DEF IInv, Queue
<1>13. ListenerObject' /\ FailureObjects'
  BY <1>5 DEF IInv, ListenerObject, FailureObjects
<1>14. ClientObjects'
  BY <1>5, <1>7 DEF IInv, ClientObjects
<1>15. Descriptors'
  <2>1. Accepted' = Accepted \ {c}
    BY <1>5 DEF Accepted
  <2>2. \A x \in Accepted : x \in DOMAIN conn
    BY DEF Accepted
  <2>3. openFds = {conn[x].fd : x \in Accepted}
    BY DEF IInv, Descriptors
  <2>4. \A x \in Accepted' : conn'[x].fd = conn[x].fd /\ conn[x].fd # fd
    BY <1>4, <1>5, <2>1, <2>2
  <2>5. \A g : g \in openFds' <=> \E x \in Accepted' : g = conn'[x].fd
    <3>1. openFds' = openFds \ {fd}
      BY <1>1
    <3>2. ASSUME NEW g \in openFds' PROVE \E x \in Accepted' : g = conn'[x].fd
      <4>1. PICK x \in Accepted : g = conn[x].fd
        BY <2>3, <3>1
      <4>2. x # c
        BY <3>1, <4>1 DEF fd
      <4> QED BY <2>1, <2>4, <4>1, <4>2
    <3>3. ASSUME NEW x \in Accepted' PROVE conn'[x].fd \in openFds'
      <4>1. conn[x].fd \in openFds
        BY <2>1, <2>3
      <4> QED BY <2>4, <3>1, <4>1
    <3> QED BY <3>2, <3>3
  <2> QED BY <2>5 DEF Descriptors
<1>16. Batch'
  BY <1>1, <1>2, <1>5 DEF IInv, Batch
<1>17. Counted'
  <2>1. Pending' <= Pending
    BY <1>1, <1>2, <1>3, Counts
  <2>2. Arrived \subseteq Arrived'
    BY <1>7 DEF Arrived
  <2>3. Failures \cap DOMAIN conn' = Failures \cap DOMAIN conn
    BY <1>2, <1>5
  <2> QED BY <1>1, <2>1, <2>2, <2>3, CountedKept
<1> QED BY <1>8, <1>9, <1>10, <1>11, <1>12, <1>13, <1>14, <1>15, <1>16, <1>17 DEF IInv
-----------------------------------------------------------------------------
(* The invariant *)

\* When main() starts there is nothing yet.
LEMMA InitInvariant == Init => IInv
<1> SUFFICES ASSUME Init PROVE IInv
  OBVIOUS
<1> USE DEF Init, TcpInit, EpollInit, KernelInit
<1>1. DOMAIN conn = {}
  OBVIOUS
<1>2. Types
  BY <1>1 DEF Types, Streams, ServerStates, Masks
<1>3. BootPhase /\ Queue /\ ListenerObject /\ FailureObjects /\ Batch
  BY <1>1 DEF BootPhase, Queue, ListenerObject, FailureObjects, Batch
<1>4. ClientObjects
  BY <1>1 DEF ClientObjects
<1>5. Registered /\ Entries
  BY <1>1 DEF Registered, Entries
<1>6. Descriptors
  BY <1>1 DEF Descriptors, Accepted
<1>7. Counted
  <2>1. Pending = 0
    BY OneOrNone DEF Pending
  <2>2. Arrived = {} /\ Failures \cap DOMAIN conn = {}
    BY <1>1 DEF Arrived
  <2>3. Cardinality(Arrived) = 0 /\ Cardinality(Failures \cap DOMAIN conn) = 0
    BY <2>2, FS_EmptySet
  <2>4. Len(backlog) = 0
    OBVIOUS
  <2> HIDE DEF Init
  <2> QED BY <2>1, <2>3, <2>4 DEF Counted
<1> QED BY <1>2, <1>3, <1>4, <1>5, <1>6, <1>7 DEF IInv

\* A step of the environment of which no variable of the server shows anything.
LEMMA StutterStep ==
  ASSUME IInv, UNCHANGED vars
  PROVE  IInv'
<1> USE DEF vars, tcpVars, epollVars
<1>1. Types' /\ BootPhase' /\ Queue' /\ Batch'
  BY DEF IInv, Types, Streams, BootPhase, Queue, Batch
<1>2. ListenerObject' /\ ClientObjects' /\ FailureObjects'
  BY DEF IInv, ListenerObject, ClientObjects, FailureObjects
<1>3. Registered' /\ Entries' /\ Descriptors'
  BY DEF IInv, Registered, Entries, Descriptors, Accepted
<1>4. Counted'
  BY DEF IInv, Counted, Pending, Arrived
<1> QED BY <1>1, <1>2, <1>3, <1>4 DEF IInv

\* Every action keeps the invariant.
LEMMA InductiveStep == IInv /\ [Next]_vars => IInv'
<1> SUFFICES ASSUME IInv, [Next]_vars PROVE IInv'
  OBVIOUS
<1>1. CASE BootFailure
  BY <1>1, EndStep DEF BootFailure
<1>2. CASE LoopCheck
  BY <1>2, EndStep DEF LoopCheck
<1>3. CASE BootListen
  BY <1>3, BootListenStep
<1>4. CASE BootRegister
  BY <1>4, BootRegisterStep
<1>5. CASE \E S \in SUBSET ready : Poll(S)
  BY <1>5, PollStep
<1>6. CASE AcceptFails
  BY <1>6, AcceptFailsStep
<1>7. ASSUME NEW c \in Clients,
             \/ AcceptClient(c)
             \/ RecvBegin(c) \/ RecvSome(c) \/ RecvError(c) \/ RecvEnd(c)
             \/ SendCallback(c) \/ SendKilled(c)
      PROVE  IInv'
  <2>1. CASE AcceptClient(c)
    BY <2>1, AcceptClientStep
  <2>2. CASE RecvBegin(c)
    BY <2>2, RecvBeginStep
  <2>3. CASE RecvSome(c)
    BY <2>3, RecvSomeStep
  <2>4. CASE RecvError(c)
    BY <2>4, RecvErrorStep
  <2>5. CASE RecvEnd(c)
    BY <2>5, RecvEndStep
  <2>6. CASE SendCallback(c)
    BY <2>6, SendCallbackStep
  <2>7. CASE SendKilled(c)
    BY <2>7, EndStep DEF SendKilled, Turn, Without
  <2> QED BY <1>7, <2>1, <2>2, <2>3, <2>4, <2>5, <2>6, <2>7
<1>8. ASSUME NEW c \in Clients, Connect(c) \/ Arrival(c)
      PROVE  IInv'
  BY <1>8, ConnectStep, ArrivalStep
<1>9. CASE UNCHANGED vars
  BY <1>9, StutterStep
<1> QED BY <1>1, <1>2, <1>3, <1>4, <1>5, <1>6, <1>7, <1>8, <1>9
    DEF Next, ServerStep, Boot, Environment

\* IInv holds throughout every run of the server.
THEOREM Invariance == Spec => []IInv
<1>1. Init => IInv
  BY InitInvariant
<1>2. IInv /\ [Next]_vars => IInv'
  BY InductiveStep
<1> QED BY <1>1, <1>2, PTL DEF Spec
-----------------------------------------------------------------------------
(* What follows from it. *)

\* For every descriptor that epoll_wait may report, Epoll::wait finds a live object
\* with this descriptor and its flag set; no entry of connMap outlives its object.
THEOREM EpollCoherence == Spec => []EpollCoherent
<1>1. IInv => EpollCoherent
  BY DEF IInv, Entries, EpollCoherent
<1> QED BY <1>1, Invariance, PTL

\* No two live Connections share a descriptor, none is leaked and none is dangling:
\* accept(), close() and the reuse of descriptors between them, in any order.
THEOREM DescriptorOwnership == Spec => []DescriptorsOwned
<1>1. IInv => DescriptorsOwned
  BY OwnDescriptor DEF IInv, Descriptors, DescriptorsOwned
<1> QED BY <1>1, Invariance, PTL

\* The pointers of the batch stay valid until their turn, whatever the callbacks before
\* them delete, and the std::function that will be called is set.
THEOREM BatchLiveness == Spec => []BatchLive
<1>1. ASSUME IInv PROVE BatchLive
  <2>1. ASSUME NEW o \in batch
        PROVE  o \in DOMAIN conn /\ Callback(conn[o]) # Null
    <3>1. /\ o \in DOMAIN conn /\ o \notin Failures /\ conn[o].inEpoll
          /\ conn[o].revent \cap {"IN", "OUT"} # {}
          /\ conn[o].revent \cap {"IN", "OUT"} \subseteq conn[o].event
          /\ o \in Objs
      BY <1>1 DEF IInv, Batch, Types, Streams
    <3>2. CASE o = Listener
      <4>1. conn[o].recvCallback = "acceptCallback" /\ conn[o].event = {"IN", "ET"}
        BY <1>1, <3>1, <3>2 DEF IInv, ListenerObject
      <4> QED BY <3>1, <4>1 DEF Callback
    <3>3. CASE o \in Clients
      <4>1. conn[o].recvCallback = "recvCallback" /\ conn[o].sendCallback = "sendCallback"
        BY <1>1, <3>1, <3>3 DEF IInv, ClientObjects
      <4> QED BY <3>1, <4>1 DEF Callback
    <3> QED BY <3>1, <3>2, <3>3 DEF Objs
  <2>2. cur # Null => cur \in DOMAIN conn /\ cur \notin batch
    BY <1>1 DEF IInv, Batch
  <2> QED BY <2>1, <2>2 DEF BatchLive
<1> QED BY <1>1, Invariance, PTL

\* Every event of the listening socket that is still to be handled has its own connection
\* in the accept queue: accept() is never called for nothing.
THEOREM AcceptPending == Spec => []AcceptHasPending
<1>1. IInv => AcceptHasPending
  BY DEF IInv, Counted, Pending, AcceptHasPending
<1> QED BY <1>1, Invariance, PTL
============================================================================
