------------------------- MODULE LegacyServerProofs -------------------------
(***************************************************************************)
(* Proofs about LegacyServer, for any number of clients, descriptors and   *)
(* bytes.  Its loop keeps no objects: what a Connection does for Reactor,  *)
(* here the descriptors, the one buffer and the order of the loop have to  *)
(* do, and the invariant says how.                                         *)
(***************************************************************************)
EXTENDS LegacyServer, TcpProofs

USE TcpAssumption, LegacyAssumption

Types == /\ Streams
         /\ echoed \in [Clients -> Seq(Int)]
         /\ server \in {"boot", "up", "failed"}
         /\ interest \in [Fds -> Masks]
         /\ ready \subseteq Fds
         /\ holder \in [ClientFds -> Clients \cup {Nobody}]
         /\ nonblocking \subseteq ClientFds
         /\ batch \subseteq Fds \X SUBSET {"IN", "ERR"}
         /\ cur \in Clients \cup {Nobody}

\* A client's descriptor is registered and non-blocking as long as it is open, the
\* listening socket as long as the server is up, and only what is registered is ready.
Registered == /\ \A f \in ClientFds : /\ interest[f] # {} <=> holder[f] # Nobody
                                      /\ f \in nonblocking <=> holder[f] # Nobody
              /\ interest[ListenFd] # {} <=> server = "up"
              /\ \A f \in ready : interest[f] # {}

\* An open descriptor belongs to one accepted client, and an accepted client has one.
Holders ==
  /\ \A f, g \in ClientFds : holder[f] = holder[g] /\ holder[f] # Nobody => f = g
  /\ \A c \in Clients : link[c] = "accepted" <=> \E f \in ClientFds : holder[f] = c

\* What is left of the events: one for a descriptor, none of a closed one, and none of
\* the client that is being served.
Batch ==
  /\ \A e \in batch : e[1] # ListenFd => holder[e[1]] # Nobody /\ holder[e[1]] # cur
  /\ \A d, e \in batch : d[1] = e[1] => d = e
  /\ cur # Nobody => link[cur] = "accepted"
  /\ server # "up" => batch = {} /\ cur = Nobody

\* Nothing is read of a client before its turn; in its turn the buffer holds what was
\* read, and its length is that, less one for a reported reset.
Reading ==
  /\ \A c \in Clients : /\ Received(c)
                        /\ link[c] # "closed" /\ cur # c => readN[c] = 0 /\ peer[c] # "gone"
  /\ buffer \in [Slots -> Garbage..MaxBytes]
  /\ bufferLen \in -1..BufLen
  /\ cur # Nobody => /\ Holds(buffer, cur)
                     /\ bufferLen = readN[cur] - (IF peer[cur] = "gone" THEN 1 ELSE 0)

\* The inductive invariant.
LInv == Types /\ Queue /\ Registered /\ Holders /\ Batch /\ AcceptNeverBlocks /\ Reading
-----------------------------------------------------------------------------
(* Operators of the model. *)

\* accept() returns the lowest descriptor that is free.
LEMMA LowestFree ==
  ASSUME FreeFds # {}
  PROVE  LowestFd \in FreeFds
<1>1. FreeFds \subseteq Nat
  BY DEF FreeFds
<1>2. \E f \in FreeFds : \A g \in FreeFds : f <= g
  BY <1>1, Least
<1> QED BY <1>2 DEF LowestFd

\* The descriptor of an accepted client.
LEMMA ClientsFd ==
  ASSUME Holders, NEW c \in Clients, link[c] = "accepted"
  PROVE  /\ FdOf(c) \in ClientFds /\ holder[FdOf(c)] = c
         /\ \A f \in ClientFds : holder[f] = c => f = FdOf(c)
<1>1. \E f \in ClientFds : holder[f] = c
  BY DEF Holders
<1>2. FdOf(c) \in ClientFds /\ holder[FdOf(c)] = c
  BY <1>1 DEF FdOf
<1>3. c # Nobody
  OBVIOUS
<1> QED BY <1>2, <1>3 DEF Holders

\* Among events of different descriptors, those of the listening socket are one or none.
LEMMA ListenerEvents ==
  ASSUME NEW B, \A d, e \in B : d[1] = e[1] => d = e
  PROVE  Cardinality({e \in B : e[1] = ListenFd})
           = IF \E e \in B : e[1] = ListenFd THEN 1 ELSE 0
<1> DEFINE L == {e \in B : e[1] = ListenFd}
<1>1. CASE \E e \in B : e[1] = ListenFd
  <2>1. PICK e \in B : e[1] = ListenFd
    BY <1>1
  <2>2. L = {e}
    BY <2>1
  <2> HIDE DEF L
  <2>3. Cardinality(L) = 1
    BY <2>2, FS_Singleton
  <2> QED BY <1>1, <2>3 DEF L
<1>2. CASE ~\E e \in B : e[1] = ListenFd
  <2>1. L = {}
    BY <1>2
  <2> HIDE DEF L
  <2>2. Cardinality(L) = 0
    BY <2>1, FS_EmptySet
  <2> QED BY <1>2, <2>2 DEF L
<1> QED BY <1>1, <1>2

\* The events of the listening socket still to be handled, pending or in the batch.
Pending == (IF ListenFd \in ready THEN 1 ELSE 0)
           + (IF \E e \in batch : e[1] = ListenFd THEN 1 ELSE 0)

\* What AcceptNeverBlocks counts: an event of the listening socket, ready or in its turn.
LEMMA Counting ==
  ASSUME Batch
  PROVE  AcceptNeverBlocks <=> Len(backlog) >= Pending
<1>1. /\ Cardinality({ListenFd} \cap ready) = IF ListenFd \in ready THEN 1 ELSE 0
      /\ Cardinality({e \in batch : e[1] = ListenFd})
           = IF \E e \in batch : e[1] = ListenFd THEN 1 ELSE 0
  BY OneOrNone, ListenerEvents DEF Batch
<1> QED BY <1>1 DEF AcceptNeverBlocks, Pending

\* What AcceptNeverBlocks counts, in the next state.
LEMMA CountingNext ==
  ASSUME Batch'
  PROVE  AcceptNeverBlocks' <=> Len(backlog') >= Pending'
<1>1. /\ Cardinality({ListenFd} \cap ready') = IF ListenFd \in ready' THEN 1 ELSE 0
      /\ Cardinality({e \in batch' : e[1] = ListenFd})
           = IF \E e \in batch' : e[1] = ListenFd THEN 1 ELSE 0
  BY OneOrNone, ListenerEvents DEF Batch
<1> QED BY <1>1 DEF AcceptNeverBlocks, Pending

\* No new event of the listening socket, no shorter queue.
LEMMA CountedKept ==
  ASSUME LInv, Batch', backlog' = backlog,
         ListenFd \in ready' => ListenFd \in ready,
         \A e \in batch' : e[1] = ListenFd => e \in batch
  PROVE  AcceptNeverBlocks'
<1>1. Pending' <= Pending /\ Pending \in Nat /\ Pending' \in Nat
  BY DEF Pending
<1>2. Len(backlog) \in Nat /\ Len(backlog) >= Pending
  BY Counting DEF LInv, Types, Streams
<1> HIDE DEF Pending
<1> QED BY <1>1, <1>2, CountingNext
-----------------------------------------------------------------------------
(* The steps. *)

\* Steps that leave the descriptors alone: the registrations and who holds what.
LEMMA DescriptorsKept ==
  ASSUME LInv, UNCHANGED <<interest, holder, nonblocking, server>>,
         \A f \in ready' : interest[f] # {},
         \A c \in Clients : link'[c] = "accepted" <=> link[c] = "accepted"
  PROVE  Registered' /\ Holders'
<1>1. Registered'
  BY DEF LInv, Registered
<1>2. Holders'
  BY DEF LInv, Holders
<1> QED BY <1>1, <1>2

\* Steps that read nothing and leave the buffer alone.
LEMMA ReadingKept ==
  ASSUME LInv, UNCHANGED <<readN, cur, buffer, bufferLen>>,
         \A c \in Clients : /\ sentN[c] <= sentN'[c] /\ sentN'[c] \in Nat
                            /\ peer'[c] = "gone" <=> peer[c] = "gone"
                            /\ peer[c] = "gone" => sentN'[c] = sentN[c]
                            /\ link'[c] # "closed" => link[c] # "closed"
  PROVE  Reading'
<1>1. \A c \in Clients : readN[c] \in Nat /\ sentN[c] \in Nat
  BY DEF LInv, Types, Streams
<1>2. \A c \in Clients : /\ Received(c)'
                         /\ link'[c] # "closed" /\ cur # c => readN[c] = 0 /\ peer'[c] # "gone"
  BY <1>1 DEF LInv, Reading, Received
<1>3. cur \in Clients \cup {Nobody}
  BY DEF LInv, Types
<1>4. cur # Nobody => Holds(buffer, cur)'
  BY DEF LInv, Reading, Holds
<1>5. cur # Nobody => (peer'[cur] = "gone" <=> peer[cur] = "gone")
  BY <1>3
<1> QED BY <1>2, <1>4, <1>5 DEF LInv, Reading

\* Boot: the listening socket is registered, or the process exits.
LEMMA BootStep ==
  ASSUME LInv, Boot
  PROVE  LInv'
<1>1. /\ server = "boot"
      /\ \/ server' = "failed" /\ UNCHANGED <<interest, ready>>
         \/ /\ server' = "up"
            /\ interest' = [interest EXCEPT ![ListenFd] = {"IN", "ET"}]
            /\ ready' = ready \ {ListenFd}
      /\ UNCHANGED <<link, backlog, sentN, readN, peer, echoed, holder, nonblocking, batch, cur,
                     buffer, bufferLen>>
  BY DEF Boot, K!CtlSet, ListenEvents, Fds, tcpVars, kernelVars, fdVars, bufVars
<1>2. interest \in [Fds -> Masks] /\ ready \subseteq Fds /\ ListenFd \in Fds
  BY DEF LInv, Types, Fds
<1>3. interest' \in [Fds -> Masks] /\ ready' \subseteq Fds
  BY <1>1, <1>2 DEF Masks
<1>4. Types' /\ Queue'
  BY <1>1, <1>3 DEF LInv, Types, Streams, Queue
<1>5. \A f \in ClientFds : f \in Fds /\ interest'[f] = interest[f]
  BY <1>1, <1>2 DEF Fds
<1>6. Registered'
  <2>1. interest'[ListenFd] # {} <=> server' = "up"
    BY <1>1, <1>2 DEF LInv, Registered
  <2>2. \A f \in ready' : interest'[f] # {}
    BY <1>1, <1>2 DEF LInv, Registered
  <2> QED BY <1>1, <1>5, <2>1, <2>2 DEF LInv, Registered
<1>7. Holders'
  BY <1>1 DEF LInv, Holders
<1>8. Batch'
  BY <1>1 DEF LInv, Batch
<1>9. AcceptNeverBlocks'
  BY <1>1, <1>8, CountedKept
<1>10. Reading'
  <2>1. \A c \in Clients : sentN[c] \in Nat
    BY DEF LInv, Types, Streams
  <2> QED BY <1>1, <2>1, ReadingKept
<1> QED BY <1>4, <1>6, <1>7, <1>8, <1>9, <1>10 DEF LInv

\* Poll: each reported descriptor gets one event and, being edge-triggered, is no longer ready.
LEMMA PollStep ==
  ASSUME LInv, NEW S \in SUBSET ready, Poll(S)
  PROVE  LInv'
<1>1. /\ server = "up" /\ batch = {} /\ cur = Nobody
      /\ batch' = {<<f, K!Events(f, Input, Failed)>> : f \in S}
      /\ ready' \subseteq ready
      /\ \A f \in ready' : f \in S => "ET" \notin interest[f]
      /\ UNCHANGED <<link, backlog, sentN, readN, peer, echoed, interest, server,
                     holder, nonblocking, cur, buffer, bufferLen>>
  BY DEF Poll, K!Deliver, K!Reportable, tcpVars, fdVars, bufVars
<1>2. /\ S \subseteq ready /\ ready \subseteq Fds /\ interest \in [Fds -> Masks]
      /\ \A f \in ready : interest[f] # {}
  BY DEF LInv, Types, Registered
<1>3. \A e \in batch' : e[1] \in S /\ e = <<e[1], K!Events(e[1], Input, Failed)>>
  BY <1>1
<1>4. \A f \in ready : interest[f] = {"IN", "ET"}
  BY <1>2 DEF Masks
<1>5. batch' \subseteq Fds \X SUBSET {"IN", "ERR"}
  <2>1. ASSUME NEW f \in S
        PROVE  K!Events(f, Input, Failed) \subseteq {"IN", "ERR"}
    BY <1>2, <1>4 DEF K!Events
  <2> QED BY <1>1, <1>2, <2>1
<1>6. Types' /\ Queue'
  BY <1>1, <1>2, <1>5 DEF LInv, Types, Streams, Queue
<1>7. Registered' /\ Holders'
  BY <1>1, <1>2, DescriptorsKept
<1>8. Batch'
  <2>1. ASSUME NEW e \in batch', e[1] # ListenFd
        PROVE  holder[e[1]] # Nobody
    <3>1. e[1] \in ClientFds /\ interest[e[1]] # {}
      BY <1>2, <1>3, <2>1 DEF Fds
    <3> QED BY <3>1 DEF LInv, Registered
  <2>2. \A d, e \in batch' : d[1] = e[1] => d = e
    BY <1>3
  <2> QED BY <1>1, <2>1, <2>2 DEF Batch
<1>9. AcceptNeverBlocks'
  <2>1. ListenFd \in ready' => \A e \in batch' : e[1] # ListenFd
    BY <1>1, <1>2, <1>3, <1>4
  <2>2. (\E e \in batch' : e[1] = ListenFd) => ListenFd \in ready
    BY <1>2, <1>3
  <2>3. Pending' <= Pending /\ Pending \in Nat /\ Pending' \in Nat
    BY <1>1, <2>1, <2>2 DEF Pending
  <2>4. Len(backlog) \in Nat /\ Len(backlog) >= Pending
    BY Counting DEF LInv, Types, Streams
  <2> HIDE DEF Pending
  <2> QED BY <1>1, <1>8, <2>3, <2>4, CountingNext
<1>10. Reading'
  <2>1. \A c \in Clients : sentN[c] \in Nat
    BY DEF LInv, Types, Streams
  <2> QED BY <1>1, <2>1, ReadingKept
<1> QED BY <1>6, <1>7, <1>8, <1>9, <1>10 DEF LInv

\* An event is taken from the batch, and nothing else of the batch is: what Batch says
\* of the rest.
LEMMA TurnKept ==
  ASSUME LInv, NEW e \in batch, Turn(e), UNCHANGED <<server, cur>>,
         \A f \in ClientFds : holder[f] # Nobody => holder'[f] = holder[f]
  PROVE  Batch' /\ batch' \subseteq batch /\ e \notin batch' /\ server = "up" /\ cur = Nobody
<1>1. batch' = batch \ {e} /\ server = "up" /\ cur = Nobody
  BY DEF Turn, Without
<1>2. \A d \in batch : d[1] # ListenFd => d[1] \in ClientFds
  BY DEF LInv, Types, Fds
<1> QED BY <1>1, <1>2 DEF LInv, Batch

\* AcceptFails, Ignored: the event is lost.
LEMMA EventDropped ==
  ASSUME LInv, NEW e \in batch, Turn(e),
         UNCHANGED <<tcpVars, kernelVars, server, fdVars, cur, bufVars>>
  PROVE  LInv'
<1> USE DEF tcpVars, kernelVars, fdVars, bufVars
<1>1. Batch' /\ batch' \subseteq batch
  BY TurnKept
<1>2. Types' /\ Queue'
  BY <1>1 DEF LInv, Types, Streams, Queue
<1>3. Registered' /\ Holders'
  BY DEF LInv, Registered, Holders
<1>4. AcceptNeverBlocks'
  BY <1>1, CountedKept
<1>5. Reading'
  <2>1. \A c \in Clients : sentN[c] \in Nat
    BY DEF LInv, Types, Streams
  <2> QED BY <2>1, ReadingKept
<1> QED BY <1>1, <1>2, <1>3, <1>4, <1>5 DEF LInv

\* Accept: the connection gets a descriptor of its own, and the queue and the events
\* get shorter together.
LEMMA AcceptStep ==
  ASSUME LInv, NEW e \in batch, Accept(e)
  PROVE  LInv'
<1> DEFINE c == Head(backlog)
           fd == LowestFd
<1>1. /\ Turn(e) /\ e[1] = ListenFd /\ FreeFds # {} /\ TcpAccept(c)
      /\ holder' = [holder EXCEPT ![fd] = c]
      /\ nonblocking' = nonblocking \cup {fd}
      /\ K!CtlSet(fd, {"IN", "ET"}, HasInput(c))
      /\ UNCHANGED <<server, cur, buffer, bufferLen>>
      /\ UNCHANGED <<sentN, readN, peer, echoed>>
  BY DEF Accept, TcpAccept, setNonBlocking, bufVars
<1>2. fd \in ClientFds /\ holder[fd] = Nobody /\ fd \in Fds /\ fd # ListenFd
  BY <1>1, LowestFree DEF FreeFds, Open, Fds
<1>3. /\ Streams' /\ Queue' /\ c \in Clients /\ link[c] = "queued"
      /\ Len(backlog) \in Nat /\ Len(backlog') = Len(backlog) - 1
      /\ \A x \in Clients : link'[x] = IF x = c THEN "accepted" ELSE link[x]
  BY <1>1, AcceptQueue DEF LInv, Types
<1> HIDE DEF c, fd
<1>4. /\ interest' = [interest EXCEPT ![fd] = {"IN", "ET"}]
      /\ ready' = ready \cup {fd} \/ ready' = ready \ {fd}
  BY <1>1, <1>2 DEF K!CtlSet
<1>5. /\ interest \in [Fds -> Masks] /\ ready \subseteq Fds
      /\ holder \in [ClientFds -> Clients \cup {Nobody}]
      /\ nonblocking \subseteq ClientFds /\ batch \subseteq Fds \X SUBSET {"IN", "ERR"}
  BY DEF LInv, Types
<1>6. /\ \A f \in Fds : interest'[f] = IF f = fd THEN {"IN", "ET"} ELSE interest[f]
      /\ \A f \in ClientFds : holder'[f] = IF f = fd THEN c ELSE holder[f]
      /\ c # Nobody
  BY <1>1, <1>2, <1>3, <1>4, <1>5
<1>7. Batch' /\ batch' \subseteq batch /\ e \notin batch' /\ server = "up" /\ cur = Nobody
  BY <1>1, <1>2, <1>6, TurnKept
<1>8. Types'
  <2>1. interest' \in [Fds -> Masks] /\ ready' \subseteq Fds
    BY <1>2, <1>4, <1>5 DEF Masks
  <2>2. holder' \in [ClientFds -> Clients \cup {Nobody}] /\ nonblocking' \subseteq ClientFds
    BY <1>1, <1>2, <1>3, <1>5
  <2> QED BY <1>1, <1>3, <1>5, <1>7, <2>1, <2>2 DEF LInv, Types
<1>9. Registered'
  <2>1. ListenFd \in Fds /\ \A f \in ClientFds : f \in Fds
    BY DEF Fds
  <2>2. ASSUME NEW f \in ready'
        PROVE  interest'[f] # {}
    <3>1. f \in Fds /\ (f \in ready \/ f = fd)
      BY <1>2, <1>4, <1>5
    <3>2. f \in ready => interest[f] # {}
      BY DEF LInv, Registered
    <3> QED BY <1>6, <3>1, <3>2
  <2>3. interest'[ListenFd] = interest[ListenFd]
    BY <1>2, <1>6, <2>1
  <2>4. \A f \in ClientFds : /\ interest'[f] # {} <=> holder'[f] # Nobody
                             /\ f \in nonblocking' <=> holder'[f] # Nobody
    BY <1>1, <1>6, <2>1 DEF LInv, Registered
  <2> QED BY <1>1, <2>2, <2>3, <2>4 DEF LInv, Registered
<1>10. Holders'
  <2>1. \A f \in ClientFds : holder[f] # c
    BY <1>3 DEF LInv, Holders
  <2>2. \A f, g \in ClientFds : holder'[f] = holder'[g] /\ holder'[f] # Nobody => f = g
    BY <1>6, <2>1 DEF LInv, Holders
  <2>3. ASSUME NEW x \in Clients
        PROVE  link'[x] = "accepted" <=> \E f \in ClientFds : holder'[f] = x
    <3>1. CASE x = c
      BY <1>2, <1>3, <1>6, <3>1
    <3>2. CASE x # c
      <4>1. \A f \in ClientFds : holder'[f] = x <=> holder[f] = x
        BY <1>2, <1>6, <3>2
      <4> QED BY <1>3, <3>2, <4>1 DEF LInv, Holders
    <3> QED BY <3>1, <3>2
  <2> QED BY <2>2, <2>3 DEF Holders
<1>11. AcceptNeverBlocks'
  <2>1. \A d \in batch' : d[1] # ListenFd
    BY <1>1, <1>7 DEF LInv, Batch
  <2>2. ListenFd \in ready' <=> ListenFd \in ready
    BY <1>2, <1>4
  <2>3. Pending' = Pending - 1 /\ Pending \in Nat /\ Pending' \in Nat
    BY <1>1, <2>1, <2>2 DEF Pending
  <2>4. Len(backlog) >= Pending
    BY Counting DEF LInv
  <2> HIDE DEF Pending
  <2> QED BY <1>3, <1>7, <2>3, <2>4, CountingNext
<1>12. Reading'
  <2>1. \A x \in Clients : sentN[x] \in Nat
    BY DEF LInv, Types, Streams
  <2> QED BY <1>1, <1>3, <2>1, ReadingKept
<1> QED BY <1>3, <1>7, <1>8, <1>9, <1>10, <1>11, <1>12 DEF LInv

\* Connect: one connection more in the queue, at most one event more.
LEMMA ConnectStep ==
  ASSUME LInv, NEW c \in Clients, Connect(c)
  PROVE  LInv'
<1>1. /\ server = "up" /\ TcpConnect(c)
      /\ \/ ready' = ready
         \/ ready' = ready \cup {ListenFd} /\ interest[ListenFd] # {} /\ ListenFd \in Fds
      /\ UNCHANGED <<server, interest, holder, nonblocking, batch, cur, buffer, bufferLen>>
      /\ UNCHANGED <<sentN, readN, peer, echoed>>
  BY DEF Connect, TcpConnect, K!Wake, fdVars, bufVars
<1>2. /\ Streams' /\ Queue' /\ link[c] = "idle"
      /\ Len(backlog) \in Nat /\ Len(backlog') = Len(backlog) + 1
      /\ \A x \in Clients : link'[x] = IF x = c THEN "queued" ELSE link[x]
  BY <1>1, ConnectQueue DEF LInv, Types
<1>3. Types'
  BY <1>1, <1>2 DEF LInv, Types
<1>4. Registered' /\ Holders'
  <2>1. \A f \in ready' : interest[f] # {}
    BY <1>1 DEF LInv, Registered
  <2>2. \A x \in Clients : link'[x] = "accepted" <=> link[x] = "accepted"
    BY <1>2
  <2> QED BY <1>1, <2>1, <2>2, DescriptorsKept
<1>5. Batch'
  <2>1. cur # Nobody => cur # c /\ cur \in Clients
    BY <1>2 DEF LInv, Batch, Types
  <2> QED BY <1>1, <1>2, <2>1 DEF LInv, Batch
<1>6. AcceptNeverBlocks'
  <2>1. Pending' <= Pending + 1 /\ Pending \in Nat /\ Pending' \in Nat
    BY <1>1 DEF Pending
  <2>2. Len(backlog) >= Pending
    BY Counting DEF LInv
  <2> HIDE DEF Pending
  <2> QED BY <1>2, <1>5, <2>1, <2>2, CountingNext
<1>7. Reading'
  <2>1. \A x \in Clients : sentN[x] \in Nat
    BY DEF LInv, Types, Streams
  <2> QED BY <1>1, <1>2, <2>1, ReadingKept
<1> QED BY <1>2, <1>3, <1>4, <1>5, <1>6, <1>7 DEF LInv

\* Arrival: the descriptor of an accepted client becomes ready, in the middle of its own
\* turn too.
LEMMA ArrivalStep ==
  ASSUME LInv, NEW c \in Clients, Arrival(c)
  PROVE  LInv'
<1>1. /\ server = "up" /\ TcpArrival(c)
      /\ \/ ready' = ready
         \/ /\ link[c] = "accepted" /\ FdOf(c) \in Fds
            /\ ready' = ready \cup {FdOf(c)} /\ interest[FdOf(c)] # {}
      /\ UNCHANGED <<server, interest, holder, nonblocking, batch, cur, buffer, bufferLen>>
  BY DEF Arrival, K!Wake, fdVars, bufVars
<1>2. /\ Streams' /\ UNCHANGED <<link, backlog, readN, echoed>>
      /\ peer[c] \in {"open", "fin"} /\ peer'[c] # "gone"
      /\ \A x \in Clients : /\ sentN[x] <= sentN'[x]
                            /\ x # c => sentN'[x] = sentN[x] /\ peer'[x] = peer[x]
  BY <1>1, ArrivalStreams DEF LInv, Types
<1>3. Types' /\ Queue'
  BY <1>1, <1>2 DEF LInv, Types, Queue
<1>4. Registered' /\ Holders'
  <2>1. \A f \in ready' : interest[f] # {}
    BY <1>1 DEF LInv, Registered
  <2> QED BY <1>1, <1>2, <2>1, DescriptorsKept
<1>5. Batch'
  BY <1>1, <1>2 DEF LInv, Batch
<1>6. AcceptNeverBlocks'
  <2>1. link[c] = "accepted" => FdOf(c) # ListenFd
    BY ClientsFd DEF LInv
  <2> QED BY <1>1, <1>2, <1>5, <2>1, CountedKept
<1>7. Reading'
  <2>1. \A x \in Clients : sentN'[x] \in Nat
    BY <1>2 DEF Streams
  <2> QED BY <1>1, <1>2, <2>1, ReadingKept
<1> QED BY <1>3, <1>4, <1>5, <1>6, <1>7 DEF LInv
-----------------------------------------------------------------------------
(* The turn of one client. *)

\* RecvBegin: the buffer of the client before is cleared, and nothing is read yet.
LEMMA RecvBeginStep ==
  ASSUME LInv, NEW e \in batch, RecvBegin(e)
  PROVE  LInv'
<1>1. /\ server = "up" /\ cur = Nobody /\ batch' = batch \ {e}
      /\ e[1] # ListenFd /\ cur' = holder[e[1]]
      /\ buffer' = [i \in DOMAIN buffer |-> NUL] /\ bufferLen' = 0
      /\ UNCHANGED <<link, backlog, sentN, readN, peer, echoed, interest, ready, server,
                     holder, nonblocking>>
  BY DEF RecvBegin, Turn, Without, Zeroed, tcpVars, kernelVars, fdVars
<1>2. e[1] \in ClientFds /\ holder[e[1]] \in Clients
  BY <1>1 DEF LInv, Types, Fds, Batch
<1>3. PICK c \in Clients : c = holder[e[1]]
  BY <1>2
<1>4. cur' = c /\ link[c] = "accepted" /\ readN[c] = 0 /\ peer[c] # "gone"
  BY <1>1, <1>2, <1>3 DEF LInv, Holders, Reading
<1>5. Types' /\ Queue'
  BY <1>1, <1>2 DEF LInv, Types, Streams, Queue
<1>6. Registered' /\ Holders'
  BY <1>1, DescriptorsKept DEF LInv, Registered
<1>7. Batch'
  <2>1. ASSUME NEW d \in batch', d[1] # ListenFd
        PROVE  holder[d[1]] # Nobody /\ holder[d[1]] # c
    <3>1. d \in batch /\ d # e /\ d[1] \in ClientFds
      BY <1>1, <2>1 DEF LInv, Types, Fds
    <3>2. d[1] # e[1]
      BY <3>1 DEF LInv, Batch
    <3> QED BY <1>2, <1>3, <2>1, <3>1, <3>2 DEF LInv, Batch, Holders
  <2>2. \A d, f \in batch' : d[1] = f[1] => d = f
    BY <1>1 DEF LInv, Batch
  <2> QED BY <1>1, <1>4, <2>1, <2>2 DEF Batch
<1>8. AcceptNeverBlocks'
  BY <1>1, <1>7, CountedKept
<1>9. Reading'
  <2>1. buffer \in [Slots -> Garbage..MaxBytes]
    BY DEF LInv, Reading
  <2>2. buffer' = [i \in Slots |-> NUL]
    BY <1>1, <2>1
  <2>3. buffer' \in [Slots -> Garbage..MaxBytes] /\ bufferLen' \in -1..BufLen
    BY <1>1, <2>2 DEF NUL, Garbage
  <2>4. Holds(buffer, c)'
    <3>1. \A i \in Slots : ~(i < readN'[c])
      BY <1>1, <1>4 DEF Slots
    <3> QED BY <2>2, <3>1 DEF Holds
  <2>5. bufferLen' = readN'[c] - (IF peer'[c] = "gone" THEN 1 ELSE 0)
    <3>1. bufferLen' = 0 /\ readN'[c] = 0 /\ peer'[c] # "gone"
      BY <1>1, <1>4
    <3>2. 0 - 0 = 0
      OBVIOUS
    <3> QED BY <3>1, <3>2, Zenon
  <2>6. \A x \in Clients : /\ Received(x)'
                           /\ link'[x] # "closed" /\ cur' # x => readN'[x] = 0 /\ peer'[x] # "gone"
    BY <1>1, <1>4 DEF LInv, Reading, Received
  <2> QED BY <1>4, <2>3, <2>4, <2>5, <2>6 DEF Reading
<1> QED BY <1>5, <1>6, <1>7, <1>8, <1>9 DEF LInv

\* What the recv loop of client c keeps, whatever it reads.
LEMMA LoopKept ==
  ASSUME LInv, NEW c \in Clients, cur = c,
         UNCHANGED <<link, backlog, sentN, echoed, interest, ready, server, holder, nonblocking,
                     batch, cur>>,
         readN' \in [Clients -> 0..MaxBytes],
         peer' \in [Clients -> {"open", "fin", "rst", "gone", "cut"}],
         \A x \in Clients : x # c => readN'[x] = readN[x] /\ peer'[x] = peer[x],
         Received(c)',
         buffer' \in [Slots -> Garbage..MaxBytes], bufferLen' \in -1..BufLen, Holds(buffer, c)',
         bufferLen' = readN'[c] - (IF peer'[c] = "gone" THEN 1 ELSE 0)
  PROVE  LInv'
<1>1. Types' /\ Queue'
  BY DEF LInv, Types, Streams, Queue
<1>2. Registered' /\ Holders'
  BY DescriptorsKept DEF LInv, Registered
<1>3. Batch'
  BY DEF LInv, Batch
<1>4. AcceptNeverBlocks'
  BY <1>3, CountedKept
<1>5. Reading'
  <2>1. ASSUME NEW x \in Clients
        PROVE  /\ Received(x)'
               /\ link'[x] # "closed" /\ cur' # x => readN'[x] = 0 /\ peer'[x] # "gone"
    BY DEF LInv, Reading, Received
  <2> QED BY <2>1 DEF Reading
<1> QED BY <1>1, <1>2, <1>3, <1>4, <1>5 DEF LInv

\* RecvSome: bufferLen is where the next byte belongs, and the room it leaves is enough.
LEMMA RecvSomeStep ==
  ASSUME LInv, NEW c \in Clients, RecvSome(c)
  PROVE  LInv'
<1> DEFINE k == RecvCount(c, Room)
<1>1. /\ cur = c /\ k > 0
      /\ readN' = [readN EXCEPT ![c] = @ + k]
      /\ buffer' = Filled(buffer, bufferLen, c, k) /\ bufferLen' = bufferLen + k
      /\ UNCHANGED <<link, backlog, sentN, peer, echoed, interest, ready, server, holder,
                     nonblocking, batch, cur>>
  BY DEF RecvSome, TcpRecv, kernelVars, fdVars
<1>2. /\ readN \in [Clients -> 0..MaxBytes] /\ readN[c] \in 0..MaxBytes /\ sentN[c] \in 0..MaxBytes
      /\ peer \in [Clients -> {"open", "fin", "rst", "gone", "cut"}]
  BY DEF LInv, Types, Streams
<1>3. /\ bufferLen \in -1..BufLen /\ buffer \in [Slots -> Garbage..MaxBytes]
      /\ Holds(buffer, c) /\ Received(c)
      /\ bufferLen = readN[c] - (IF peer[c] = "gone" THEN 1 ELSE 0)
  BY <1>1 DEF LInv, Reading
<1>4. k \in Nat /\ k <= sentN[c] - readN[c] /\ k <= BufLen - bufferLen
  <2>1. Room \in Int /\ Room = BufLen - bufferLen
    BY <1>3 DEF Room
  <2>2. k \in Int /\ k <= Room /\ k <= Unread(c) /\ Unread(c) = sentN[c] - readN[c]
    BY <1>2, <2>1, RecvCountBound
  <2> HIDE DEF k
  <2> QED BY <1>1, <2>1, <2>2
<1> HIDE DEF k
<1>5. peer[c] # "gone" /\ bufferLen = readN[c] /\ readN[c] + k \in 0..MaxBytes
  BY <1>1, <1>2, <1>3, <1>4 DEF Received
<1>6. /\ readN' \in [Clients -> 0..MaxBytes] /\ readN'[c] = readN[c] + k
      /\ \A x \in Clients : x # c => readN'[x] = readN[x]
  BY <1>1, <1>2, <1>5
<1>7. buffer' = Filled(buffer, readN[c], c, k)
  BY <1>1, <1>5
<1>8. DOMAIN buffer = Slots /\ Slots \subseteq Nat
  BY <1>3 DEF Slots
<1>9. /\ buffer' = [i \in Slots |-> buffer'[i]]
      /\ \A i \in Slots : buffer'[i] = IF i < readN[c] + k THEN Byte(c, i + 1) ELSE NUL
  <2>1. Filled(buffer, readN[c], c, k) = [i \in Slots |-> Filled(buffer, readN[c], c, k)[i]]
    BY <1>2, <1>3, <1>4, <1>8, FilledBytes
  <2>2. \A i \in Slots : Filled(buffer, readN[c], c, k)[i]
                       = IF i < readN[c] + k THEN Byte(c, i + 1) ELSE NUL
    BY <1>2, <1>3, <1>4, <1>8, FilledBytes
  <2> QED BY <1>7, <2>1, <2>2
<1>10. buffer' \in [Slots -> Garbage..MaxBytes]
  <2>1. ASSUME NEW i \in Slots
        PROVE  buffer'[i] \in 0..MaxBytes
    <3>1. i < readN[c] + k => i + 1 \in 1..MaxBytes
      BY <1>2, <1>4, <1>5, <1>8
    <3>2. i < readN[c] + k => Byte(c, i + 1) \in 0..MaxBytes
      BY <3>1, ByteRange
    <3> QED BY <1>9, <3>2 DEF NUL
  <2> QED BY <1>9, <2>1 DEF Garbage
<1>11. Holds(buffer, c)'
  BY <1>6, <1>9, <1>10 DEF Holds
<1>12. bufferLen' \in -1..BufLen /\ bufferLen' = readN'[c] - (IF peer'[c] = "gone" THEN 1 ELSE 0)
  BY <1>1, <1>2, <1>3, <1>4, <1>5, <1>6
<1>13. Received(c)'
  BY <1>1, <1>2, <1>4, <1>5, <1>6 DEF Received
<1>14. peer' \in [Clients -> {"open", "fin", "rst", "gone", "cut"}]
  BY <1>1, <1>2
<1> QED BY <1>1, <1>6, <1>10, <1>11, <1>12, <1>13, <1>14, LoopKept

\* RecvError: the -1 of a reset is added to the length; the buffer keeps what it has.
LEMMA RecvErrorStep ==
  ASSUME LInv, NEW c \in Clients, RecvError(c)
  PROVE  LInv'
<1>1. /\ cur = c /\ sentN[c] - readN[c] = 0 /\ peer[c] = "rst"
      /\ peer' = [peer EXCEPT ![c] = "gone"]
      /\ bufferLen' = bufferLen - 1
      /\ UNCHANGED <<link, backlog, sentN, readN, echoed, interest, ready, server, holder,
                     nonblocking, batch, cur, buffer>>
  BY DEF RecvError, ResetPending, Unread, TcpReportReset, kernelVars, fdVars
<1>2. /\ readN \in [Clients -> 0..MaxBytes] /\ readN[c] \in Nat /\ sentN[c] \in Nat
      /\ peer \in [Clients -> {"open", "fin", "rst", "gone", "cut"}]
  BY DEF LInv, Types, Streams
<1>3. /\ bufferLen \in -1..BufLen /\ buffer \in [Slots -> Garbage..MaxBytes] /\ Holds(buffer, c)
      /\ bufferLen = readN[c]
  BY <1>1, <1>2 DEF LInv, Reading
<1>4. peer'[c] = "gone" /\ \A x \in Clients : x # c => peer'[x] = peer[x]
  BY <1>1, <1>2
<1>5. Holds(buffer, c)'
  BY <1>1, <1>3 DEF Holds
<1>6. bufferLen' \in -1..BufLen /\ bufferLen' = readN'[c] - (IF peer'[c] = "gone" THEN 1 ELSE 0)
  BY <1>1, <1>2, <1>3, <1>4
<1>7. Received(c)'
  BY <1>1, <1>2, <1>4 DEF Received
<1>8. peer' \in [Clients -> {"open", "fin", "rst", "gone", "cut"}]
  BY <1>1, <1>2
<1> QED BY <1>1, <1>2, <1>3, <1>4, <1>5, <1>6, <1>7, <1>8, LoopKept

\* Disconnect: the descriptor is closed, and no event of it is left.
LEMMA DisconnectStep ==
  ASSUME LInv, NEW c \in Clients, Disconnect(c)
  PROVE  LInv'
<1> DEFINE fd == FdOf(c)
<1>1. /\ server = "up" /\ cur = c /\ cur' = Nobody
      /\ echoed' = (IF peer[c] \in {"open", "fin"}
                    THEN [echoed EXCEPT ![c] = @ \o <<>>] ELSE echoed)
      /\ link' = [link EXCEPT ![c] = "closed"]
      /\ holder' = [holder EXCEPT ![fd] = Nobody]
      /\ nonblocking' = nonblocking \ {fd}
      /\ interest' = [interest EXCEPT ![fd] = {}] /\ ready' = ready \ {fd}
      /\ UNCHANGED <<backlog, sentN, readN, peer, server, batch, buffer, bufferLen>>
  BY DEF Disconnect, TcpWriteClose, Released, K!Forget, bufVars
<1>2. link[c] = "accepted" /\ c # Nobody
  BY <1>1 DEF LInv, Batch
<1>3. /\ fd \in ClientFds /\ holder[fd] = c /\ fd \in Fds /\ fd # ListenFd
      /\ \A f \in ClientFds : holder[f] = c => f = fd
  BY <1>2, ClientsFd DEF LInv, Fds
<1> HIDE DEF fd
<1>4. /\ Streams /\ echoed \in [Clients -> Seq(Int)]
      /\ interest \in [Fds -> Masks] /\ ready \subseteq Fds
      /\ holder \in [ClientFds -> Clients \cup {Nobody}] /\ nonblocking \subseteq ClientFds
      /\ batch \subseteq Fds \X SUBSET {"IN", "ERR"}
      /\ link \in [Clients -> {"idle", "queued", "accepted", "closed"}]
      /\ backlog \in Seq(Clients)
  BY DEF LInv, Types, Streams
<1>5. /\ \A f \in Fds : interest'[f] = IF f = fd THEN {} ELSE interest[f]
      /\ \A f \in ClientFds : holder'[f] = IF f = fd THEN Nobody ELSE holder[f]
      /\ \A x \in Clients : link'[x] = IF x = c THEN "closed" ELSE link[x]
  BY <1>1, <1>3, <1>4
<1>6. Types'
  <2>1. echoed' \in [Clients -> Seq(Int)]
    <3>1. echoed[c] \o <<>> \in Seq(Int)
      BY <1>4
    <3> QED BY <1>1, <1>4, <3>1
  <2>2. Streams'
    BY <1>1, <1>4 DEF Streams
  <2>3. /\ interest' \in [Fds -> Masks] /\ ready' \subseteq Fds
        /\ holder' \in [ClientFds -> Clients \cup {Nobody}] /\ nonblocking' \subseteq ClientFds
    BY <1>1, <1>4 DEF Masks
  <2> QED BY <1>1, <1>4, <2>1, <2>2, <2>3 DEF LInv, Types
<1>7. Queue'
  <2>1. \A i \in 1..Len(backlog) : backlog[i] \in Clients /\ backlog[i] # c
    BY <1>2, <1>4 DEF LInv, Queue
  <2> QED BY <1>1, <1>5, <2>1 DEF LInv, Queue
<1>8. Registered'
  <2>1. ListenFd \in Fds /\ \A f \in ClientFds : f \in Fds
    BY DEF Fds
  <2>2. \A f \in ready' : interest'[f] # {}
    BY <1>1, <1>4, <1>5 DEF LInv, Registered
  <2>3. interest'[ListenFd] = interest[ListenFd]
    BY <1>3, <1>5, <2>1
  <2>4. \A f \in ClientFds : /\ interest'[f] # {} <=> holder'[f] # Nobody
                             /\ f \in nonblocking' <=> holder'[f] # Nobody
    BY <1>1, <1>5, <2>1 DEF LInv, Registered
  <2> QED BY <1>1, <2>2, <2>3, <2>4 DEF LInv, Registered
<1>9. Holders'
  <2>1. \A f, g \in ClientFds : holder'[f] = holder'[g] /\ holder'[f] # Nobody => f = g
    BY <1>5 DEF LInv, Holders
  <2>2. ASSUME NEW x \in Clients
        PROVE  link'[x] = "accepted" <=> \E f \in ClientFds : holder'[f] = x
    <3>1. CASE x = c
      <4>1. \A f \in ClientFds : holder'[f] # c
        BY <1>2, <1>3, <1>5
      <4> QED BY <1>5, <3>1, <4>1
    <3>2. CASE x # c
      <4>1. \A f \in ClientFds : holder'[f] = x <=> holder[f] = x
        BY <1>3, <1>5, <3>2
      <4> QED BY <1>5, <3>2, <4>1 DEF LInv, Holders
    <3> QED BY <3>1, <3>2
  <2> QED BY <2>1, <2>2 DEF Holders
<1>10. Batch'
  <2>1. ASSUME NEW e \in batch, e[1] # ListenFd
        PROVE  holder'[e[1]] # Nobody
    <3>1. e[1] \in ClientFds /\ holder[e[1]] # Nobody /\ holder[e[1]] # c
      BY <1>1, <1>4, <2>1 DEF LInv, Batch, Fds
    <3> QED BY <1>3, <1>5, <3>1
  <2> QED BY <1>1, <2>1 DEF LInv, Batch
<1>11. AcceptNeverBlocks'
  BY <1>1, <1>10, CountedKept
<1>12. Reading'
  BY <1>1, <1>5 DEF LInv, Reading, Received
<1> QED BY <1>6, <1>7, <1>8, <1>9, <1>10, <1>11, <1>12 DEF LInv
-----------------------------------------------------------------------------
(* The invariant. *)

\* When main() starts, nothing is open, registered or read.
LEMMA InitInvariant == Init => LInv
<1> SUFFICES ASSUME Init PROVE LInv
  OBVIOUS
<1> USE DEF Init, TcpInit, K!KernelInit
<1>1. Types
  BY DEF Types, Streams, Masks
<1>2. Queue /\ Registered /\ Holders /\ Batch
  BY DEF Queue, Registered, Holders, Batch, Fds
<1>3. AcceptNeverBlocks
  <2>1. Pending = 0 /\ Len(backlog) = 0
    BY DEF Pending
  <2> HIDE DEF Init
  <2> QED BY <1>2, <2>1, Counting
<1>4. Reading
  BY DEF Reading, Received, Garbage
<1> QED BY <1>1, <1>2, <1>3, <1>4 DEF LInv

\* A step of the clients of which no variable of the server shows anything.
LEMMA StutterStep ==
  ASSUME LInv, UNCHANGED vars
  PROVE  LInv'
<1> USE DEF vars, tcpVars, kernelVars, fdVars, bufVars
<1>1. Types' /\ Queue' /\ Registered' /\ Holders' /\ Batch'
  <2>1. Types'
    BY DEF LInv, Types, Streams
  <2>2. Queue'
    BY DEF LInv, Queue
  <2>3. Registered' /\ Holders'
    BY DEF LInv, Registered, Holders
  <2>4. Batch'
    BY DEF LInv, Batch
  <2> QED BY <2>1, <2>2, <2>3, <2>4
<1>2. AcceptNeverBlocks'
  BY DEF LInv, AcceptNeverBlocks
<1>3. Reading'
  BY DEF LInv, Reading, Received, Holds
<1> QED BY <1>1, <1>2, <1>3 DEF LInv

\* Every action keeps the invariant.
LEMMA InductiveStep == LInv /\ [Next]_vars => LInv'
<1> SUFFICES ASSUME LInv, [Next]_vars PROVE LInv'
  OBVIOUS
<1>1. CASE Boot
  BY <1>1, BootStep
<1>2. CASE \E S \in SUBSET ready : Poll(S)
  BY <1>2, PollStep
<1>3. ASSUME NEW e \in batch, Accept(e) \/ AcceptFails(e) \/ RecvBegin(e) \/ Ignored(e)
      PROVE  LInv'
  <2>1. CASE Accept(e)
    BY <2>1, AcceptStep
  <2>2. CASE AcceptFails(e)
    BY <2>2, EventDropped DEF AcceptFails
  <2>3. CASE RecvBegin(e)
    BY <2>3, RecvBeginStep
  <2>4. CASE Ignored(e)
    BY <2>4, EventDropped DEF Ignored
  <2> QED BY <1>3, <2>1, <2>2, <2>3, <2>4
<1>4. ASSUME NEW c \in Clients, RecvSome(c) \/ RecvError(c) \/ Disconnect(c)
      PROVE  LInv'
  BY <1>4, RecvSomeStep, RecvErrorStep, DisconnectStep
<1>5. ASSUME NEW c \in Clients, Connect(c) \/ Arrival(c)
      PROVE  LInv'
  BY <1>5, ConnectStep, ArrivalStep
<1>6. CASE UNCHANGED vars
  BY <1>6, StutterStep
<1> QED BY <1>1, <1>2, <1>3, <1>4, <1>5, <1>6 DEF Next, ServerStep, Environment

\* LInv holds throughout every run of the server.
THEOREM Invariance == Spec => []LInv
<1>1. Init => LInv
  BY InitInvariant
<1>2. LInv /\ [Next]_vars => LInv'
  BY InductiveStep
<1> QED BY <1>1, <1>2, PTL DEF Spec
-----------------------------------------------------------------------------
(* What follows from it. *)

\* The variables keep their types: bufferLen, which an error decrements and recv() is
\* given room by, stays within the buffer.
THEOREM TypeCorrect == Spec => []TypeOK
<1>1. LInv => TypeOK
  BY DEF LInv, Types, Streams, Reading, TypeOK, TcpTypeOK
<1> QED BY <1>1, Invariance, PTL

\* accept() on the blocking listening socket never blocks the loop, with any number of
\* clients connecting between any two events.
THEOREM AcceptReturns == Spec => []AcceptNeverBlocks
<1>1. LInv => AcceptNeverBlocks
  BY DEF LInv
<1> QED BY <1>1, Invariance, PTL

\* The one buffer, which all clients share, holds the message of the one being served
\* and nothing of those before.
THEOREM BufferCorrect == Spec => []BufferHoldsMessage
<1>1. LInv => BufferHoldsMessage
  BY DEF LInv, Reading, Holds, BufferHoldsMessage
<1> QED BY <1>1, Invariance, PTL

\* close() takes a descriptor out of epoll and out of the batch: none is leaked, none is
\* shared, and no event is of one that is closed.
THEOREM DescriptorsCorrect == Spec => []DescriptorsRegistered
<1>1. ASSUME LInv PROVE DescriptorsRegistered
  <2>1. Open = {f \in ClientFds : interest[f] # {}}
    BY <1>1 DEF LInv, Registered, Open
  <2>2. \A f, g \in Open : holder[f] = holder[g] => f = g
    BY <1>1 DEF LInv, Holders, Open
  <2>3. {holder[f] : f \in Open} = {c \in Clients : link[c] = "accepted"}
    <3>1. \A f \in Open : f \in ClientFds /\ holder[f] \in Clients
      BY <1>1 DEF LInv, Types, Open
    <3>2. \A c \in Clients : link[c] = "accepted" <=> \E f \in Open : holder[f] = c
      BY <1>1 DEF LInv, Holders, Open
    <3> QED BY <3>1, <3>2
  <2>4. \A e \in batch : e[1] \in Open \cup {ListenFd}
    BY <1>1 DEF LInv, Types, Batch, Open, Fds
  <2> QED BY <2>1, <2>2, <2>3, <2>4 DEF DescriptorsRegistered
<1> QED BY <1>1, Invariance, PTL
============================================================================
