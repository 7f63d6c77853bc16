----------------------------- MODULE TcpProofs -----------------------------
(***************************************************************************)
(* Lemmas that the proofs about both servers, Reactor and LegacyServer,    *)
(* rest on: the lowest free descriptor, the counting of events, and what   *)
(* recv() does to a stream and to the buffer it fills.                     *)
(***************************************************************************)
EXTENDS Tcp, TLAPS, FiniteSetTheorems, WellFoundedInduction

\* A set of natural numbers has a least element: what lowest descriptor, first '\0' and
\* next failure are.
LEMMA Least ==
  ASSUME NEW T, T \subseteq Nat, T # {}
  PROVE  \E x \in T : \A y \in T : x <= y
<1> DEFINE R == OpToRel(<, Nat)
<1>1. IsWellFoundedOn(R, Nat)
  BY NatLessThanWellFounded
<1>2. PICK x \in T : \A y \in T : ~(<<y, x>> \in R)
  <2> HIDE DEF R
  <2> QED BY <1>1, WFMin
<1>3. \A y \in T : ~(y < x)
  BY <1>2 DEF OpToRel
<1> QED BY <1>3

\* An event that is pending or not, as a count.
LEMMA OneOrNone ==
  ASSUME NEW x, NEW T
  PROVE  Cardinality({x} \cap T) = IF x \in T THEN 1 ELSE 0
<1>1. CASE x \in T
  <2>1. {x} \cap T = {x}
    BY <1>1
  <2> QED BY <1>1, <2>1, FS_Singleton
<1>2. CASE x \notin T
  <2>1. {x} \cap T = {}
    BY <1>2
  <2> QED BY <1>2, <2>1, FS_EmptySet
<1> QED BY <1>1, <1>2

\* What has been read of a client has arrived; a reset is reported after the last byte.
Received(c) == /\ readN[c] <= sentN[c]
               /\ peer[c] = "gone" => readN[c] = sentN[c]

\* recv() never returns more than has arrived, or than it was given room for.
LEMMA RecvCountBound ==
  ASSUME NEW c \in Clients, sentN[c] \in Int, readN[c] \in Int, NEW n \in Int
  PROVE  /\ RecvCount(c, n) \in Int
         /\ RecvCount(c, n) <= Unread(c) /\ RecvCount(c, n) <= n
         /\ Unread(c) = sentN[c] - readN[c]
BY DEF RecvCount, Unread

\* A buffer holds the bytes read so far, each at its position in the stream, and zeros.
Holds(b, c) == \A i \in DOMAIN b : b[i] = IF i < readN[c] THEN Byte(c, i + 1) ELSE NUL

\* What recv() puts into such a buffer, behind the bytes it holds, it holds as well.
LEMMA FilledBytes ==
  ASSUME NEW c \in Clients, NEW b, DOMAIN b \subseteq Nat, readN[c] \in Nat, NEW k \in Nat,
         Holds(b, c)
  PROVE  LET d == Filled(b, readN[c], c, k) IN
         /\ DOMAIN d = DOMAIN b /\ d = [i \in DOMAIN b |-> d[i]]
         /\ \A i \in DOMAIN b : d[i] = IF i < readN[c] + k THEN Byte(c, i + 1) ELSE NUL
<1> DEFINE d == Filled(b, readN[c], c, k)
<1>1. d = [i \in DOMAIN b |-> IF i \in readN[c]..readN[c] + k - 1
                             THEN Byte(c, readN[c] + i - readN[c] + 1) ELSE b[i]]
  BY DEF Filled
<1>2. ASSUME NEW i \in DOMAIN b
      PROVE  d[i] = IF i < readN[c] + k THEN Byte(c, i + 1) ELSE NUL
  <2>1. i \in Nat
    OBVIOUS
  <2>2. CASE i \in readN[c]..readN[c] + k - 1
    <3>1. readN[c] + i - readN[c] + 1 = i + 1
      BY <2>1
    <3> QED BY <1>1, <2>1, <2>2, <3>1
  <2>3. CASE i \notin readN[c]..readN[c] + k - 1
    <3>1. d[i] = b[i]
      BY <1>1, <2>3
    <3>2. i < readN[c] + k <=> i < readN[c]
      BY <2>1, <2>3
    <3> QED BY <3>1, <3>2 DEF Holds
  <2> QED BY <2>2, <2>3
<1> QED BY <1>1, <1>2

\* Its bytes are in range as long as the stream is.
LEMMA ByteRange ==
  ASSUME NEW c, NEW k \in 1..MaxBytes, MaxBytes \in Nat
  PROVE  Byte(c, k) \in 0..MaxBytes
BY DEF Byte, NUL
-----------------------------------------------------------------------------
(* The accept queue and the streams. *)

\* TcpTypeOK but for what was written.
Streams == /\ link \in [Clients -> {"idle", "queued", "accepted", "closed"}]
           /\ backlog \in Seq(Clients)
           /\ sentN \in [Clients -> 0..MaxBytes]
           /\ readN \in [Clients -> 0..MaxBytes]
           /\ peer \in [Clients -> {"open", "fin", "rst", "gone", "cut"}]

\* The clients of the accept queue wait there, each once.
Queue == /\ \A i \in 1..Len(backlog) : link[backlog[i]] = "queued"
         /\ \A i, j \in 1..Len(backlog) : backlog[i] = backlog[j] => i = j

\* connect() completes: the queue gets longer.
LEMMA ConnectQueue ==
  ASSUME Streams, Queue, NEW c \in Clients, TcpConnect(c)
  PROVE  /\ Streams' /\ Queue'
         /\ Len(backlog) \in Nat /\ Len(backlog') = Len(backlog) + 1
         /\ link[c] = "idle"
         /\ \A x \in Clients : link'[x] = IF x = c THEN "queued" ELSE link[x]
<1>1. /\ link[c] = "idle" /\ link' = [link EXCEPT ![c] = "queued"]
      /\ backlog' = Append(backlog, c)
      /\ UNCHANGED <<sentN, readN, peer>>
  BY DEF TcpConnect
<1>2. backlog \in Seq(Clients) /\ link \in [Clients -> {"idle", "queued", "accepted", "closed"}]
  BY DEF Streams
<1>3. /\ Len(backlog') = Len(backlog) + 1 /\ backlog'[Len(backlog) + 1] = c
      /\ \A i \in 1..Len(backlog) : backlog'[i] = backlog[i] /\ backlog'[i] \in Clients
      /\ Len(backlog) \in Nat /\ backlog' \in Seq(Clients)
  BY <1>1, <1>2
<1>4. \A x \in Clients : link'[x] = IF x = c THEN "queued" ELSE link[x]
  BY <1>1, <1>2
<1>5. Streams'
  BY <1>1, <1>2, <1>3 DEF Streams
<1>6. Queue'
  <2>1. \A i \in 1..Len(backlog) : backlog'[i] # c
    BY <1>1, <1>2, <1>3 DEF Queue
  <2> QED BY <1>2, <1>3, <1>4, <2>1 DEF Queue
<1> QED BY <1>1, <1>3, <1>4, <1>5, <1>6

\* accept() takes the oldest: it had been waiting, once.
LEMMA AcceptQueue ==
  ASSUME Streams, Queue, NEW c, TcpAccept(c)
  PROVE  /\ Streams' /\ Queue'
         /\ Len(backlog) \in Nat /\ Len(backlog) >= 1 /\ Len(backlog') = Len(backlog) - 1
         /\ c \in Clients /\ link[c] = "queued"
         /\ \A x \in Clients : link'[x] = IF x = c THEN "accepted" ELSE link[x]
<1>1. /\ backlog # <<>> /\ c = Head(backlog) /\ backlog' = Tail(backlog)
      /\ link' = [link EXCEPT ![c] = "accepted"]
      /\ UNCHANGED <<sentN, readN, peer>>
  BY DEF TcpAccept
<1>2. backlog \in Seq(Clients) /\ link \in [Clients -> {"idle", "queued", "accepted", "closed"}]
  BY DEF Streams
<1>3. /\ Len(backlog) \in Nat /\ Len(backlog) >= 1 /\ c = backlog[1]
      /\ Len(backlog') = Len(backlog) - 1 /\ backlog' \in Seq(Clients)
  BY <1>1, <1>2
<1>4. \A i \in 1..Len(backlog') : backlog'[i] = backlog[i + 1] /\ backlog'[i] \in Clients
  BY <1>1, <1>2, <1>3
<1>5. c \in Clients /\ link[c] = "queued"
  BY <1>2, <1>3 DEF Queue
<1>6. \A x \in Clients : link'[x] = IF x = c THEN "accepted" ELSE link[x]
  BY <1>1, <1>2
<1>7. Streams'
  BY <1>1, <1>2, <1>3 DEF Streams
<1>8. Queue'
  <2>1. \A i, j \in 1..Len(backlog) : backlog[i] = backlog[j] => i = j
    BY DEF Queue
  <2>2. \A i \in 1..Len(backlog') : i + 1 \in 1..Len(backlog) /\ i + 1 # 1
    BY <1>3
  <2>3. \A i \in 1..Len(backlog') : backlog'[i] # c
    BY <1>3, <1>4, <2>1, <2>2
  <2>4. \A i \in 1..Len(backlog') : link'[backlog'[i]] = "queued"
    BY <1>4, <1>6, <2>2, <2>3 DEF Queue
  <2>5. \A i, j \in 1..Len(backlog') : backlog'[i] = backlog'[j] => i = j
    <3> SUFFICES ASSUME NEW i \in 1..Len(backlog'), NEW j \in 1..Len(backlog'),
                        backlog'[i] = backlog'[j]
                 PROVE  i = j
      OBVIOUS
    <3>1. i + 1 = j + 1
      BY <1>4, <2>1, <2>2
    <3> QED BY <1>3, <3>1
  <2> QED BY <2>4, <2>5 DEF Queue
<1> QED BY <1>3, <1>5, <1>6, <1>7, <1>8

\* A byte, the end of the stream or a reset: only what has arrived of c changes.
LEMMA ArrivalStreams ==
  ASSUME Streams, NEW c \in Clients, TcpArrival(c), MaxBytes \in Nat
  PROVE  /\ Streams'
         /\ UNCHANGED <<link, backlog, readN, echoed>>
         /\ link[c] \in {"queued", "accepted"} /\ peer[c] \in {"open", "fin"} /\ peer'[c] # "gone"
         /\ \A x \in Clients : /\ sentN[x] <= sentN'[x]
                               /\ x # c => sentN'[x] = sentN[x] /\ peer'[x] = peer[x]
<1>1. /\ sentN \in [Clients -> 0..MaxBytes]
      /\ peer \in [Clients -> {"open", "fin", "rst", "gone", "cut"}]
  BY DEF Streams
<1>2. /\ link[c] \in {"queued", "accepted"} /\ peer[c] \in {"open", "fin"}
      /\ TcpByte(c) \/ TcpFin(c) \/ TcpReset(c)
  BY DEF TcpArrival, Connected, TcpByte, TcpFin, TcpReset
<1>3. UNCHANGED <<link, backlog, readN, echoed>>
  BY <1>2 DEF TcpByte, TcpFin, TcpReset
<1>4. CASE TcpByte(c)
  <2>1. sentN[c] + 1 \in 0..MaxBytes
    BY <1>1, <1>4 DEF TcpByte
  <2>2. sentN' = [sentN EXCEPT ![c] = sentN[c] + 1] /\ peer' = peer
    BY <1>4 DEF TcpByte
  <2>3. sentN' \in [Clients -> 0..MaxBytes]
    BY <1>1, <2>1, <2>2
  <2>4. Streams'
    BY <1>3, <2>2, <2>3 DEF Streams
  <2> QED BY <1>1, <1>2, <1>3, <2>2, <2>4
<1>5. CASE TcpFin(c) \/ TcpReset(c)
  <2>1. /\ sentN' = sentN
        /\ \/ peer' = [peer EXCEPT ![c] = "fin"]
           \/ peer' = [peer EXCEPT ![c] = "rst"]
           \/ peer' = [peer EXCEPT ![c] = "cut"]
    BY <1>1, <1>5 DEF TcpFin, TcpReset
  <2>2. peer' \in [Clients -> {"open", "fin", "rst", "gone", "cut"}] /\ peer'[c] # "gone"
    BY <1>1, <2>1
  <2>3. Streams'
    BY <1>3, <2>1, <2>2 DEF Streams
  <2> QED BY <1>1, <1>2, <1>3, <2>1, <2>2, <2>3
<1> QED BY <1>2, <1>4, <1>5
============================================================================
