-------------------------------- MODULE Tcp --------------------------------
(***************************************************************************)
(* The kernel's side of the TCP connections of a chat server: the accept   *)
(* queue of the listening socket and, for each client, the byte stream     *)
(* towards the server and what came back.  None of it is code of this      *)
(* repository: it is modelled from how src/Server.cpp and src/Socket.cpp,  *)
(* and apps/server.cpp, use accept(), recv(), write() and close() on       *)
(* non-blocking client sockets under Linux (the programs need epoll).      *)
(*                                                                         *)
(* A byte is identified by its position in its client's stream, so that    *)
(* "the server wrote back what the client sent" can be stated.             *)
(***************************************************************************)
EXTENDS Integers, Sequences, FiniteSets

CONSTANTS
  Clients,    \* client sockets, one connection each
  MaxBytes,   \* bound: bytes a client sends
  Backlog,    \* bound: length of the accept queue, the argument of listen()
  NulAt,      \* NulAt[c]: which byte of c's stream is '\0', 0 when none is
  MayReset    \* clients whose connection may be reset instead of closed

ASSUME TcpAssumption == /\ MaxBytes \in Nat
                        /\ Backlog \in Nat
                        /\ NulAt \in [Clients -> 0..MaxBytes]
                        /\ MayReset \subseteq Clients

VARIABLES
  link,     \* "idle", "queued" (accept queue), "accepted" or "closed" (by the server)
  backlog,  \* the accept queue, oldest first
  sentN,    \* bytes of the client that have reached the server's kernel
  readN,    \* bytes recv() has handed to the server
  peer,     \* the client's half: "open", "fin", "rst" (reset, error not yet reported
            \* to the server), "gone" (reset, reported) or "cut" (reset after its fin)
  echoed    \* the bytes the server has written to the client

tcpVars == <<link, backlog, sentN, readN, peer, echoed>>

NUL == 0
Byte(c, k) == IF k = NulAt[c] THEN NUL ELSE k

\* poll() reports EPOLLIN: unread bytes, end of stream or an error.
Unread(c)   == sentN[c] - readN[c]
HasInput(c) == Unread(c) > 0 \/ peer[c] # "open"

\* poll() reports EPOLLERR or EPOLLHUP.
WasReset(c) == peer[c] \in {"rst", "gone", "cut"}

TcpInit == /\ link = [c \in Clients |-> "idle"]
           /\ backlog = <<>>
           /\ sentN = [c \in Clients |-> 0]
           /\ readN = [c \in Clients |-> 0]
           /\ peer = [c \in Clients |-> "open"]
           /\ echoed = [c \in Clients |-> <<>>]

\* The type of the variables, for the type invariants of the modules that extend this.
TcpTypeOK == /\ link \in [Clients -> {"idle", "queued", "accepted", "closed"}]
             /\ backlog \in Seq(Clients)
             /\ sentN \in [Clients -> 0..MaxBytes]
             /\ readN \in [Clients -> 0..MaxBytes]
             /\ peer \in [Clients -> {"open", "fin", "rst", "gone", "cut"}]
             /\ echoed \in [Clients -> Seq(Int)]

\* A client's connect() completes.
TcpConnect(c) == /\ link[c] = "idle"
                 /\ Len(backlog) < Backlog
                 /\ link' = [link EXCEPT ![c] = "queued"]
                 /\ backlog' = Append(backlog, c)
                 /\ UNCHANGED <<sentN, readN, peer, echoed>>

Connected(c) == link[c] \in {"queued", "accepted"}

\* A byte, the end of the stream or a reset arrives from a connected client; after the end
\* of its stream, only a reset can.
TcpByte(c) == /\ peer[c] = "open"
              /\ sentN[c] < MaxBytes
              /\ sentN' = [sentN EXCEPT ![c] = @ + 1]
              /\ UNCHANGED <<link, backlog, readN, peer, echoed>>

TcpFin(c) == /\ peer[c] = "open"
             /\ peer' = [peer EXCEPT ![c] = "fin"]
             /\ UNCHANGED <<link, backlog, sentN, readN, echoed>>

TcpReset(c) == /\ c \in MayReset
               /\ peer[c] \in {"open", "fin"}
               /\ peer' = [peer EXCEPT ![c] = IF @ = "open" THEN "rst" ELSE "cut"]
               /\ UNCHANGED <<link, backlog, sentN, readN, echoed>>

TcpArrival(c) == /\ Connected(c)
                 /\ TcpByte(c) \/ TcpFin(c) \/ TcpReset(c)

\* accept() takes the oldest connection of the queue.
TcpAccept(c) == /\ backlog # <<>>
                /\ c = Head(backlog)
                /\ backlog' = Tail(backlog)
                /\ link' = [link EXCEPT ![c] = "accepted"]
                /\ UNCHANGED <<sentN, readN, peer, echoed>>

\* recv() with room for n bytes: the bytes it returns.
RecvCount(c, n) == IF Unread(c) < n THEN Unread(c) ELSE n

TcpRecv(c, k) == /\ readN' = [readN EXCEPT ![c] = @ + k]
                 /\ UNCHANGED <<link, backlog, sentN, peer, echoed>>

\* recv() returns -1 with ECONNRESET once, after the unread bytes; but after the end of
\* the stream it returns 0, whatever comes then.
ResetPending(c) == Unread(c) = 0 /\ peer[c] = "rst"

TcpReportReset(c) == /\ peer' = [peer EXCEPT ![c] = "gone"]
                     /\ UNCHANGED <<link, backlog, sentN, readN, echoed>>

\* A buffer after recv() has put the next k bytes into it, from index `at` on.
Filled(buf, at, c, k) == [i \in DOMAIN buf |-> IF i \in at..at + k - 1
                                             THEN Byte(c, readN[c] + i - at + 1) ELSE buf[i]]

\* recv() with room for n bytes returns 0 or, on a non-blocking socket, -1 with EAGAIN.
RecvEnds(c, n, nonblocking) == /\ RecvCount(c, n) = 0
                               /\ ~ResetPending(c)
                               /\ nonblocking \/ n = 0 \/ peer[c] # "open"

\* write() of the bytes s, a few kilobytes into an empty send buffer, is complete
\* unless the connection was reset; then the descriptor is closed.
TcpWriteClose(c, s) ==
  /\ echoed' = IF peer[c] \in {"open", "fin"}
               THEN [echoed EXCEPT ![c] = @ \o s] ELSE echoed
  /\ link' = [link EXCEPT ![c] = "closed"]
  /\ UNCHANGED <<backlog, sentN, readN, peer>>

\* A write() raises SIGPIPE, whose default action ends the process (the program installs
\* no handler), if the reset has been reported or came after the end of the stream; the
\* first write() after any other reset fails with ECONNRESET.  A count that is no valid
\* size, (size_t)-1, fails before the socket is looked at.
SigPipe(c, n) == peer[c] \in {"gone", "cut"} /\ n >= 0
=============================================================================
