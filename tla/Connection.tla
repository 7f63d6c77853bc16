----------------------------- MODULE Connection -----------------------------
(***************************************************************************)
(* class Connection (inc/Connection.hpp, src/Connection.cpp) and its       *)
(* address, class InetAddress.  An object is a record of its fields; its   *)
(* member functions are operators from records to records, so that a       *)
(* callback is written as the sequence of calls it makes.  `conn` maps     *)
(* each object that exists, one that was created and not deleted, to its   *)
(* fields.                                                                 *)
(***************************************************************************)
EXTENDS Integers

CONSTANTS
  NoFd,       \* the descriptor -1
  Null,       \* nullptr, and a std::function that was not set
  BufLen      \* RECV_BUFFER_LENGTH and SEND_BUFFER_LENGTH

VARIABLES
  conn,       \* the fields of each Connection object that exists
  openFds     \* descriptors of clients the process has open

Slots   == 0..BufLen - 1
Garbage == -1    \* what memory holds that was never written
Zeroed  == [i \in Slots |-> 0]

\* InetAddress(): the address in it is all zero, until accept() stores the client's.
InetAddress == "0.0.0.0:0"

\* InetAddress("127.0.0.1", 8080), where the server listens.
ServerAddress == "127.0.0.1:8080"

\* Connection(fd, inetAddr).  `nonblocking` is the O_NONBLOCK flag of the descriptor.
NewObject(fd, inetAddr) ==
  [fd |-> fd, inetAddr |-> inetAddr, inEpoll |-> FALSE, nonblocking |-> FALSE,
   event |-> {}, revent |-> {}, recvCallback |-> Null, sendCallback |-> Null,
   rbuffer |-> [i \in Slots |-> Garbage], rlen |-> 0,
   wbuffer |-> [i \in Slots |-> Garbage], wlen |-> 0]

\* The fields callers ask for.
getFd(c) == c.fd
getInEpoll(c) == c.inEpoll
getEvent(c) == c.event
getREvent(c) == c.revent
getCurRlen(c) == c.rlen
getCurWlen(c) == c.wlen

setNonBlocking_Skipped(c) == c
setNonBlocking(c) == [c EXCEPT !.nonblocking = (c.fd # NoFd)]

setInEpoll(c) == [c EXCEPT !.inEpoll = TRUE]
setEvent(c, flags)  == [c EXCEPT !.event = flags]
setREvent(c, flags) == [c EXCEPT !.revent = flags]

setRecvCallback_Forgotten(c, f) == c
setRecvCallback(c, f) == [c EXCEPT !.recvCallback = f]
setSendCallback_Forgotten(c, f) == c
setSendCallback(c, f) == [c EXCEPT !.sendCallback = f]

rBufferClear(c) == [c EXCEPT !.rbuffer = Zeroed]
setRBuffer(c, bytes) == [c EXCEPT !.rbuffer = bytes]   \* through getrBuffer()
setWBuffer(c, bytes) == [c EXCEPT !.wbuffer = bytes]   \* through getwBuffer()
setRLen(c, n) == [c EXCEPT !.rlen = n]
setWLen_Whole(c, n) == [c EXCEPT !.wlen = BufLen]
setWLen(c, n) == [c EXCEPT !.wlen = n]

\* Object o exists from now on, or has from now on these fields.
Store(o, c) == conn' = [x \in DOMAIN conn \cup {o} |-> IF x = o THEN c ELSE conn[x]]

Destroy_Unclosed(o) == /\ conn' = [x \in DOMAIN conn \ {o} |-> conn[x]]
                       /\ UNCHANGED openFds

\* delete: the fields, the address and the open descriptor go with the object.
Destroy(o) == /\ conn' = [x \in DOMAIN conn \ {o} |-> conn[x]]
              /\ openFds' = openFds \ {conn[o].fd}
=============================================================================
