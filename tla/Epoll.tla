------------------------------- MODULE Epoll -------------------------------
(***************************************************************************)
(* class Epoll (inc/Epoll.hpp, src/Epoll.cpp): the map connMap from        *)
(* descriptors to Connection objects, on top of the kernel's epoll         *)
(* instance.                                                               *)
(***************************************************************************)
EXTENDS EpollKernel, Connection

VARIABLE connMap    \* the Connection object each descriptor maps to

epollVars == <<interest, ready, connMap>>

EpollInit == /\ KernelInit
             /\ connMap = [f \in Fds \cup {NoFd} |-> Null]

\* updateConnection(conn, ACTION_UPDATE) for object o, whose fields are c; it ignores
\* the result of epoll_ctl.  `input` tells whether the socket has input.
UpdateConnection(o, c, input) ==
  /\ CtlSet(getFd(c), getEvent(c), input)
  /\ connMap' = IF getInEpoll(c) THEN connMap ELSE [connMap EXCEPT ![getFd(c)] = o]
  /\ Store(o, setInEpoll(c))

WithoutEntry_Kept(fd) == connMap
WithoutEntry(fd) == [connMap EXCEPT ![fd] = Null]

\* updateConnection(conn, ACTION_DELETE).
DeleteConnection(o) == /\ getInEpoll(conn[o])
                       /\ connMap' = WithoutEntry(getFd(conn[o]))
                       /\ Forget(getFd(conn[o]))
                       /\ Destroy(o)

\* setRecvCallback and setSendCallback of this class bind the function to the object and to
\* the loop and hand it on.
BindRecvCallback(c, f) == setRecvCallback(c, f)
BindSendCallback(c, f) == setSendCallback(c, f)

\* wait(timeout) returns the Connections of the batch S, in any order, and stores the
\* events in each of them.
Wait(S, input, failed) ==
  /\ Deliver(S, input)
  /\ conn' = [o \in DOMAIN conn |->
                IF \E f \in S : connMap[f] = o
                THEN setREvent(conn[o], Events(CHOOSE f \in S : connMap[f] = o, input, failed))
                ELSE conn[o]]
  /\ UNCHANGED <<connMap, openFds>>
=============================================================================
