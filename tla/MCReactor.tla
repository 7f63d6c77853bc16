----------------------------- MODULE MCReactor -----------------------------
(* Instances of Reactor for TLC. *)
EXTENDS Reactor

CONSTANTS c1, c2, c3

MCTwo   == {c1, c2}
MCThree == {c1, c2, c3}
MCNone  == {}
MCOne   == {c1}

\* The listening socket and two descriptors for clients, numbered as in the process.
MCFds   == {4, 5, 6}
MCNoFd  == -1

\* Streams without '\0', and streams where the second client's second byte is one.
MCPlainTwo   == [c \in MCTwo |-> 0]
MCPlainThree == [c \in MCThree |-> 0]
MCNulTwo     == [c \in MCTwo |-> IF c = c2 THEN 2 ELSE 0]
============================================================================
