-------------------------- MODULE MCLegacyServer --------------------------
(* Instances of LegacyServer for TLC. *)
EXTENDS LegacyServer

CONSTANTS c1, c2, c3

MCThree == {c1, c2, c3}
MCOne   == {c1}

\* Two descriptors for clients, numbered from where the process has them.
MCFds == {5, 6}

\* Nothing here depends on the values of the bytes.
MCPlain == [c \in MCThree |-> 0]
===========================================================================
