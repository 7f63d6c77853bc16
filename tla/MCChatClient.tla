---------------------------- MODULE MCChatClient ----------------------------
(* An instance of ChatClient for TLC. *)
EXTENDS ChatClient

CONSTANTS c1, c2

MCTwo   == {c1, c2}
MCNone  == {}
MCFds   == {4, 5, 6}
MCNoFd  == -1
MCPlain == [c \in MCTwo |-> 0]

\* One user types up to two lines of up to three bytes in all, the other a single one of
\* at most one byte.
MCMaxLines == [c \in MCTwo |-> IF c = c1 THEN 2 ELSE 1]
MCMaxSent  == [c \in MCTwo |-> IF c = c1 THEN 3 ELSE 1]
=============================================================================
