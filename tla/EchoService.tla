---------------------------- MODULE EchoService ----------------------------
(***************************************************************************)
(* What the echo server promises, without epoll, descriptors, buffers or   *)
(* callbacks: clients that arrive are admitted in the order of their       *)
(* arrival, at most Capacity at a time; an admitted client is answered     *)
(* once, with the first bytes of its own message, and is then let go.      *)
(***************************************************************************)
EXTENDS Naturals, Sequences, FiniteSets

CONSTANTS Clients, Capacity

VARIABLES stage,   \* "idle", "queued", "accepted" or "closed" for each client
          line,    \* the clients that wait to be admitted, oldest first
          said,    \* how many bytes each client has sent
          answer,  \* what each client got back
          mode     \* "starting", "up" or "down"

evars == <<stage, line, said, answer, mode>>

EInit == /\ stage = [c \in Clients |-> "idle"]
         /\ line = <<>>
         /\ said = [c \in Clients |-> 0]
         /\ answer = [c \in Clients |-> <<>>]
         /\ mode = "starting"

GoUp   == mode = "starting" /\ mode' = "up" /\ UNCHANGED <<stage, line, said, answer>>
GoDown == mode # "down" /\ mode' = "down" /\ UNCHANGED <<stage, line, said, answer>>

Arrive(c) == /\ mode # "down" /\ stage[c] = "idle"
             /\ stage' = [stage EXCEPT ![c] = "queued"]
             /\ line' = Append(line, c)
             /\ UNCHANGED <<said, answer, mode>>

Say(c) == /\ mode # "down" /\ stage[c] \in {"queued", "accepted"}
          /\ said' = [said EXCEPT ![c] = @ + 1]
          /\ UNCHANGED <<stage, line, answer, mode>>

Admit == /\ mode = "up" /\ line # <<>>
         /\ Cardinality({c \in Clients : stage[c] = "accepted"}) < Capacity
         /\ stage' = [stage EXCEPT ![Head(line)] = "accepted"]
         /\ line' = Tail(line)
         /\ UNCHANGED <<said, answer, mode>>

\* Byte number i of a message is written i.
Answer(c) == /\ mode = "up" /\ stage[c] = "accepted"
             /\ \E n \in 0..said[c] : answer' = [answer EXCEPT ![c] = [i \in 1..n |-> i]]
             /\ stage' = [stage EXCEPT ![c] = "closed"]
             /\ UNCHANGED <<line, said, mode>>

ENext == GoUp \/ GoDown \/ Admit \/ \E c \in Clients : Arrive(c) \/ Say(c) \/ Answer(c)

ESpec == EInit /\ [][ENext]_evars
=============================================================================
