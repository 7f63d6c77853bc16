---------------------------- MODULE EpollKernel ----------------------------
(***************************************************************************)
(* An epoll instance of the Linux kernel: the interest list and the ready  *)
(* list, edge-triggered ("ET" in the mask) or level-triggered per          *)
(* descriptor.  It is no code of this repository: it is modelled from how  *)
(* src/Epoll.cpp and apps/server.cpp call epoll_ctl and epoll_wait.        *)
(*                                                                         *)
(* Whether a descriptor has input or a failed connection is the business   *)
(* of its socket: the operators take both as arguments.                    *)
(***************************************************************************)
EXTENDS Integers, FiniteSets

CONSTANTS
  Fds,        \* valid descriptors
  MaxEvents   \* size of the array passed to epoll_wait

VARIABLES
  interest,   \* interest[f]: the event mask f is registered with, {} when it is not
  ready       \* the ready list

KernelInit == /\ interest = [f \in Fds |-> {}]
              /\ ready = {}

\* Something arrives on descriptor f: it becomes ready if it is registered for input.
Wake(f) == ready' = IF f \in Fds /\ "IN" \in interest[f] THEN ready \cup {f} ELSE ready

\* epoll_ctl(ADD or MOD) looks at the socket at once: f is ready if it can be
\* written and is registered for that, or has input and is registered for input.
CtlSet(f, mask, input) ==
  IF f \in Fds
  THEN /\ interest' = [interest EXCEPT ![f] = mask]
       /\ ready' = IF "OUT" \in mask \/ ("IN" \in mask /\ input)
                   THEN ready \cup {f} ELSE ready \ {f}
  ELSE UNCHANGED <<interest, ready>>   \* EBADF

\* epoll_ctl(DEL), or close() of the descriptor.
Forget(f) == /\ interest' = [interest EXCEPT ![f] = {}]
             /\ ready' = ready \ {f}

\* What epoll_wait finds on the ready list.
Reportable(input) == {f \in ready : "OUT" \in interest[f] \/ ("IN" \in interest[f] /\ f \in input)}

\* EPOLLERR and EPOLLHUP of a failed connection are reported without being asked for.
Events(f, input, failed) == (IF f \in input THEN interest[f] \cap {"IN"} ELSE {})
                            \cup (interest[f] \cap {"OUT"})
                            \cup (IF f \in failed THEN {"ERR"} ELSE {})

\* epoll_wait returns a batch S of the reportable descriptors, at most MaxEvents.  A
\* level-triggered descriptor stays on the ready list, an edge-triggered one leaves it.
Deliver(S, input) ==
  LET found == Reportable(input) IN
  /\ S \subseteq found
  /\ S # {}
  /\ Cardinality(S) = IF Cardinality(found) < MaxEvents THEN Cardinality(found) ELSE MaxEvents
  /\ ready' = {f \in found : f \in S => "ET" \notin interest[f]}
  /\ UNCHANGED interest
=============================================================================
