--------------------------- MODULE MCThreadPool ---------------------------
(* Instances of ThreadPool for TLC. *)
EXTENDS ThreadPool

CONSTANTS a, b, c, d, e, c1, c2, main

\* Three tasks of clients, one that the body of a enqueues and one of the body of b.
MCTasks  == {a, b, c, d, e}
MCParent == [k \in MCTasks |-> CASE k = d -> a [] k = e -> b [] OTHER -> NoTask]

\* The body of a waits for the future of its child, that of b does not.
MCAwaited == {d}

MCClients == {c1, c2}
===========================================================================
