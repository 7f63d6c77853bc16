---------------------------- MODULE TaskService ----------------------------
(***************************************************************************)
(* What a ThreadPool promises to its callers, without threads, locks or    *)
(* condition variables: tasks handed over while the service is open are    *)
(* started first-in first-out, at most Capacity run at a time, each runs   *)
(* exactly once, and the service ends only after everything it accepted    *)
(* has finished -- unless the process itself is aborted.                   *)
(***************************************************************************)
EXTENDS Naturals, Sequences, FiniteSets

CONSTANTS Tasks,     \* the tasks callers may hand over
          Capacity   \* how many tasks may run at the same time

VARIABLES pending,   \* accepted tasks that have not started, oldest first
          active,    \* tasks that are running
          finished,  \* tasks that have run to their end
          phase      \* "open", "closing", "ended" or "aborted"

svars == <<pending, active, finished, phase>>

Accepted == {pending[i] : i \in DOMAIN pending} \cup active \cup finished

SInit == /\ pending = <<>>
         /\ active = {}
         /\ finished = {}
         /\ phase = "open"

\* A task that was never handed over before is accepted while the service is open.
Accept(k) == /\ phase = "open"
             /\ k \notin Accepted
             /\ pending' = Append(pending, k)
             /\ UNCHANGED <<active, finished, phase>>

\* The oldest accepted task starts.
Start == /\ phase \in {"open", "closing"}
         /\ pending # <<>>
         /\ Cardinality(active) < Capacity
         /\ active' = active \cup {Head(pending)}
         /\ pending' = Tail(pending)
         /\ UNCHANGED <<finished, phase>>

Finish(k) == /\ phase \in {"open", "closing"}
             /\ k \in active
             /\ active' = active \ {k}
             /\ finished' = finished \cup {k}
             /\ UNCHANGED <<pending, phase>>

Close == /\ phase = "open"
         /\ phase' = "closing"
         /\ UNCHANGED <<pending, active, finished>>

\* The service ends only when it has nothing left to do.
End == /\ phase = "closing"
       /\ pending = <<>>
       /\ active = {}
       /\ phase' = "ended"
       /\ UNCHANGED <<pending, active, finished>>

\* Handing over a task to a closing service kills the whole process.
Abort == /\ phase = "closing"
         /\ phase' = "aborted"
         /\ UNCHANGED <<pending, active, finished>>

SNext == \/ \E k \in Tasks : Accept(k) \/ Finish(k)
         \/ Start
         \/ Close
         \/ End
         \/ Abort

SSpec == SInit /\ [][SNext]_svars
=============================================================================
