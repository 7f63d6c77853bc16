----------------------------- MODULE ThreadPool -----------------------------
(***************************************************************************)
(* class ThreadPool (inc/threadpool/ThreadPool.hpp and                     *)
(* src/threadpool/ThreadPool.cpp): a fixed set of worker threads, a FIFO   *)
(* of tasks, one mutex and one condition variable.                         *)
(*                                                                         *)
(* Every access of the code to `quit` and `tasks` happens with `mtx` held; *)
(* the model keeps the mutex explicit, so that what the lock is for (no    *)
(* notification may fall between the evaluation of the wait predicate and  *)
(* the moment the worker sleeps) is checked and not assumed.               *)
(*                                                                         *)
(* What a task does is external, up to the two things that concern the     *)
(* pool: a task's body may enqueue further tasks (its children) and may    *)
(* wait for the future of such a child before it returns.                  *)
(***************************************************************************)
EXTENDS Integers, Sequences, FiniteSets

CONSTANTS
  Tasks,                \* the calls of enqueue the callers may make
  Clients,              \* threads, other than the owner, that call enqueue
  Owner,                \* the thread that constructs and destroys the pool
  Parent,               \* Parent[k]: the task whose body enqueues k, or NoTask
  Awaited,              \* children whose future the parent's body waits for
  ThreadNumArg,         \* the constructor's argument _thread_num
  HardwareConcurrency,  \* what std::thread::hardware_concurrency() returns
  NoTask, NoThread

\* The constructor's clamp: anything but 1..hw asks for every hardware thread.
ThreadCount(n, hw) == IF n <= 0 \/ n > hw THEN hw ELSE n

thread_num == ThreadCount(ThreadNumArg, HardwareConcurrency)

Workers == 1..thread_num
Callers == Clients \cup {Owner}
Threads == Workers \cup Callers

ASSUME ArgAssumption == ThreadNumArg \in Int /\ HardwareConcurrency \in Nat
ASSUME ThreadAssumption == /\ Callers \cap Workers = {}
                           /\ Owner \notin Clients
                           /\ NoThread \notin Threads
ASSUME TaskAssumption == /\ NoTask \notin Tasks
                         /\ Parent \in [Tasks -> Tasks \cup {NoTask}]
                         /\ Awaited \subseteq Tasks

VARIABLES
  owner,   \* where the owner is: "ctor", "open", "dtor", "join" or "destroyed"
  exited,  \* errif called exit(): the process is gone
  quit,    \* the flag quit
  mtx,     \* the thread that holds mtx, or NoThread
  tasks,   \* the queue tasks, front first
  arg,     \* the task the holder of mtx is about to push, or NoTask
  pc,      \* where each worker is
  cur,     \* the task each worker holds in its local variable task
  status   \* "new", "queued", "running" or "done" for each task and its future

vars == <<owner, exited, quit, mtx, tasks, arg, pc, cur, status>>

Waiting == {w \in Workers : pc[w] = "waiting"}

Init == /\ owner = "ctor"
        /\ exited = FALSE
        /\ quit = FALSE
        /\ mtx = NoThread
        /\ tasks = <<>>
        /\ arg = NoTask
        /\ pc = [w \in Workers |-> "unborn"]
        /\ cur = [w \in Workers |-> NoTask]
        /\ status = [k \in Tasks |-> "new"]
-----------------------------------------------------------------------------
(* The constructor: workers.emplace_back starts the threads one by one, and *)
(* a started thread runs while the others are still being created.         *)

SpawnWorker(w) == /\ owner = "ctor"
                  /\ pc[w] = "unborn"
                  /\ \A v \in Workers : v < w => pc[v] # "unborn"
                  /\ pc' = [pc EXCEPT ![w] = "lock"]
                  /\ UNCHANGED <<owner, exited, quit, mtx, tasks, arg, cur, status>>

CtorReturn == /\ owner = "ctor"
              /\ \A w \in Workers : pc[w] # "unborn"
              /\ owner' = "open"
              /\ UNCHANGED <<exited, quit, mtx, tasks, arg, pc, cur, status>>
-----------------------------------------------------------------------------
(* enqueue: by a client, by the owner before it starts the destructor, or   *)
(* by a worker from the body of the task it runs.                          *)

MayCall(t, k) == \/ t \in Clients /\ Parent[k] = NoTask /\ owner \in {"open", "join"}
                 \/ t = Owner /\ Parent[k] = NoTask /\ owner = "open"
                 \/ t \in Workers /\ pc[t] = "run" /\ cur[t] = Parent[k]

EnqueueLock(t, k) == /\ mtx = NoThread
                     /\ status[k] = "new"
                     /\ MayCall(t, k)
                     /\ mtx' = t
                     /\ arg' = k
                     /\ UNCHANGED <<owner, exited, quit, tasks, pc, cur, status>>

NotifyOne_Forgotten == pc' = pc

\* cv.notify_one: one waiting worker, whichever, goes for the mutex.
NotifyOne == IF Waiting = {}
             THEN pc' = pc
             ELSE \E w \in Waiting : pc' = [pc EXCEPT ![w] = "lock"]

Push_AfterReset == tasks' = Append(tasks, NoTask)
Push == tasks' = Append(tasks, arg)

EnqueuePush(t) == /\ mtx = t
                  /\ arg # NoTask
                  /\ ~quit
                  /\ Push
                  /\ status' = [status EXCEPT ![arg] = "queued"]
                  /\ NotifyOne
                  /\ mtx' = NoThread
                  /\ arg' = NoTask
                  /\ UNCHANGED <<owner, exited, quit, cur>>

\* errif(quit == true, ...) prints and calls exit(EXIT_FAILURE).
EnqueueDying(t) == /\ mtx = t
                   /\ arg # NoTask
                   /\ quit
                   /\ exited' = TRUE
                   /\ UNCHANGED <<owner, quit, mtx, tasks, arg, pc, cur, status>>
-----------------------------------------------------------------------------
(* A worker's loop.  cv.wait(lock, pred) evaluates pred with the mutex     *)
(* held; when pred is false it gives up the mutex and sleeps in one step,  *)
(* and after any wakeup takes the mutex and evaluates pred again.          *)

WorkerLock(w) == /\ pc[w] = "lock"
                 /\ mtx = NoThread
                 /\ mtx' = w
                 /\ pc' = [pc EXCEPT ![w] = "check"]
                 /\ UNCHANGED <<owner, exited, quit, tasks, arg, cur, status>>

PredicateFalse(w) == /\ pc[w] = "check"
                     /\ ~quit /\ tasks = <<>>
                     /\ pc' = [pc EXCEPT ![w] = "sleep"]
                     /\ UNCHANGED <<owner, exited, quit, mtx, tasks, arg, cur, status>>

Sleep(w) == /\ pc[w] = "sleep"
            /\ pc' = [pc EXCEPT ![w] = "waiting"]
            /\ mtx' = NoThread
            /\ UNCHANGED <<owner, exited, quit, tasks, arg, cur, status>>

SpuriousWakeup(w) == /\ pc[w] = "waiting"
                     /\ pc' = [pc EXCEPT ![w] = "lock"]
                     /\ UNCHANGED <<owner, exited, quit, mtx, tasks, arg, cur, status>>

MayReturn_Undrained == quit
MayReturn == quit /\ tasks = <<>>

WorkerReturn(w) == /\ pc[w] = "check"
                   /\ MayReturn
                   /\ pc' = [pc EXCEPT ![w] = "returned"]
                   /\ mtx' = NoThread
                   /\ UNCHANGED <<owner, exited, quit, tasks, arg, cur, status>>

Front_Newest == tasks[Len(tasks)]
Front == Head(tasks)

Pop_Forgotten == UNCHANGED tasks
Pop == tasks' = Tail(tasks)

TakeTask(w) == /\ pc[w] = "check"
               /\ tasks # <<>>
               /\ cur' = [cur EXCEPT ![w] = Front]
               /\ status' = [status EXCEPT ![Front] = "running"]
               /\ Pop
               /\ pc' = [pc EXCEPT ![w] = "run"]
               /\ mtx' = NoThread
               /\ UNCHANGED <<owner, exited, quit, arg>>

\* The body of the task has enqueued its children and got what it waits for.
BodyDone(k) == \A c \in Tasks : Parent[c] = k => /\ status[c] # "new"
                                                 /\ c \in Awaited => status[c] = "done"

FinishTask(w) == /\ pc[w] = "run"
                 /\ mtx # w
                 /\ BodyDone(cur[w])
                 /\ status' = [status EXCEPT ![cur[w]] = "done"]
                 /\ cur' = [cur EXCEPT ![w] = NoTask]
                 /\ pc' = [pc EXCEPT ![w] = "lock"]
                 /\ UNCHANGED <<owner, exited, quit, mtx, tasks, arg>>
-----------------------------------------------------------------------------
(* The destructor. *)

DtorLock == /\ owner = "open"
            /\ mtx = NoThread
            /\ mtx' = Owner
            /\ owner' = "dtor"
            /\ UNCHANGED <<exited, quit, tasks, arg, pc, cur, status>>

\* cv.notify_all: every waiting worker.
NotifyAll == pc' = [w \in Workers |-> IF pc[w] = "waiting" THEN "lock" ELSE pc[w]]

DtorQuit == /\ owner = "dtor"
            /\ quit' = TRUE
            /\ NotifyAll
            /\ mtx' = NoThread
            /\ owner' = "join"
            /\ UNCHANGED <<exited, tasks, arg, cur, status>>

DtorJoin == /\ owner = "join"
            /\ \A w \in Workers : pc[w] = "returned"
            /\ owner' = "destroyed"
            /\ UNCHANGED <<exited, quit, mtx, tasks, arg, pc, cur, status>>
-----------------------------------------------------------------------------
WorkerStep(w) == \/ WorkerLock(w) \/ PredicateFalse(w) \/ Sleep(w)
                 \/ WorkerReturn(w) \/ TakeTask(w) \/ FinishTask(w)

EnqueueStep(t) == \/ \E k \in Tasks : EnqueueLock(t, k)
                  \/ EnqueuePush(t)
                  \/ EnqueueDying(t)

OwnerStep == \/ \E w \in Workers : SpawnWorker(w)
             \/ CtorReturn
             \/ DtorLock
             \/ DtorQuit
             \/ DtorJoin

\* A call still inside enqueue when the destructor returns is outside the
\* lifetime of the pool: the model stops there.
Alive == ~exited /\ owner # "destroyed"

Running == /\ Alive
           /\ \/ \E w \in Workers : WorkerStep(w) \/ SpuriousWakeup(w)
              \/ \E t \in Threads : EnqueueStep(t)
              \/ OwnerStep

\* The process has exited or the pool is destroyed: nothing is left to run.
Stopped == /\ ~Alive
           /\ UNCHANGED vars

Next == Running \/ Stopped

Spec == Init /\ [][Next]_vars

\* Threads that are not blocked run on; a thread's own task bodies return.
\* Nobody has to call enqueue or to start the destructor.
Fairness ==
  /\ \A w \in Workers : WF_vars(Alive /\ (WorkerStep(w) \/ EnqueueStep(w)))
  /\ \A t \in Callers : WF_vars(Alive /\ (EnqueuePush(t) \/ EnqueueDying(t)))
  /\ WF_vars(Alive /\ OwnerStep /\ owner # "open")
  \* Spurious wakeups are finitely many: the C++ runtime may cause one at any
  \* time, but does not cause them for ever.
  /\ <>[][~\E w \in Workers : SpuriousWakeup(w)]_vars

FairSpec == Spec /\ Fairness
-----------------------------------------------------------------------------
(* Correctness. *)

Elements(s) == {s[i] : i \in DOMAIN s}

\* The variables keep their types.
TypeOK == /\ owner \in {"ctor", "open", "dtor", "join", "destroyed"}
          /\ exited \in BOOLEAN
          /\ quit \in BOOLEAN
          /\ mtx \in Threads \cup {NoThread}
          /\ tasks \in Seq(Tasks)
          /\ arg \in Tasks \cup {NoTask}
          /\ pc \in [Workers -> {"unborn", "lock", "check", "sleep", "waiting",
                                 "run", "returned"}]
          /\ cur \in [Workers -> Tasks \cup {NoTask}]
          /\ status \in [Tasks -> {"new", "queued", "running", "done"}]

\* front() and pop() hand each task to exactly one worker: a queued task is in
\* the queue once, a running one is held by exactly one worker, and a task that
\* is new or done is nowhere (no task is dropped, none runs twice).
TaskAccounting ==
  /\ \A i, j \in DOMAIN tasks : tasks[i] = tasks[j] => i = j
  /\ \A k \in Tasks : status[k] = "queued" <=> k \in Elements(tasks)
  /\ \A k \in Tasks : status[k] = "running" <=> \E w \in Workers : cur[w] = k
  /\ \A v, w \in Workers : cur[v] = cur[w] /\ cur[v] # NoTask => v = w

Awake == {w \in Workers : pc[w] \in {"lock", "check"}}

\* notify_one is called once per task and never wasted: as long as some worker
\* sleeps, at least as many workers are on their way to the queue as it has tasks.
NoLostWakeup == Waiting # {} => Cardinality(Awake) >= Len(tasks)

\* notify_all in the destructor misses nobody: once quit is set no worker sleeps
\* or is about to sleep, so that join() cannot hang on a sleeping worker.
QuitWakesAll == quit => \A w \in Workers : pc[w] \notin {"sleep", "waiting"}

\* The destructor drains the queue: a worker returns only when nothing is queued,
\* and when the destructor has joined the workers every accepted task is done.
DrainBeforeDestroy ==
  /\ (\E w \in Workers : pc[w] = "returned") => tasks = <<>>
  /\ owner = "destroyed" => \A k \in Tasks : status[k] \in {"new", "done"}

\* Every accepted task is run to its end, and its future becomes ready, unless the
\* process exits (an enqueue after quit).
EveryTaskRuns == \A k \in Tasks : status[k] = "queued" ~> (status[k] = "done" \/ exited)

\* A destructor that has started joining returns, unless the process exits.
DestructorReturns == owner = "join" ~> (owner = "destroyed" \/ exited)

\* inc/threadpool/ThreadPool.hpp:20-21: _thread_num is the number of threads the
\* pool starts, 0 asks for as many as the system can run: a constructed pool has
\* at least one worker to run its tasks.
PoolHasWorkers == owner = "open" => Workers # {}

Active   == {k \in Tasks : status[k] = "running"}
Finished == {k \in Tasks : status[k] = "done"}
Phase    == IF exited THEN "aborted"
            ELSE IF owner = "destroyed" THEN "ended"
            ELSE IF quit THEN "closing" ELSE "open"

\* What the pool promises to its callers (module TaskService): FIFO start, at most
\* thread_num running, each task once, end only when drained.
Service == INSTANCE TaskService WITH Capacity <- thread_num,
             pending <- tasks, active <- Active, finished <- Finished, phase <- Phase

ImplementsTaskService == Service!SSpec
=============================================================================
