-------------------------- MODULE ThreadPoolProofs --------------------------
(* Theorems about ThreadPool, for every number of workers, clients and tasks. *)
EXTENDS ThreadPool, FiniteSetTheorems, TLAPS

(***************************************************************************)
(* The inductive invariant.                                                *)
(***************************************************************************)

\* Who holds the mutex, and where it is in the code: a worker in cv.wait or after it,
\* a caller inside enqueue, or the owner in the destructor.
Holder == /\ \A w \in Workers : pc[w] \in {"check", "sleep"} => mtx = w
          /\ \A w \in Workers : mtx = w => \/ pc[w] \in {"check", "sleep"} /\ arg = NoTask
                                           \/ pc[w] = "run" /\ arg # NoTask
          /\ mtx = NoThread => arg = NoTask
          /\ owner = "dtor" => mtx = Owner /\ arg = NoTask
          /\ arg # NoTask => status[arg] = "new"

\* quit is set exactly when the destructor has released the mutex.
QuitPhase == quit <=> owner \in {"join", "destroyed"}

\* A worker about to sleep has just seen an empty queue, and nobody changed it since.
SleepInv == \A w \in Workers : pc[w] = "sleep" => tasks = <<>> /\ ~quit

\* A worker has a task exactly while it runs one, and threads exist once started.
RunInv == \A w \in Workers : pc[w] = "run" <=> cur[w] # NoTask

\* A returned worker saw quit with an empty queue; the destructor waits for all.
ReturnInv == /\ \A w \in Workers : pc[w] = "returned" => quit /\ tasks = <<>>
             /\ owner = "destroyed" => \A w \in Workers : pc[w] = "returned"

IInv == /\ TypeOK
        /\ Holder
        /\ QuitPhase
        /\ SleepInv
        /\ RunInv
        /\ ReturnInv
        /\ TaskAccounting
        /\ QuitWakesAll
        /\ NoLostWakeup

\* Every step of the pool, of a caller or of a worker keeps the types: what is pushed
\* onto tasks is a task and not the cleared argument (ThreadPool.hpp, enqueue).
THEOREM TypeStep == TypeOK /\ [Next]_vars => TypeOK'
<1> SUFFICES ASSUME TypeOK, [Next]_vars PROVE TypeOK'
  OBVIOUS
<1> USE DEF TypeOK, Threads, Callers
<1>1. ASSUME NEW w \in Workers, WorkerLock(w) PROVE TypeOK'
  BY <1>1 DEF WorkerLock
<1>2. ASSUME NEW w \in Workers, PredicateFalse(w) PROVE TypeOK'
  BY <1>2 DEF PredicateFalse
<1>3. ASSUME NEW w \in Workers, Sleep(w) PROVE TypeOK'
  BY <1>3 DEF Sleep
<1>4. ASSUME NEW w \in Workers, SpuriousWakeup(w) PROVE TypeOK'
  BY <1>4 DEF SpuriousWakeup
<1>5. ASSUME NEW w \in Workers, WorkerReturn(w) PROVE TypeOK'
  BY <1>5 DEF WorkerReturn, MayReturn
<1>6. ASSUME NEW w \in Workers, TakeTask(w) PROVE TypeOK'
  BY <1>6 DEF TakeTask, Front, Pop
<1>7. ASSUME NEW w \in Workers, FinishTask(w) PROVE TypeOK'
  BY <1>7 DEF FinishTask
<1>8. ASSUME NEW w \in Workers, SpawnWorker(w) PROVE TypeOK'
  BY <1>8 DEF SpawnWorker
<1>9. ASSUME NEW t \in Threads, NEW k \in Tasks, EnqueueLock(t, k) PROVE TypeOK'
  BY <1>9 DEF EnqueueLock
<1>10. ASSUME NEW t \in Threads, EnqueuePush(t) PROVE TypeOK'
  BY <1>10 DEF EnqueuePush, Push, NotifyOne, Waiting
<1>11. ASSUME NEW t \in Threads, EnqueueDying(t) PROVE TypeOK'
  BY <1>11 DEF EnqueueDying, NotifyOne, Waiting
<1>12. CASE CtorReturn
  BY <1>12 DEF CtorReturn
<1>13. CASE DtorLock
  BY <1>13 DEF DtorLock
<1>14. CASE DtorQuit
  BY <1>14 DEF DtorQuit, NotifyAll
<1>15. CASE DtorJoin
  BY <1>15 DEF DtorJoin
<1>16. CASE UNCHANGED vars
  BY <1>16 DEF vars
<1> QED
  BY <1>1, <1>2, <1>3, <1>4, <1>5, <1>6, <1>7, <1>8, <1>9,
     <1>10, <1>11, <1>12, <1>13, <1>14, <1>15, <1>16
     DEF Next, Running, Stopped, WorkerStep, EnqueueStep, OwnerStep


(***************************************************************************)
(* Counting.                                                               *)
(***************************************************************************)

\* The constructor starts finitely many workers, so sets of workers can be counted.
LEMMA WorkersFinite == /\ IsFiniteSet(Workers)
                       /\ \A S : S \subseteq Workers => IsFiniteSet(S) /\ Cardinality(S) \in Nat
<1>1. thread_num \in Int
  BY ArgAssumption DEF thread_num, ThreadCount
<1>2. IsFiniteSet(Workers)
  BY <1>1, FS_Interval DEF Workers
<1> QED
  BY <1>2, FS_Subset, FS_CardinalityType

\* Nobody left the set Awake, nobody went to sleep, the queue did not grow.
\* A step at which no worker leaves the set Awake, none goes to sleep and the queue
\* stays as it is keeps the balance of wakeups and tasks.
LEMMA MoreAwake ==
  ASSUME IInv, TypeOK', tasks' = tasks, Awake \subseteq Awake', Waiting' \subseteq Waiting
  PROVE  NoLostWakeup'
<1>1. Awake' \subseteq Workers /\ IsFiniteSet(Awake') /\ Cardinality(Awake') \in Nat
  BY WorkersFinite DEF Awake
<1>2. Cardinality(Awake) <= Cardinality(Awake')
  BY <1>1, FS_Subset
<1>3. Cardinality(Awake) \in Nat /\ Len(tasks) \in Nat
  BY WorkersFinite DEF Awake, IInv, TypeOK
<1> QED
  BY <1>1, <1>2, <1>3 DEF IInv, NoLostWakeup

\* An empty queue needs no worker awake: cv.wait may put any worker to sleep.
LEMMA EmptyQueue == ASSUME TypeOK', tasks' = <<>> PROVE NoLostWakeup'
<1>1. Awake' \subseteq Workers
  BY DEF Awake
<1>2. Cardinality(Awake') \in Nat
  BY <1>1, WorkersFinite
<1> QED
  BY <1>2 DEF NoLostWakeup

\* emplace and notify_one together: one task more and, if any worker sleeps, one
\* worker more that goes for the queue.
LEMMA PushWakes == ASSUME IInv, TypeOK', NEW t \in Threads, EnqueuePush(t) PROVE NoLostWakeup'
<1>1. CASE Waiting = {}
  BY <1>1 DEF EnqueuePush, Push, NotifyOne, NoLostWakeup, Waiting
<1>2. CASE Waiting # {}
  <2>1. PICK w \in Waiting : pc' = [pc EXCEPT ![w] = "lock"]
    BY <1>2 DEF EnqueuePush, Push, NotifyOne
  <2>2. Awake' = Awake \cup {w} /\ w \notin Awake
    BY <2>1 DEF IInv, TypeOK, Awake, Waiting
  <2>3. IsFiniteSet(Awake) /\ Cardinality(Awake) \in Nat
    BY WorkersFinite DEF Awake
  <2>4. Cardinality(Awake') = Cardinality(Awake) + 1
    BY <2>2, <2>3, FS_AddElement
  <2>5. Len(tasks') = Len(tasks) + 1 /\ Len(tasks) \in Nat
    BY DEF EnqueuePush, Push, IInv, TypeOK
  <2> QED
    BY <1>2, <2>3, <2>4, <2>5 DEF IInv, NoLostWakeup
<1> QED
  BY <1>1, <1>2

\* front and pop: one task less and one worker less that goes for the queue.
LEMMA TakeBalanced == ASSUME IInv, TypeOK', NEW w \in Workers, TakeTask(w) PROVE NoLostWakeup'
<1>1. Awake' = Awake \ {w} /\ w \in Awake /\ Waiting' = Waiting
  BY DEF IInv, TypeOK, TakeTask, Front, Pop, Awake, Waiting
<1>2. IsFiniteSet(Awake) /\ Cardinality(Awake) \in Nat
  BY WorkersFinite DEF Awake
<1>3. Cardinality(Awake') = Cardinality(Awake) - 1
  BY <1>1, <1>2, FS_RemoveElement
<1>4. Len(tasks') = Len(tasks) - 1 /\ Len(tasks) \in Nat
  BY DEF TakeTask, Front, Pop, IInv, TypeOK
<1> QED
  BY <1>1, <1>2, <1>3, <1>4 DEF IInv, NoLostWakeup

(***************************************************************************)
(* Each task is in one place.                                              *)
(***************************************************************************)

\* enqueue puts a task into the queue that is nowhere else.
LEMMA PushAccounting == ASSUME IInv, NEW t \in Threads, EnqueuePush(t) PROVE TaskAccounting'
<1> USE DEF IInv, TypeOK, TaskAccounting, EnqueuePush, Push, Holder
<1>1. /\ Len(tasks') = Len(tasks) + 1
      /\ \A i \in 1..Len(tasks) : tasks'[i] = tasks[i]
      /\ tasks'[Len(tasks) + 1] = arg
      /\ DOMAIN tasks' = 1..Len(tasks') /\ DOMAIN tasks = 1..Len(tasks)
      /\ Len(tasks) \in Nat
  OBVIOUS
<1>2. arg \in Tasks /\ arg \notin Elements(tasks) /\ \A w \in Workers : cur[w] # arg
  OBVIOUS
<1>3. Elements(tasks') = Elements(tasks) \cup {arg}
  BY <1>1 DEF Elements
<1>4. (\A i, j \in DOMAIN tasks : tasks[i] = tasks[j] => i = j)'
  BY <1>1, <1>2 DEF Elements
<1>5. (\A k \in Tasks : status[k] = "queued" <=> k \in Elements(tasks))'
  BY <1>2, <1>3
<1>6. (\A k \in Tasks : status[k] = "running" <=> \E w \in Workers : cur[w] = k)'
  BY <1>2
<1> QED
  BY <1>4, <1>5, <1>6

\* front and pop move the oldest task from the queue to exactly one worker.
LEMMA TakeAccounting == ASSUME IInv, NEW w \in Workers, TakeTask(w) PROVE TaskAccounting'
<1> USE DEF IInv, TypeOK, TaskAccounting, TakeTask, Front, Pop, RunInv
<1> DEFINE h == Head(tasks)
<1>1. /\ Len(tasks') = Len(tasks) - 1
      /\ \A i \in 1..Len(tasks) - 1 : tasks'[i] = tasks[i + 1]
      /\ h = tasks[1] /\ h \in Tasks
      /\ DOMAIN tasks' = 1..Len(tasks') /\ DOMAIN tasks = 1..Len(tasks)
      /\ Len(tasks) \in Nat \ {0}
  OBVIOUS
<1>2. h \in Elements(tasks) /\ status[h] = "queued" /\ cur[w] = NoTask
  BY <1>1 DEF Elements
<1>3. \A v \in Workers : cur[v] # h
  BY <1>1, <1>2
<1>4. Elements(tasks') = Elements(tasks) \ {h}
  <2>1. ASSUME NEW x \in Elements(tasks') PROVE x \in Elements(tasks) \ {h}
    <3>1. PICK i \in 1..Len(tasks') : x = tasks'[i]
      BY <1>1, <2>1 DEF Elements
    <3>2. i + 1 \in 1..Len(tasks) /\ x = tasks[i + 1] /\ i + 1 # 1
      BY <1>1, <3>1
    <3> QED
      BY <1>1, <3>2 DEF Elements
  <2>2. ASSUME NEW x \in Elements(tasks) \ {h} PROVE x \in Elements(tasks')
    <3>1. PICK i \in 1..Len(tasks) : x = tasks[i]
      BY <1>1, <2>2 DEF Elements
    <3>2. i - 1 \in 1..Len(tasks') /\ x = tasks'[i - 1]
      BY <1>1, <2>2, <3>1
    <3> QED
      BY <1>1, <3>2 DEF Elements
  <2> QED
    BY <2>1, <2>2
<1>5. (\A i, j \in DOMAIN tasks : tasks[i] = tasks[j] => i = j)'
  BY <1>1
<1>6. (\A k \in Tasks : status[k] = "queued" <=> k \in Elements(tasks))'
  BY <1>1, <1>4
<1>7. (\A k \in Tasks : status[k] = "running" <=> \E v \in Workers : cur[v] = k)'
  BY <1>1, <1>2, <1>3, TaskAssumption
<1>8. (\A u, v \in Workers : cur[u] = cur[v] /\ cur[u] # NoTask => u = v)'
  BY <1>1, <1>3
<1> QED
  BY <1>5, <1>6, <1>7, <1>8

\* When task() returns, the worker's task is done and no other worker holds it.
LEMMA FinishAccounting == ASSUME IInv, NEW w \in Workers, FinishTask(w) PROVE TaskAccounting'
<1> USE DEF IInv, TypeOK, TaskAccounting, FinishTask, RunInv
<1>1. cur[w] \in Tasks /\ status[cur[w]] = "running" /\ cur[w] \notin Elements(tasks)
  OBVIOUS
<1>2. (\A k \in Tasks : status[k] = "queued" <=> k \in Elements(tasks))'
  BY <1>1
<1>3. (\A k \in Tasks : status[k] = "running" <=> \E v \in Workers : cur[v] = k)'
  BY <1>1, TaskAssumption
<1> QED
  BY <1>1, <1>2, <1>3

(***************************************************************************)
(* The invariant and what follows from it.                                 *)
(***************************************************************************)

\* The inductive invariant is kept by every step: one part per action of the code.
THEOREM InductiveStep == IInv /\ [Next]_vars => IInv'
<1> SUFFICES ASSUME IInv, [Next]_vars PROVE IInv'
  OBVIOUS
<1> USE ThreadAssumption, TaskAssumption
<1>0. TypeOK'
  BY TypeStep DEF IInv
<1> DEFINE Control == QuitPhase /\ SleepInv /\ RunInv /\ ReturnInv /\ QuitWakesAll
<1>1. ASSUME NEW w \in Workers, WorkerLock(w) PROVE IInv'
  <2>1. Holder'
    BY <1>1 DEF IInv, TypeOK, WorkerLock, Threads, Callers, Holder, QuitPhase
  <2>2. Control'
    BY <1>1 DEF IInv, TypeOK, WorkerLock, Threads, Callers,
       Holder, QuitPhase, SleepInv, RunInv, ReturnInv, QuitWakesAll
  <2>3. TaskAccounting'
    BY <1>1 DEF IInv, WorkerLock, TaskAccounting, Elements
  <2>4. NoLostWakeup'
    BY <1>0, <1>1, MoreAwake DEF WorkerLock, IInv, TypeOK, Awake, Waiting
  <2> QED
    BY <1>0, <2>1, <2>2, <2>3, <2>4 DEF IInv
<1>2. ASSUME NEW w \in Workers, PredicateFalse(w) PROVE IInv'
  <2>1. Holder'
    BY <1>2 DEF IInv, TypeOK, PredicateFalse, Threads, Callers, Holder, QuitPhase
  <2>2. Control'
    BY <1>2 DEF IInv, TypeOK, PredicateFalse, Threads, Callers,
       Holder, QuitPhase, SleepInv, RunInv, ReturnInv, QuitWakesAll
  <2>3. TaskAccounting'
    BY <1>2 DEF IInv, PredicateFalse, TaskAccounting, Elements
  <2>4. NoLostWakeup'
    BY <1>0, <1>2, EmptyQueue DEF PredicateFalse
  <2> QED
    BY <1>0, <2>1, <2>2, <2>3, <2>4 DEF IInv
<1>3. ASSUME NEW w \in Workers, Sleep(w) PROVE IInv'
  <2>1. Holder'
    BY <1>3 DEF IInv, TypeOK, Sleep, Threads, Callers, Holder, QuitPhase
  <2>2. Control'
    BY <1>3 DEF IInv, TypeOK, Sleep, Threads, Callers,
       Holder, QuitPhase, SleepInv, RunInv, ReturnInv, QuitWakesAll
  <2>3. TaskAccounting'
    BY <1>3 DEF IInv, Sleep, TaskAccounting, Elements
  <2>4. NoLostWakeup'
    BY <1>0, <1>3, EmptyQueue DEF Sleep, IInv, SleepInv
  <2> QED
    BY <1>0, <2>1, <2>2, <2>3, <2>4 DEF IInv
<1>4. ASSUME NEW w \in Workers, SpuriousWakeup(w) PROVE IInv'
  <2>1. Holder'
    BY <1>4 DEF IInv, TypeOK, SpuriousWakeup, Threads, Callers, Holder, QuitPhase
  <2>2. Control'
    BY <1>4 DEF IInv, TypeOK, SpuriousWakeup, Threads, Callers,
       Holder, QuitPhase, SleepInv, RunInv, ReturnInv, QuitWakesAll
  <2>3. TaskAccounting'
    BY <1>4 DEF IInv, SpuriousWakeup, TaskAccounting, Elements
  <2>4. NoLostWakeup'
    BY <1>0, <1>4, MoreAwake DEF SpuriousWakeup, IInv, TypeOK, Awake, Waiting
  <2> QED
    BY <1>0, <2>1, <2>2, <2>3, <2>4 DEF IInv
<1>5. ASSUME NEW w \in Workers, WorkerReturn(w) PROVE IInv'
  <2>1. Holder'
    BY <1>5 DEF IInv, TypeOK, WorkerReturn, MayReturn, Threads, Callers, Holder, QuitPhase
  <2>2. Control'
    BY <1>5 DEF IInv, TypeOK, WorkerReturn, MayReturn, Threads, Callers,
       Holder, QuitPhase, SleepInv, RunInv, ReturnInv, QuitWakesAll
  <2>3. TaskAccounting'
    BY <1>5 DEF IInv, WorkerReturn, MayReturn, TaskAccounting, Elements
  <2>4. NoLostWakeup'
    BY <1>0, <1>5, EmptyQueue DEF WorkerReturn, MayReturn
  <2> QED
    BY <1>0, <2>1, <2>2, <2>3, <2>4 DEF IInv
<1>6. ASSUME NEW w \in Workers, TakeTask(w) PROVE IInv'
  <2>1. Holder'
    BY <1>6 DEF IInv, TypeOK, TakeTask, Front, Pop, Threads, Callers, Holder, QuitPhase
  <2>2. Control'
    BY <1>6 DEF IInv, TypeOK, TakeTask, Front, Pop, Threads, Callers,
       Holder, QuitPhase, SleepInv, RunInv, ReturnInv, QuitWakesAll
  <2>3. TaskAccounting'
    BY <1>6, TakeAccounting
  <2>4. NoLostWakeup'
    BY <1>0, <1>6, TakeBalanced
  <2> QED
    BY <1>0, <2>1, <2>2, <2>3, <2>4 DEF IInv
<1>7. ASSUME NEW w \in Workers, FinishTask(w) PROVE IInv'
  <2>1. Holder'
    BY <1>7 DEF IInv, TypeOK, FinishTask, Threads, Callers, Holder, TaskAccounting, RunInv
  <2>2. Control'
    BY <1>7 DEF IInv, TypeOK, FinishTask, Threads, Callers,
       Holder, QuitPhase, SleepInv, RunInv, ReturnInv, QuitWakesAll
  <2>3. TaskAccounting'
    BY <1>7, FinishAccounting
  <2>4. NoLostWakeup'
    BY <1>0, <1>7, MoreAwake DEF FinishTask, IInv, TypeOK, Awake, Waiting
  <2> QED
    BY <1>0, <2>1, <2>2, <2>3, <2>4 DEF IInv
<1>8. ASSUME NEW w \in Workers, SpawnWorker(w) PROVE IInv'
  <2>1. Holder'
    BY <1>8 DEF IInv, TypeOK, SpawnWorker, Threads, Callers, Holder, QuitPhase
  <2>2. Control'
    BY <1>8 DEF IInv, TypeOK, SpawnWorker, Threads, Callers,
       Holder, QuitPhase, SleepInv, RunInv, ReturnInv, QuitWakesAll
  <2>3. TaskAccounting'
    BY <1>8 DEF IInv, SpawnWorker, TaskAccounting, Elements
  <2>4. NoLostWakeup'
    BY <1>0, <1>8, MoreAwake DEF SpawnWorker, IInv, TypeOK, Awake, Waiting
  <2> QED
    BY <1>0, <2>1, <2>2, <2>3, <2>4 DEF IInv
<1>9. ASSUME NEW t \in Threads, NEW k \in Tasks, EnqueueLock(t, k) PROVE IInv'
  <2>1. Holder'
    BY <1>9 DEF IInv, TypeOK, EnqueueLock, MayCall, Threads, Callers, Holder, QuitPhase
  <2>2. Control'
    BY <1>9 DEF IInv, TypeOK, EnqueueLock, MayCall, Threads, Callers,
       Holder, QuitPhase, SleepInv, RunInv, ReturnInv, QuitWakesAll
  <2>3. TaskAccounting'
    BY <1>9 DEF IInv, EnqueueLock, TaskAccounting, Elements
  <2>4. NoLostWakeup'
    BY <1>0, <1>9, MoreAwake DEF EnqueueLock, IInv, TypeOK, Awake, Waiting
  <2> QED
    BY <1>0, <2>1, <2>2, <2>3, <2>4 DEF IInv
<1>10. ASSUME NEW t \in Threads, EnqueuePush(t), Alive PROVE IInv'
  <2>1. Holder'
    BY <1>10 DEF IInv, TypeOK, EnqueuePush, Push, NotifyOne, Waiting, Alive, Threads,
                 Callers, Holder, QuitPhase
  <2>2. Control'
    BY <1>10 DEF IInv, TypeOK, EnqueuePush, Push, NotifyOne, Waiting, Alive, Threads, Callers,
       Holder, QuitPhase, SleepInv, RunInv, ReturnInv, QuitWakesAll
  <2>3. TaskAccounting'
    BY <1>10, PushAccounting
  <2>4. NoLostWakeup'
    BY <1>0, <1>10, PushWakes
  <2> QED
    BY <1>0, <2>1, <2>2, <2>3, <2>4 DEF IInv
<1>11. ASSUME NEW t \in Threads, EnqueueDying(t), Alive PROVE IInv'
  <2>1. Holder'
    BY <1>11 DEF IInv, TypeOK, EnqueueDying, Threads, Callers, Holder, QuitPhase
  <2>2. Control'
    BY <1>11 DEF IInv, TypeOK, EnqueueDying, Threads, Callers,
       Holder, QuitPhase, SleepInv, RunInv, ReturnInv, QuitWakesAll
  <2>3. TaskAccounting'
    BY <1>11 DEF IInv, EnqueueDying, TaskAccounting, Elements
  <2>4. NoLostWakeup'
    BY <1>0, <1>11, MoreAwake DEF EnqueueDying, IInv, TypeOK, Awake, Waiting
  <2> QED
    BY <1>0, <2>1, <2>2, <2>3, <2>4 DEF IInv
<1>12. CASE CtorReturn
  <2>1. Holder'
    BY <1>12 DEF IInv, TypeOK, CtorReturn, Threads, Callers, Holder, QuitPhase
  <2>2. Control'
    BY <1>12 DEF IInv, TypeOK, CtorReturn, Threads, Callers,
       Holder, QuitPhase, SleepInv, RunInv, ReturnInv, QuitWakesAll
  <2>3. TaskAccounting'
    BY <1>12 DEF IInv, CtorReturn, TaskAccounting, Elements
  <2>4. NoLostWakeup'
    BY <1>0, <1>12, MoreAwake DEF CtorReturn, IInv, TypeOK, Awake, Waiting
  <2> QED
    BY <1>0, <2>1, <2>2, <2>3, <2>4 DEF IInv
<1>13. CASE DtorLock
  <2>1. Holder'
    BY <1>13 DEF IInv, TypeOK, DtorLock, Threads, Callers, Holder, QuitPhase
  <2>2. Control'
    BY <1>13 DEF IInv, TypeOK, DtorLock, Threads, Callers,
       Holder, QuitPhase, SleepInv, RunInv, ReturnInv, QuitWakesAll
  <2>3. TaskAccounting'
    BY <1>13 DEF IInv, DtorLock, TaskAccounting, Elements
  <2>4. NoLostWakeup'
    BY <1>0, <1>13, MoreAwake DEF DtorLock, IInv, TypeOK, Awake, Waiting
  <2> QED
    BY <1>0, <2>1, <2>2, <2>3, <2>4 DEF IInv
<1>14. CASE DtorQuit
  <2>1. Holder'
    BY <1>14 DEF IInv, TypeOK, DtorQuit, NotifyAll, Threads, Callers, Holder, QuitPhase
  <2>2. Control'
    BY <1>14 DEF IInv, TypeOK, DtorQuit, NotifyAll, Threads, Callers,
       Holder, QuitPhase, SleepInv, RunInv, ReturnInv, QuitWakesAll
  <2>3. TaskAccounting'
    BY <1>14 DEF IInv, DtorQuit, NotifyAll, TaskAccounting, Elements
  <2>4. NoLostWakeup'
    BY <1>14 DEF DtorQuit, NotifyAll, IInv, TypeOK, NoLostWakeup, Waiting
  <2> QED
    BY <1>0, <2>1, <2>2, <2>3, <2>4 DEF IInv
<1>15. CASE DtorJoin
  <2>1. Holder'
    BY <1>15 DEF IInv, TypeOK, DtorJoin, Threads, Callers, Holder, QuitPhase
  <2>2. Control'
    BY <1>15 DEF IInv, TypeOK, DtorJoin, Threads, Callers,
       Holder, QuitPhase, SleepInv, RunInv, ReturnInv, QuitWakesAll
  <2>3. TaskAccounting'
    BY <1>15 DEF IInv, DtorJoin, TaskAccounting, Elements
  <2>4. NoLostWakeup'
    BY <1>0, <1>15, MoreAwake DEF DtorJoin, IInv, TypeOK, Awake, Waiting
  <2> QED
    BY <1>0, <2>1, <2>2, <2>3, <2>4 DEF IInv
<1>16. CASE UNCHANGED vars
  BY <1>0, <1>16 DEF vars, IInv, Holder, QuitPhase, SleepInv, RunInv, ReturnInv, QuitWakesAll,
    TaskAccounting, Elements, NoLostWakeup, Waiting, Awake
<1> QED
  BY <1>1, <1>2, <1>3, <1>4, <1>5, <1>6, <1>7, <1>8, <1>9,
     <1>10, <1>11, <1>12, <1>13, <1>14, <1>15, <1>16
     DEF Next, Running, Stopped, WorkerStep, EnqueueStep, OwnerStep

\* The inductive invariant holds when the constructor begins.
LEMMA InductiveInit == Init => IInv
<1> SUFFICES ASSUME Init PROVE IInv
  OBVIOUS
<1> USE ThreadAssumption, TaskAssumption DEF Init
<1>1. TypeOK
  <2>1. tasks \in Seq(Tasks) /\ mtx \in Threads \cup {NoThread} /\ arg \in Tasks \cup {NoTask}
    OBVIOUS
  <2> QED
    BY <2>1 DEF TypeOK
<1>2. Holder /\ QuitPhase /\ SleepInv /\ RunInv /\ ReturnInv /\ QuitWakesAll
  BY DEF Holder, QuitPhase, SleepInv, RunInv, ReturnInv, QuitWakesAll, Threads
<1>3. TaskAccounting
  BY DEF TaskAccounting, Elements
<1>4. NoLostWakeup
  BY DEF NoLostWakeup, Waiting
<1> QED
  BY <1>1, <1>2, <1>3, <1>4 DEF IInv

\* The inductive invariant holds in every reachable state of the pool.
THEOREM Invariance == Spec => []IInv
  BY InductiveInit, InductiveStep, PTL DEF Spec

\* The variables of the pool keep their types for any number of threads and tasks.
THEOREM TypeCorrect == Spec => []TypeOK
  BY Invariance, PTL DEF IInv

\* front() and pop() under the mutex hand every task to exactly one worker, however
\* many workers compete for the queue.
THEOREM EachTaskOnce == Spec => []TaskAccounting
  BY Invariance, PTL DEF IInv

\* No notification is lost: one notify_one per task, sent with the mutex held, keeps
\* at least as many workers on their way to the queue as it has tasks.
THEOREM WakeupsSuffice == Spec => []NoLostWakeup
  BY Invariance, PTL DEF IInv

\* notify_all after quit = true leaves no worker asleep and lets none fall asleep
\* later, so the join loop of the destructor does not wait for a sleeping worker.
THEOREM DestructorWakesAll == Spec => []QuitWakesAll
  BY Invariance, PTL DEF IInv

\* With at least one hardware thread reported, a worker returns only from an empty
\* queue, and when the destructor has joined all workers every accepted task is done.
THEOREM DestructorDrains == ASSUME HardwareConcurrency > 0 PROVE Spec => []DrainBeforeDestroy
<1>1. Workers # {}
  BY ArgAssumption DEF Workers, thread_num, ThreadCount
<1>2. IInv => DrainBeforeDestroy
  <2> SUFFICES ASSUME IInv PROVE DrainBeforeDestroy
    OBVIOUS
  <2>1. (\E w \in Workers : pc[w] = "returned") => tasks = <<>>
    BY DEF IInv, ReturnInv
  <2>2. ASSUME owner = "destroyed", NEW k \in Tasks PROVE status[k] \in {"new", "done"}
    <3>1. status[k] # "queued"
      BY <1>1, <2>1, <2>2 DEF IInv, ReturnInv, TaskAccounting, Elements
    <3>2. status[k] # "running"
      BY <2>2, TaskAssumption DEF IInv, ReturnInv, RunInv, TaskAccounting
    <3> QED
      BY <3>1, <3>2 DEF IInv, TypeOK
  <2> QED
    BY <2>1, <2>2 DEF DrainBeforeDestroy
<1> QED
  BY <1>2, Invariance, PTL

(***************************************************************************)
(* The pool implements the service of module TaskService.                  *)
(***************************************************************************)

\* The tasks that run are held by the workers other than the one that is free, so
\* there are fewer of them than the pool has threads.
LEMMA RoomForOneMore ==
  ASSUME IInv, NEW w \in Workers, cur[w] = NoTask
  PROVE  Cardinality(Active) < thread_num
<1> DEFINE busy == {v \in Workers : cur[v] # NoTask}
<1> DEFINE taskOf == [v \in busy |-> cur[v]]
<1>1. thread_num \in Int /\ IsFiniteSet(Workers) /\ Cardinality(Workers) = thread_num
  <2>1. thread_num \in Int
    BY ArgAssumption DEF thread_num, ThreadCount
  <2>2. thread_num >= 1
    BY <2>1 DEF Workers
  <2> QED
    BY <2>1, <2>2, FS_Interval DEF Workers
<1>2. taskOf \in Surjection(busy, Active)
  BY TaskAssumption DEF Active, IInv, TypeOK, TaskAccounting, Surjection
<1>3. busy \subseteq Workers \ {w}
  OBVIOUS
<1>4. IsFiniteSet(Workers \ {w}) /\ Cardinality(Workers \ {w}) = thread_num - 1
  BY <1>1, FS_RemoveElement
<1>5. IsFiniteSet(busy) /\ Cardinality(busy) <= thread_num - 1 /\ Cardinality(busy) \in Nat
  BY <1>3, <1>4, FS_Subset, FS_CardinalityType
<1>6. IsFiniteSet(Active) /\ Cardinality(Active) <= Cardinality(busy)
  BY <1>2, <1>5, FS_Surjection
<1> QED
  BY <1>1, <1>5, <1>6, FS_CardinalityType

\* A pool whose constructor begins is an empty open service.
LEMMA RefinementInit == Init => Service!SInit
  BY DEF Init, Service!SInit, Active, Finished, Phase

\* Every step of the threads is a step of the service the pool promises or changes
\* nothing its callers can see: the emplace of enqueue accepts, front and pop start
\* the oldest task, the return of task() finishes it, quit closes, the last join ends.
LEMMA RefinementStep ==
  ASSUME HardwareConcurrency > 0, IInv, [Next]_vars
  PROVE  [Service!SNext]_(Service!svars)
<1> USE ThreadAssumption, TaskAssumption
<1>0. owner = "destroyed" => quit
  BY DEF IInv, QuitPhase
<1>1. ASSUME NEW t \in Threads, EnqueuePush(t), Alive PROVE Service!Accept(arg)
  <2>1. arg \in Tasks /\ status[arg] = "new" /\ status' = [status EXCEPT ![arg] = "queued"]
    BY <1>1 DEF EnqueuePush, Push, IInv, TypeOK, Holder
  <2>2. Active' = Active /\ Finished' = Finished
    BY <2>1 DEF IInv, TypeOK, Active, Finished
  <2>3. Phase = "open" /\ Phase' = "open"
    BY <1>1 DEF EnqueuePush, Push, Alive, Phase
  <2>4. arg \notin Service!Accepted
    BY <2>1 DEF Service!Accepted, IInv, TaskAccounting, Elements, Active, Finished
  <2> QED
    BY <1>1, <2>2, <2>3, <2>4 DEF EnqueuePush, Push, Service!Accept
<1>2. ASSUME NEW t \in Threads, EnqueueDying(t), Alive PROVE Service!Abort
  BY <1>2 DEF EnqueueDying, Alive, Service!Abort, Phase, Active, Finished
<1>3. ASSUME NEW w \in Workers, TakeTask(w), Alive PROVE Service!Start
  <2>1. Head(tasks) \in Tasks /\ status[Head(tasks)] = "queued" /\ cur[w] = NoTask
    BY <1>3 DEF TakeTask, Front, Pop, IInv, TypeOK, TaskAccounting, Elements, RunInv
  <2>2. Active' = Active \cup {Head(tasks)} /\ Finished' = Finished
    BY <1>3, <2>1 DEF TakeTask, Front, Pop, IInv, TypeOK, Active, Finished
  <2>3. Phase \in {"open", "closing"} /\ Phase' = Phase
    BY <1>3 DEF TakeTask, Front, Pop, Alive, Phase
  <2>4. Cardinality(Active) < thread_num
    BY <2>1, RoomForOneMore
  <2>5. Service!Cardinality(Active) = Cardinality(Active)
    BY DEF Service!Cardinality, Cardinality
  <2> QED
    BY <1>3, <2>2, <2>3, <2>4, <2>5 DEF TakeTask, Front, Pop, Service!Start
<1>4. ASSUME NEW w \in Workers, FinishTask(w), Alive PROVE Service!Finish(cur[w])
  <2>1. cur[w] \in Active
    BY <1>4, TaskAssumption DEF FinishTask, IInv, TypeOK, RunInv, TaskAccounting, Active
  <2>2. Active' = Active \ {cur[w]} /\ Finished' = Finished \cup {cur[w]}
    BY <1>4, <2>1 DEF FinishTask, IInv, TypeOK, Active, Finished
  <2>3. Phase \in {"open", "closing"} /\ Phase' = Phase
    BY <1>4 DEF FinishTask, Alive, Phase
  <2> QED
    BY <1>4, <2>1, <2>2, <2>3 DEF FinishTask, Service!Finish
<1>5. ASSUME DtorQuit, Alive PROVE Service!Close
  BY <1>5 DEF DtorQuit, NotifyAll, Alive, IInv, QuitPhase, Service!Close, Phase, Active, Finished
<1>6. ASSUME DtorJoin, Alive PROVE Service!End
  <2>1. PICK w \in Workers : TRUE
    BY ArgAssumption DEF Workers, thread_num, ThreadCount
  <2>2. tasks = <<>> /\ quit /\ \A v \in Workers : cur[v] = NoTask
    BY <1>6, <2>1 DEF DtorJoin, IInv, ReturnInv, RunInv, TypeOK
  <2>3. Active = {}
    BY <2>2 DEF IInv, TaskAccounting, Active
  <2> QED
    BY <1>6, <2>2, <2>3 DEF DtorJoin, Alive, Service!End, Phase, Active, Finished
<1>7. ASSUME UNCHANGED <<tasks, status, exited, quit>>,
             owner' = owner \/ "destroyed" \notin {owner, owner'}
      PROVE  UNCHANGED Service!svars
  BY <1>7 DEF Service!svars, Active, Finished, Phase
<1>8. CASE Alive /\ \E w \in Workers : WorkerStep(w) \/ SpuriousWakeup(w)
  <2> SUFFICES ASSUME NEW w \in Workers, WorkerStep(w) \/ SpuriousWakeup(w), Alive
               PROVE  [Service!SNext]_(Service!svars)
    BY <1>8
  <2>1. CASE TakeTask(w)
    BY <2>1, <1>3 DEF Service!SNext
  <2>2. CASE FinishTask(w)
    <3>1. cur[w] \in Tasks
      BY <2>2 DEF FinishTask, IInv, TypeOK, RunInv
    <3> QED
      BY <2>2, <3>1, <1>4 DEF Service!SNext
  <2>3. CASE WorkerLock(w) \/ PredicateFalse(w) \/ Sleep(w) \/ WorkerReturn(w) \/ SpuriousWakeup(w)
    BY <2>3, <1>7 DEF WorkerLock, PredicateFalse, Sleep, WorkerReturn, MayReturn, SpuriousWakeup
  <2> QED
    BY <2>1, <2>2, <2>3 DEF WorkerStep
<1>9. CASE Alive /\ \E t \in Threads : EnqueueStep(t)
  <2> SUFFICES ASSUME NEW t \in Threads, EnqueueStep(t), Alive
               PROVE  [Service!SNext]_(Service!svars)
    BY <1>9
  <2>1. CASE \E k \in Tasks : EnqueueLock(t, k)
    BY <2>1, <1>7 DEF EnqueueLock
  <2>2. CASE EnqueuePush(t)
    BY <2>2, <1>1 DEF Service!SNext, EnqueuePush, Push, IInv, TypeOK
  <2>3. CASE EnqueueDying(t)
    BY <2>3, <1>2 DEF Service!SNext
  <2> QED
    BY <2>1, <2>2, <2>3 DEF EnqueueStep
<1>10. CASE OwnerStep /\ Alive
  <2>1. CASE DtorQuit
    BY <2>1, <1>10, <1>5 DEF Service!SNext
  <2>2. CASE DtorJoin
    BY <2>2, <1>10, <1>6 DEF Service!SNext
  <2>3. CASE (\E w \in Workers : SpawnWorker(w)) \/ CtorReturn \/ DtorLock
    BY <2>3, <1>7 DEF SpawnWorker, CtorReturn, DtorLock
  <2> QED
    BY <1>10, <2>1, <2>2, <2>3 DEF OwnerStep
<1>11. CASE UNCHANGED vars
  BY <1>11, <1>7 DEF vars
<1> QED
  BY <1>8, <1>9, <1>10, <1>11 DEF Next, Running, Stopped

\* The pool implements TaskService: first-in first-out start, at most thread_num
\* tasks at a time, each exactly once, an end only after all of them.
THEOREM PoolIsService == ASSUME HardwareConcurrency > 0 PROVE Spec => ImplementsTaskService
<1>1. Init => Service!SInit
  BY RefinementInit
<1>2. IInv /\ [Next]_vars => [Service!SNext]_(Service!svars)
  BY RefinementStep
<1> QED
  BY <1>1, <1>2, Invariance, PTL DEF Spec, ImplementsTaskService, Service!SSpec
=============================================================================
