# A TLA+ verification of the online-chat project

The repository is a small C++ chat server for Linux: a reactor (epoll event loop with
callbacks), a thread pool, a libpq wrapper for an openGauss database, an older stand-alone
server and a terminal client. This directory holds TLA+ modules that model the parts with
logic of their own, TLC configurations that check them, and TLAPS proofs. Paths such as
`src/src/Server.cpp` start at the repository's root, called `src/` here.

## 1. Inventory

| part | state it keeps | operations | what is hard about it |
|---|---|---|---|
| `ThreadPool` (`inc/threadpool/ThreadPool.hpp`, `src/threadpool/ThreadPool.cpp`) | `quit`, queue `tasks`, mutex, condition variable, worker threads | constructor, `enqueue`, worker loop, destructor | lost notifications, races for the queue, drain at destruction, `enqueue` into a dying pool, tasks that wait for tasks |
| `Epoll` / `EventLoop` (`src/Epoll.cpp`, `src/EventLoop.cpp`) | kernel interest and ready lists, `connMap`, the batch of raw pointers being dispatched | `updateConnection`, `wait`, `start` | edge- against level-triggered events, objects deleted while a batch is processed, descriptor reuse |
| `Server` and callbacks (`src/Server.cpp`) | listening socket, the loop | constructor, `acceptCallback`, `recvCallback`, `sendCallback` | one `accept()` per edge, partial reads, resets, full buffer, NUL bytes, SIGPIPE |
| `Socket`, `Connection` (`src/Socket.cpp`, `src/Connection.cpp`) | descriptor, `inEpoll`, events, buffers and lengths, callbacks | bind, listen, accept, setters, destructor (closes the descriptor) | failed `accept()` wrapped in an object with descriptor -1 |
| `apps/server.cpp` (legacy server) | one buffer, epoll instance | `main` | blocking listening socket with edge-triggered events, `== EPOLLIN` comparison |
| `apps/client.cpp` (terminal client) | one buffer, `rlen`, the connection | `main` | reads until the server closes, keeps sending afterwards; resets, a server that stops |
| `GaussConnector` (`src/opengauss/`) | connection, last result | constructor, `insert`, `update`, `omit`, destructor | status against effect, leaked results |
| `errif` (`src/log/util.cpp`) | none | exits the process | part of every action that calls it |
| `InetAddress` | an address | constructors | nothing: it is stored and deleted with its `Connection` |
| libpq headers (`inc/opengauss/`) | none | declarations of a third-party library | the values of two enumerations the wrapper tests |

How they interact. `apps/test-main.cpp` constructs an `EventLoop` (an `Epoll`) and a `Server`
on it, then runs `EventLoop::start` in the only thread of that program. The `Server` registers
its listening `Socket` (a `Connection`); `Epoll::wait` returns the `Connection`s with events;
`start` calls their callbacks; `acceptCallback` creates a `Connection` per client and registers
it for edge-triggered input; `recvCallback` reads it empty and re-registers it for
level-triggered output; `sendCallback` echoes and deletes it, which closes the descriptor. The
thread pool is a library class with no caller in the repository; its callers are modelled as
arbitrary client threads plus the owner that constructs and destroys it. `apps/server.cpp` constructs
a `GaussConnector` at startup and never uses it. `apps/client.cpp` is a process of its own on the other end of a
connection: it types a line, reads until the server closes, prints. The only shared state between threads is inside
`ThreadPool`; between the server and its clients everything goes through the kernel.

Correctness, per part: the pool runs each accepted task exactly once, first-in first-out, loses
no notification, and its destructor returns with everything done; the reactor never dereferences
a deleted `Connection`, never mixes up or leaks descriptors, echoes each client's own bytes and answers
everyone it accepted; the client prints what it sent and not more, once, and does not wait for ever; the wrapper's return code tells whether the statement took effect.

## 2. Modules

| module | models | note |
|---|---|---|
| `TaskService` | what a pool promises: a FIFO service of bounded capacity | abstract specification |
| `ThreadPool` | the pool: each thread's position in the code, the mutex, the queue | refines `TaskService` |
| `ThreadPoolProofs` | theorems about `ThreadPool` | TLAPS |
| `MCThreadPool` | instances | TLC |
| `Tcp` | the kernel's side of the connections | external |
| `EpollKernel` | the kernel's epoll instance: interest list, ready list, edge and level triggering | external |
| `Connection` | classes `Connection` and `InetAddress`: an object is a record, a member function an operator on it | |
| `Epoll` | class `Epoll`: `connMap`, `updateConnection`, `wait`; extends `EpollKernel` and `Connection` | |
| `EchoService` | what the echo server promises to clients | abstract specification |
| `Reactor` | `main` of `test-main.cpp`, `Server`, `EventLoop`, `Socket` with arbitrary clients; extends `Tcp` and `Epoll` | refines `EchoService` |
| `TcpProofs` | lemmas about the operators of `Tcp`: accept queue, streams, `recv()` into a buffer | TLAPS, used by all below |
| `ReactorProofs` | theorems about objects, descriptors, epoll and the batch of `Reactor` | TLAPS |
| `ReactorBytesProofs` | theorems about its buffers and bytes; extends `ReactorProofs` | TLAPS |
| `ReactorServiceProofs` | `Reactor` implements `EchoService`; extends `ReactorBytesProofs` | TLAPS |
| `MCReactor` | instances | TLC |
| `ChatClient` | `apps/client.cpp`, one process per client of the server, and the network; extends `Reactor` | |
| `ChatClientProofs` | theorems about client and server together; extends `ReactorServiceProofs` | TLAPS |
| `MCChatClient` | an instance | TLC |
| `LegacyServer` | `apps/server.cpp` with its clients; extends `Tcp`, instantiates `EpollKernel` | |
| `LegacyServerProofs` | theorems about `LegacyServer`; extends `TcpProofs` | TLAPS |
| `MCLegacyServer` | an instance | TLC |
| `GaussConnector` | the wrapper of libpq, with the database and the connection as environment | |
| `GaussConnectorProofs` | theorems about `GaussConnector` | TLAPS |
| `MCGaussConnector` | an instance | TLC |

Operators whose names have a suffix after an underscore (`NotifyOne_Forgotten`,
`WithoutEntry_Kept`) are not used by any specification: each is a plausible wrong form of the
operator of that name, kept next to it to show that the properties tell the two apart
(`PROJECT.json`, "mutants").

### ThreadPool: state and actions

`pc[w]` is the position of a worker: `unborn`, `lock` (before taking the mutex, either at the head
of its loop or after a wakeup), `check` (evaluating the wait predicate and what follows, mutex
held), `sleep` (predicate false, about to wait, mutex held), `waiting`, `run` (inside `task()`) and
`returned`. `mtx` is the holder of the mutex, `arg` the task a caller inside `enqueue` is about to push.
`owner` is the position of the thread that owns the pool.

| code | action |
|---|---|
| `workers.emplace_back(...)`, end of the constructor | `SpawnWorker`, `CtorReturn` |
| `enqueue`: lock; `errif(quit)`; `emplace` + `notify_one` + unlock | `EnqueueLock`; `EnqueueDying`; `EnqueuePush` |
| `cv.wait`: lock; predicate false; give up the mutex and sleep; spurious wakeup | `WorkerLock`; `PredicateFalse`; `Sleep`; `SpuriousWakeup` |
| `if(quit && tasks.empty()) return` | `WorkerReturn` |
| `front`, `pop`, unlock | `TakeTask` |
| `task()` returns | `FinishTask` |
| destructor: lock; `quit = true`, `notify_all`, unlock; joins | `DtorLock`; `DtorQuit`; `DtorJoin` |

Evaluating the predicate and going to sleep are two steps, both with the mutex held: a
notification without the mutex would fall between them. The code pushes and notifies with the
mutex held and every access to `quit` and `tasks` is under it, so the statements between lock and
unlock form one step. A task's body is external up to the two things the pool can notice: it may enqueue
child tasks (`Parent`) and may block on the future of such a child (`Awaited`).

### Reactor: state and actions

`conn` maps every `Connection` object that exists to a record of its fields (descriptor, address, `inEpoll`, the
`O_NONBLOCK` flag of the descriptor, requested and returned events, callbacks, buffers and lengths); the setters of the class are operators
from records to records, so an action reads as the sequence of calls the function makes. An object is named by the
client it was accepted for; `Listener` is the server's own
socket; an `accept()` that fails leaves one of `Failures`, an object with descriptor -1. `loop` is the
member of that name in `Server`: nothing initialises it, so it may be null or anything else until it is assigned. `server`
tells how far `main` is, or how the process ended. `batch` is what is left of the vector returned by
`Epoll::wait`, `cur` the connection whose `recvCallback` is between two `recv()` calls.

| code | action |
|---|---|
| errors of `epoll_create`, `socket`, `bind`, `listen` | `BootFailure` |
| the test of the member `loop`, before it is assigned: it is not null | `LoopCheck` |
| it is null: `Server::Server` up to `listen`; from `setEvent` on | `BootListen`; `BootRegister` |
| `wait(timeout)` in `start` | `Poll` |
| the `for` loop and its two branches | `Turn`, a conjunct of each callback's first action |
| `acceptCallback`, `accept()` succeeding or failing | `AcceptClient`, `AcceptFails` |
| `recvCallback`: clear; one `recv()` with data; an error; the loop's end and re-registration | `RecvBegin`; `RecvSome`; `RecvError`; `RecvEnd` |
| `sendCallback` with `delete conn`; killed by SIGPIPE in `write` | `SendCallback`; `SendKilled` |
| clients | `Connect`, `Arrival` (a byte, end of stream, reset) |

The callbacks are cut at every point where a client may act in between and the result would
differ: between two `recv()` calls, and between callbacks. `SendCallback` is one step because `write`,
`epoll_ctl(DEL)` and `close` of one connection see nothing of the others.

A byte is its position in its client's stream (or `NUL`), so "echo" can be stated as positions.
`strcpy` on a full buffer reads on into the field after it: `rlen` is 2048 there, whose first byte
in memory is 0 on the little-endian machines the build targets, so the copy stops at `BufLen`. The
terminating byte lands in `wlen`, which is assigned right after. After an error in `recv()` with a full
buffer a few bytes more are copied into `wlen` in the same way; the model keeps the copy within the buffer.

Not distinguished: EPOLLERR from EPOLLHUP (one value, `"ERR"`, reported along with EPOLLIN for a
reset connection; the reactor does not look at it, the legacy server does), the printed messages, `wbuffer` outside `sendCallback`,
a partial `write` (at most 2048 bytes into an empty send buffer), `EINTR` (no handler is installed).

A reset has two forms (`peer`). One that comes while the client's half is open (`rst`) is reported once by `recv()` (`gone`), and only
then does `write()` raise SIGPIPE; before, it fails with ECONNRESET. One that follows the client's FIN (`cut`) is never reported: `recv()`
goes on returning 0, and `write()` raises SIGPIPE at once.

`recv()` on an empty queue returns EAGAIN only if the descriptor is non-blocking (`RecvEnds`); on a blocking one the thread would
wait, the action would not be enabled, and with it nothing else of the server. That `setNonBlocking` is called in time is therefore part of
what `InputIsAnswered` shows.

### ChatClient: state and actions

`proc[c]` is the process on the other end of connection `c`: where it is (`phase`: before `connect`, in `fgets`, in the `recv`
loop, or how it ended), the state of its socket (`sock`), the variables of `main` (`buffer`, `rlen`), how its first `fgets` ended
(`first`) and what went through them (bytes sent and received, the length of what it sent first, what it printed). The bytes of `Reactor` are still positions; those that reached the server are
`sentN[c]`, those on their way are the difference to `outN`.

| code | action |
|---|---|
| `connect`; `errif(res == -1, ...)` | `ConnectOk`; `ConnectFails` |
| `fgets` storing a line, `send`, `bzero` | `SendLine` |
| `fgets` at the end of the input, `send` of what the buffer held, `bzero` | `SendOld` |
| `send` on a connection known to be broken | `ClientKilled` (SIGPIPE) |
| one `recv` with data; with ECONNRESET | `RecvData`; `RecvFails` |
| `recv` returns 0: break and `printf` | `RecvDone` |
| the user ends the program | `Interrupt` |
| the network: bytes, the end of a process, resets | `BytesArrive`, `Hangup`, `ResetArrives` |
| the server is stopped or crashes | `ServerStops` |

A connection closed by a server that has read everything gives the client an end of stream. One closed with bytes unread, or
never accepted, gives a reset. A line sent after the server closed is answered with a reset too: after an end of stream `recv()` goes on
returning 0 and the next `send()` raises SIGPIPE, which the program does not handle. All the answer that arrived before a reset
can still be read; how much that is is left open.

At the end of the input `fgets` stores nothing and `strlen()` finds what the buffer held. Before the first line nobody has written to it
(`Unwritten`): the length is then indeterminate, 0 up to the bound `MaxBytes`, which lies at or above the buffer's size. After a `recv` loop that filled
the buffer, `strlen()` runs past its end, and the length is indeterminate from there up (`OldLengths`). The clients of this module use the connections of `Reactor`
as this program does; `Reactor` alone has clients that do anything.

### LegacyServer: state and actions

`holder[f]` is the client an open descriptor belongs to, `nonblocking` the descriptors with `O_NONBLOCK`, `batch` the pairs of descriptor and event mask left
in `events`, `cur` the client whose `recv` loop is running, `buffer` and `bufferLen` the variables of `main`
(`Garbage` is what the buffer holds before the first `bzero`).

| code | action |
|---|---|
| everything up to the first `epoll_wait` | `Boot` |
| `epoll_wait`; the `for` loop | `Poll`; `Turn`, a conjunct of each branch's first action |
| `accept` with registration; `continue` after a failed one | `Accept`; `AcceptFails` |
| the branch `events == EPOLLIN`: clear; one `recv` with data; an error; break, `close`, `EPOLL_CTL_DEL` | `RecvBegin`; `RecvSome`; `RecvError`; `Disconnect` |
| every other mask of a client | `Ignored` |

`Accept` is enabled only when the accept queue is not empty, as `accept()` on a blocking socket would otherwise
stop the thread; that it never does is the invariant `AcceptNeverBlocks`. `close` takes a descriptor out of epoll
by itself; the `EPOLL_CTL_DEL` that follows fails and changes nothing.

### GaussConnector: state and actions

`insert`, `update` and `omit` have the same body, so one set of actions models a call of any of them. `current` is the call
inside `PQexec`, `reply` the status on its way (any value of `ExecStatusType` that an answer can have; the wrapper tells `PGRES_COMMAND_OK` from all
others), `applied` the calls whose statement took effect, `errmsg[b]` the
texts in a buffer, each named by the call it is about. `outcome[k]` is a history variable, the status `PQresultStatus` gave for call `k`.
`PQerrorMessage` is a text for an error status and empty for `TUPLES_OK`, `EMPTY_QUERY` and the two statuses of a `COPY`,
which libpq does not count as errors although the wrapper does. `bufferOf[k]` is the buffer of call `k`, or the default,
a null pointer (`ErrmsgBuffers`).

| code | action |
|---|---|
| constructor, succeeding or exiting | `Construct` |
| `PQexec` sent, on the connection as it is (`Reconnect`: nobody makes it again); what the database does; the connection lost | `Exec`; `Reply`; `Lose` |
| `return 0`; the error branch with `strcat`, `PQclear`, `return -1` | `ReturnOk`; `ReturnError` |
| destructor | `Destroy` |

## 3. Runs

All finish within three minutes. Deadlock is checked for the pool. The servers may really stop: with
no clients left, `epoll_wait(-1)` blocks for ever, and after `exit()` or SIGPIPE nothing runs; and a
`GaussConnector` that was destroyed has no more steps.

| run | instance | checks | shows |
|---|---|---|---|
| `pool_core` | argument 0, 3 hardware threads; 2 clients, owner; 5 tasks, two of them children, one awaited by its parent | `TypeOK`, `TaskAccounting`, `NoLostWakeup`, `QuitWakesAll`, `DrainBeforeDestroy`, `ImplementsTaskService`, `EveryTaskRuns`, `DestructorReturns` | all interleavings, with spurious wakeups, enqueues by clients, owner and task bodies, and enqueues racing the destructor; no task and no join is left hanging |
| `pool_no_hw` | argument 2, `hardware_concurrency() = 0` | `PoolHasWorkers` (violated) | finding 1 |
| `reactor_bytes` | 2 clients, streams of 4, buffer of 3, resets of both forms, one NUL | `TypeOK`, `LengthTracksBytes`, `EchoFaithful`, `SigPipeNeedsReset`, `InputIsAnswered` | buffers, lengths, bytes; streams that fill and overfill the buffer; who speaks is answered |
| `reactor_fds` | 3 clients, one may be reset, 2 descriptors | `EpollCoherent`, `DescriptorsOwned`, `BatchLive`, `AcceptHasPending`, `ImplementsEchoService`, `EventAcceptsOldest` | descriptor exhaustion and reuse; refinement; progress of the single thread |
| `chat_core` | 2 client processes, buffers of 3: one sends up to 2 lines and 3 bytes in all, one a single line of at most a byte; their input may end at once | `CTypeOK`, `AnswerFits`, `OnlyFirstLineArrives`, `AnswerPrintedOnce`, `SenderIsAnswered` | both programs end to end: what arrives, what is printed, that the client gets out of its read loop, also when the server stops or a reset comes |
| `reactor_stranded`, `reactor_zombie`, `reactor_boot` | 2 or 3 clients | `EveryClientAccepted`, `InEpollMeansRegistered`, `LoopCheckSound` (violated) | findings 2 to 4 |
| `legacy_core` | 3 clients, one may be reset, 2 descriptors, streams of 2, buffer of 2 | `TypeOK`, `AcceptNeverBlocks`, `BufferHoldsMessage`, `DescriptorsRegistered`, `OrderlyDisconnected` | the loop never blocks, the shared buffer holds one message, descriptors are neither mixed up nor, but for reset clients, leaked |
| `gauss_core` | 3 calls, 2 buffers or none, all ways to share them | `TypeOK`, `ZeroMeansApplied`, `ErrorsAccounted`, `LeakIsSuccesses`, `LostForGood` | what return codes and error texts mean when the connection fails at any moment, and that no call succeeds after that |
| `gauss_retry`, `gauss_silent` | the same | `FailureMeansNotApplied`, `FailureIsExplained` (violated) | findings 5 and 6 |

Bounds and why they are enough. Three workers are one more than two that can race for a task
while another sleeps; five tasks let the queue hold several while others run. Two descriptors and three clients
make accept fail and a descriptor be reused; batches of `MaxEvents = 2` leave a third ready
descriptor behind. A buffer of 3 with streams of 4 covers an empty, a partial, an exactly full and an overfull
read. In `legacy_core` the buffer fills exactly, from one or two `recv()` calls; three clients on two descriptors
exhaust and reuse them. In `chat_core` a line of 2 bytes is the longest that fits the buffer of 3 with its terminator, and a message of 3 bytes, which only an immediate end of
the input produces, fills the buffer when it comes back. After a first line of 2 bytes `MaxSent = 3` leaves a byte for the second line, which finds the connection closed or
broken (lost, or SIGPIPE); the second process, with one byte, keeps the server busy in between. Three calls of `GaussConnector` are one more than a buffer needs to be shared. `Backlog` (15 in the code) is 3, never the limit in these instances. The code's 2048-byte buffers
and 16384 events differ from the instances only in size. `NoFd` is -1 as in the code.

Fairness. Pool: each worker takes its next step if it can go on taking it (the scheduler runs every
runnable thread); a thread inside `enqueue` finishes it; the owner finishes what it has begun, but nobody has to
call `enqueue` or to start the destructor; waiting for the mutex is part of weak fairness of the waiting
thread, together with the assumption that spurious wakeups are finitely many
(`<>[][~ \E w : SpuriousWakeup(w)]_vars`): an endless run of them could keep the mutex
busy whenever a given thread looks at it. Reactor and legacy server: weak fairness of the server's single thread, none of the clients. Chat client: both
programs' threads are scheduled and the network delivers what was sent; the user owes nothing (need not type, need not quit).

Mutual waiting. `pool_core` has fewer tasks that wait for a future (one) than workers (three). When as many
tasks wait as there are workers, no worker is left to run what they wait for and the pool hangs; nothing in
the repository promises otherwise, so this is documented here and not a finding.

## 4. Findings

1. `pool_no_hw`: `ThreadPool.hpp:20-21` promises `_thread_num` workers; the clamp at
   `ThreadPool.cpp:6-9` makes it none when `hardware_concurrency()` returns 0.
2. `reactor_stranded`: one `accept()` per edge-triggered event (`Server.cpp:37`) strands the
   second of two connections that arrive together.
3. `reactor_zombie`: a failed `accept()` leaves a `Connection` for descriptor -1 that claims to
   be in epoll (`Epoll.cpp:28-29` against `Connection.hpp:28`).
4. `reactor_boot`: `Server.cpp:20` tests the uninitialised member `loop` instead of the argument; if it happens not to be null the
   server exits with "EventLoop * is nullptr!" although `main` passed it one.
5. `gauss_retry`: `GaussConnector.hpp:20` promises -1 for a failed insert; `GaussConnector.cpp:36` also returns -1
   for one that took effect but returned rows or whose result was lost with the connection.
6. `gauss_silent`: `GaussConnector.hpp:18-19` promises the error text of a failed operation in the caller's buffer; for a statement that
   returned rows and for an empty one the call fails, but `PQerrorMessage` is empty and `GaussConnector.cpp:40` stores nothing.

Behaviour worth knowing that contradicts no text of the repository, and so has no run of its own:

- The legacy server skips a client whose reset arrives before its event is taken (`apps/server.cpp:71`, the mask is
  not equal to EPOLLIN then) and, edge-triggered, never hears of it again: its descriptor stays open. This is the exception
  in `OrderlyDisconnected`. It also accepts one connection per edge, as in finding 2.
- A client whose first line starts with a NUL byte sends nothing and then waits for an answer, while the server waits for
  a byte (`apps/client.cpp:40-44`). This is why `SenderIsAnswered` asks that something was sent.
- At the end of the input `fgets` leaves the buffer as it is, and the client sends what it last received, again and again, until SIGPIPE. If
  the input is empty from the start, `strlen` (`apps/client.cpp:40`) reads memory nobody has written: the client may send BUFFER_LENGTH bytes or
  more, the answer then fills the buffer, and `printf` reads past its end. This is why `AnswerFits` is about clients that were typed a line, and
  why `AnswerPrintedOnce` allows the rest of an overlong answer to be printed after later lines.
- For a message with a NUL byte `strcpy` (`Server.cpp:81`) copies the bytes before it while `rlen` counts all, so `write` sends uninitialised bytes of
  `wbuffer` after it; `EchoFaithful` says what holds up to the NUL.
- A client that half-closes and is then reset, or that is reset after the server has read from it, ends the server for all by SIGPIPE
  (`SigPipeNeedsReset`).
- The client's second line meets a closed connection and prints an empty answer, its third ends it with SIGPIPE
  (`OnlyFirstLineArrives`, `AnswerPrintedOnce`): the server closes after each answer, the client never connects again.
- `strcat` (`GaussConnector.cpp:40`) appends the error to what the caller's array holds, so the array must be a string
  already and grows with each failure that has a text; `ErrorsAccounted` says what it then holds.

## 5. Proofs

Every invariant and every action property that a passing run checks, and both refinements, are theorems. Each inductive
invariant was checked with TLC on the instance of its run before it was proved.

### ThreadPool

`ThreadPoolProofs` proves, for all values of the constants under the three named assumptions of
`ThreadPool` (the argument is an integer and the hardware thread count a natural number; threads and
tasks are what their names say), with a finite but arbitrary number of workers and arbitrary sets of
clients and tasks:

- `TypeCorrect`, `EachTaskOnce`, `WakeupsSuffice`, `DestructorWakesAll`: the run's invariants hold always;
- `DestructorDrains` and `PoolIsService`, under the further assumption `HardwareConcurrency > 0`, which
  finding 1 shows to be needed: a pool without workers is destroyed with its tasks undone.

The argument. `TaskAccounting`, `NoLostWakeup` and `QuitWakesAll` are not inductive on their own. `IInv`
adds who may hold the mutex at which point (`Holder`), that `quit` is set exactly from the destructor's unlock on
(`QuitPhase`), that a worker about to sleep still sees an empty queue (`SleepInv`, which follows because the
mutex is held from the test to the sleep), that a worker has a task exactly while it runs one (`RunInv`) and what a
returned worker knows (`ReturnInv`). `NoLostWakeup` is a counting argument: a push adds one task and, if anyone
sleeps, moves one sleeper into `Awake`; a take removes one of each; a worker goes to sleep only on an
empty queue. `IInv` was checked with TLC on the instance of `pool_core` before it was proved.
The refinement `PoolIsService` maps `EnqueuePush`, `TakeTask`, `FinishTask`, `DtorQuit`,
`DtorJoin` and `EnqueueDying` to the service's actions and all else to stuttering; that fewer than `thread_num` tasks
run when a worker takes one is `RoomForOneMore`.

### GaussConnector

`GaussConnectorProofs` proves, for any set of calls and buffers, the invariants of `gauss_core` (`TypeCorrect`, `ZeroTrusted`, `ErrorsKept`,
`LeakExact`). The inductive invariant adds that the call inside `PQexec` has not
returned yet and that a status reporting an effect is only sent after the effect (`ReplyTrue`): without it a
return of 0 could not be traced back to the statement. The lemma `AppendNew` says what `strcat` of a new text does to a buffer. The property
`LostForGood` is temporal (after the loss, never again a 0): `NoRecovery` proves it from a second invariant, `NeverOk(k)` (the connection is
lost and call `k` has not returned 0), which `LostStep` shows every step to preserve; it fails at once if `Exec` may reset the connection.

### Tcp

`TcpProofs` holds what the proofs about both servers need of the kernel's side: `connect()` lengthens the accept queue and
`accept()` takes its head while no client is in it twice (`ConnectQueue`, `AcceptQueue`), an arrival changes one client's
stream only (`ArrivalStreams`), and `recv()` at the right offset extends what a buffer holds (`FilledBytes`).

### Reactor

Three modules, for any set of clients, descriptors, bytes per client, buffer size, batch size and accept queue. The assumptions,
all of `TcpAssumption` and `ReactorAssumption`: clients and descriptors are finite sets (a process has an `RLIMIT_NOFILE`), the
names of objects and callbacks are distinct from each other and from null, sizes are positive.

`ReactorProofs`: `EpollCoherence`, `DescriptorOwnership`, `BatchLiveness` and `AcceptPending`, from the invariant `IInv`. None of the four is
inductive. What they need is an account of the same relation in both directions: `Registered` goes from a flagged object to its entry in
`connMap` and its registration, `Entries` back from an entry to a live flagged object with that descriptor. Only with both
does it follow that `delete` of one object cannot leave an entry that another one's descriptor will reuse. That a raw pointer in the batch stays live rests on
two more parts: a callback only deletes the `Connection` whose turn it is (`Batch`: it has left the batch), and an event is one
the object still asks for, since only its own callback changes its mask; so a set callback is found for it (`ClientObjects`,
`ListenerObject`). `AcceptPending` is a counting argument, `Counted`: each edge of the listening socket brings its
connection into the queue, each accept takes one of both. The same count shows that there are never more failed `accept()`
calls than clients that connected, so that an action `AcceptFails` always finds a name for the object it leaves.

`ReactorBytesProofs`: `LengthCorrect`, `EchoCorrect`, `SigPipeCause` and, with the ranges, `TypeCorrect`, from `BInv`. (`SigPipeCause`: a process ended by SIGPIPE has a client that was reset after its
half-close, or one whose reset was reported after at least a byte of it was read; a reset alone is not enough, as `rlen` is -1 then.) It says for each
client that its buffer is empty until its first `recvCallback` and from then on holds what was read, each byte at its position, then zeros
(`Buffer`), and that `rlen` is the number of bytes, one less after a reported reset (`LengthKept`). The lemmas `StrLenBound` and
`WrittenBytes` then say what `strcpy` and `write` make of it: the first bytes up to a NUL. A step of one client's callback leaves
the others' part alone (`OneClientStep`), all other steps leave everybody's (`QuietStep`).

`ReactorServiceProofs`: `ServerIsService`, the refinement of `EchoService`. `Connect`, the byte of an `Arrival`, `AcceptClient` and `SendCallback`
map to `Arrive`, `Say`, `Admit` and `Answer`; `BootRegister` to `GoUp`; `BootFailure`, `LoopCheck` and `SendKilled` to `GoDown`;
everything else to stuttering. `CapacityLeft` shows that a free descriptor leaves room in the service (accepted clients have one each).
The theorem has a hypothesis, `NulAt[c] = 0` for all clients: nobody sends a NUL byte. It is needed, since the bytes written after a NUL are
not the client's (section 4), and no client of `reactor_fds`, which checks the refinement, sends one.

### ChatClient

`ChatClientProofs` is about the client programs and the server together. `ClientAssumption` says that `NulAt` is 0: the program
sends `strlen()` bytes, which include no NUL. `ClientInvariance` carries `IInv` and `BInv` over to the composition,
whose only new step for the server is `ServerStops`, and adds `CInv`, which says how a process fits its connection (`Fits`):

- before the first `send()` (`Unsent`) the buffer is unwritten;
- as long as nothing was printed (`First`), no more than one message was sent and what was received is all in the buffer;
- once something was printed (`Later`), the connection is closed at the server, and what there was to receive was received or cut off by a reset, unless
  the answer is longer than the buffer;
- in both cases `rlen` is the length of what the buffer holds, or one less after a reset (`Got`).

The second stays true because a closed connection stays as it is, whatever server and network do (`ClosedForGood`, and
`EndedForGood` for a server that has stopped), and it is what makes `FirstLineOnly` hold: a byte can only arrive on an open connection, so it
belongs to what was sent first, however long that was. `AnswerFitsBuffer` follows from the chain received <= echoed <= arrived <= first line < buffer, whose last
link is there for a typed line only, and `PrintedOnce` from `UptoExtends`: `recv()` appends the next bytes to the first ones. `ClientTypes` is the type invariant.
`ClientsAreServed` extends `ServerIsService` to the composition, without its hypothesis; `ServerStops` is the service's `GoDown`.

### LegacyServer

`LegacyServerProofs`: `AcceptReturns`, `BufferCorrect`, `DescriptorsCorrect` and `TypeCorrect`, from `LInv`, for any clients, descriptors, bytes and
sizes. Here the events hold descriptors and not objects, so `Batch` has to say that no event is of a descriptor that was closed since
`epoll_wait` returned it, and that there is one per descriptor; `Registered` and `Holders` tie epoll's interest list, the `O_NONBLOCK` flags, the descriptors and
the accepted clients together; `Reading` says that nothing was read of a client before its turn, so that the one
buffer, cleared at its beginning, holds this client's bytes only. `AcceptReturns` (the blocking `accept()` is never called on an empty queue)
counts as `Counted` does for the reactor.

### Only model-checked

The liveness properties (`EveryTaskRuns`, `DestructorReturns`, `InputIsAnswered`, `EventAcceptsOldest`,
`SenderIsAnswered`, `OrderlyDisconnected`): liveness under fairness and ENABLED are out of the prover's reach. The properties of the
runs that end in a violation are refuted by TLC; there is nothing to prove.

## 6. Not modelled

- The variadic template `GaussConnector::insert(tableName, args...)`: its body only constructs a string. A call
  `insert(cmd, nullptr)` with the literal would choose it over the function that sends the command.
- `printf("%s", buffer)` of a completely filled, unterminated buffer in `apps/server.cpp:89`: output only.
- `Socket()` and `Socket(int, InetAddress*)`: no caller (the second tests the descriptor before it is assigned
  and would always exit when it happens to be -1). `Connection()` and `Connection(ip, port)`: empty; `wBufferClear`; `setNonBlocking` of
  `apps/client.cpp`: not called. `~Epoll` and `~EventLoop`: the programs never delete their loop.
- Exceptions from allocation; what a task's callable computes.
- The libpq headers under `inc/opengauss/`, but for the values of `ConnStatusType` and `ExecStatusType`, and the binaries
  under `libs/`: third-party.

## 7. Plan

Done: `ThreadPool` with its abstract service, liveness and proofs; `Tcp`, `EpollKernel`, `Connection`, `Epoll`, `Reactor` with the
abstract echo service, liveness and proofs; `ChatClient` on top of it, `LegacyServer` and `GaussConnector` with proofs. What could follow:

1. an abstract specification of the legacy server (it answers nobody: each client is read once and let go) and its refinement, which
   `LInv` should suffice for;
2. action properties of the reactor that now follow from `IInv` and `BInv`: a connection, once closed, never changes again (`ClosedForGood`
   is the step), and an object in the batch is not registered anew before its turn.
