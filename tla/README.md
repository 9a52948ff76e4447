# Formal model of Co_uring GameServer

TLA+ specifications of the game server in `src/`: a C++20 coroutine server on
io_uring with one ring per worker thread. Every definition is translated from the
source; the lines each one stands for are listed in `PROJECT.json` under `map`.

## The system

One process. `main` creates a `GameServer`, which creates worker threads. Each
worker has its own ring (`IoUring`, thread local), its own provided buffers
(`BufferRing`, thread local), its own listening socket (`SO_REUSEPORT`) and an event
loop that resumes coroutines. All workers share one `SessionManager` and one
`Logger`.

| Component | Source | State | Operations | Meets the others through |
|---|---|---|---|---|
| Event loop and ring | `io/io_uring.*` | submission queue, completion ring, requests in the kernel | `eventLoop`, `submitAndWait`, the submit functions | user data of a completion is an `sqe_data` inside a coroutine frame; `handle.resume()` |
| Sockets and awaiters | `io/socket.*`, `io/include/file.h` | descriptor; `sqe_data`, `initial_await_`, buffer id and size | `recv`, `send`, `accept`, `listen`, `bind`; `await_suspend` and `await_resume` of each awaiter | call the ring, are awaited by coroutines |
| Coroutine types | `coroutine/include/task.h`, `spawn.h` | frames, handles | eager start, `co_await` of a task, `spawn`, destruction | every coroutine of the server is one |
| Worker | `server/server.cpp` | listening socket | `init`, `run`, `accept_clients` | spawns one session chain per client |
| GameServer, main | `server/server.cpp`, `main.cpp` | `running_`, threads, `shutdown_requested` | `start`, `stop`, `wait_for_shutdown`, destructor, signal handler | threads, joins |
| Sessions | `session/*` | session table, `connected_`, heartbeat | `AddSession`, `GetSession`, `RemoveSession`, `CleanupExpiredSessions`, `HandleClientSession`, `HandleSession`, `OnRecvData`, `SendData` | table shared by the workers under a `shared_mutex` |
| Buffer ring | `io/buffer_ring.*`, `addBuf`, `setupBufRing` | buffers, ring slots and tail, borrowed set | register, borrow, return | kernel takes buffers, `HandleSession` returns them |
| Logger | `io/logger.*` | level, sinks, mutex | `log`, `logMessage`, `writeLog`, `setLogFile` | called everywhere |
| Clients | `client/*` | socket, receive thread | connect, send, receive, close | the far end of a connection |

### What is hard in this code

* The completion ring, the submission queue and the coroutines interleave in every
  order the network allows, and the loop's return-value convention (0 means failure)
  depends on what the *previous* batch of coroutines happened to submit.
* A completion writes into a frame whose lifetime ends by itself
  (`final_suspend` is `suspend_never`).
* Requests can be dropped (queue full), end on their own (multishot accept),
  or fail for lack of buffers or descriptors.
* Initialisation may fail at any stage, in some threads and not in others.
* Shutdown joins threads that run an endless loop.
* The session table is shared by all workers, and a cleanup may take sessions out of it
  that are still being served.

* Frames free themselves, tasks are moved before they are awaited, and nobody is told
  when an awaited task completes.
* A returned buffer is written at an offset that is its id, in a ring whose tail moves.
* Two writers put text on the console without the mutex every other one takes; one of
  them is a signal handler.

`PROJECT.json` lists each hazard at its line under `hazards`, with the properties that
cover it.

### What makes each component correct

* **Event loop**: an awaiter is in at most one place of the ring; only live frames are
  resumed; a suspended session has a request outstanding; completions are seen.
* **Worker**: the table, the `connected_` flags and the suspended session
  coroutines agree; an accepted descriptor is handled exactly once; waiting
  clients are served and departures noticed; data reaches `OnRecvData`, buffers
  come back, frames and descriptors are released.
* **GameServer**: no half set up worker accepts; a worker that gives up leaves no socket on
  the shared port; every thread gets to its loop; a signal ends the process (it does not:
  once a thread has been created, nobody gets past the joins).
* **Sessions**: operations of several workers and of the cleaner take effect one at a
  time; the table lists what was added and neither removed nor cleaned up; a departed
  session leaves it.
* **Coroutine types**: each frame has one owner; the ring refers to live frames only; what
  is touched after it was freed is known exactly.
* **Buffer ring**: a buffer is on offer once, or with one borrower, for as long as what is
  returned is what is published; the tail never overruns the head.
* **Logger**: a line is in one piece, once, in both sinks, in the same order; every
  argument lands in its place; no call hangs.
* **Clients**: what is framed is what is announced; a lost connection is noticed; who quits
  leaves, unless the receive thread waits for a silent server.

## The modules

| Module | Models | Extends or instantiates |
|---|---|---|
| `EventLoop` | one ring and its loop; the resumed coroutine is any that ends, waits again or starts another | |
| `Worker` | one worker after a successful `init`, with kernel and clients | `Ring == INSTANCE EventLoop` |
| `GameServer` | main, GameServer, `Worker::init` and `bind` of every thread | |
| `SessionTable` | what `SessionManager` promises: operations that take effect at once | |
| `SessionRegistry` | `SessionManager` under its `shared_mutex`, workers and a maintenance thread | `Table == INSTANCE SessionTable` |
| `Frames` | frames and task objects behind `spawn` | |
| `BufferPool` | the provided buffers by numbers | |
| `BufferRing` | slots, tail and head, `setupBufRing`, `addBuf` | `Pool == INSTANCE BufferPool` |
| `Logger` | level, mutex, console, file and formatting, with the writers that ignore the mutex | |
| `PacketClient` | the interactive client: menu, receive thread, connection | |
| `EventLoopProofs`, `WorkerProofs`, `GameServerProofs`, `SessionRegistryProofs`, `FramesProofs`, `BufferRingProofs`, `LoggerProofs`, `PacketClientProofs` | theorems about the module each is named after | that module; `WorkerProofs` also `RingProofs == INSTANCE EventLoopProofs` |
| `MCEventLoop`, `MCWorker` | constants for TLC | |

How they fit: `GameServer` brings a worker to `accepting`, where `Worker` begins; `Worker` is
an `EventLoop` with the coroutines filled in; its session table is one worker's view of
`SessionRegistry`, its `handlers` are the callers of `Frames`, its `offered` the pool of
`BufferRing`. `Worker` needs of the three what they show: that a worker's own operations on the
table are atomic (`ImplementsTable`), that callers stay suspended (`CallersStay`) and that
numbers of buffers add up (`AllAccounted`).

### EventLoop

| Variable | In the code |
|---|---|
| `sq` | entries between the ring's submission head and `sqe_tail` |
| `armed` | requests the kernel has taken and not finished |
| `cq` | entries between `khead` and `ktail` of the completion ring |
| `loop`, `submitted` | the place in `eventLoop`, and the value `submitAndWait` will return |
| `waiting` | awaiters whose coroutine is suspended on them; outside it a frame does not exist |

`Submit` and `WaitReturns` are the two halves of `io_uring_submit_and_wait`: the
kernel can complete requests in between. `WaitInterrupted` is a signal, `-EINTR` or the
number of requests already consumed. `Returns` is the `if (!result) continue;` of the
loop. `SeeHead` copies the head completion and marks it seen; `Resume` adds what
the coroutine does until it suspends again. That the loop reads the kernel's tail at
every step is how `io_uring_for_each_cqe` is defined; a loop that read
it once per batch would only leave the drain earlier.

### Worker

A client's name stands for its descriptor, its session and its recv awaiter.
`waiting` (from `EventLoop`) is the set of suspended `HandleSession` frames and the
accept coroutine; `handlers` the `HandleClientSession` frames with their spawn lambdas;
`open` the accepted descriptors; `offered` the number of buffers the kernel may take;
`received` and `handed` count recvs with data, and those whose data reached
`OnRecvData`. Each resumed coroutine runs to its next suspension in one action, because
nothing else runs on that thread: `StartSession` is `accept_clients` through `spawn`,
`HandleClientSession`, `AddSession`, `GetSession` and `HandleSession` to the first
`recv()`; `ReceiveData` one turn of HandleSession's loop; `EndSession` the way out of it;
`AcceptNull` the warning branch of `accept_clients`.

The kernel's side is external: a multishot accept posts one completion per connection
and goes on unless descriptors or completion entries are missing; a recv takes a
buffer before it reads; bytes come before the end of file; a new request is
attempted before `io_uring_enter` waits (`fresh`). Bytes are counted in messages,
and one recv may take several.

`EventLoop` is the abstract specification of a worker's ring: `ImplementsRing`
is `Ring!Spec` under the refinement mapping that keeps the six ring variables
and takes the clients for the one-shot operations.

### GameServer

`worker[w]` is the stage `Worker::init` is at in thread `w`, or what became of it;
`made[w]` what it has set up. `resolve`, `open` and `bind` are the stages of the free function
`bind`: `addresses[w]` are the addresses it has not tried, `sockets[w]` the sockets the
thread holds open. `BindFails` is any of its three calls failing after `socket()`;
`ListenFails` closes the socket through the destructor of the local `socket_server`.
`StageFails` is init's earlier returns, after which
`worker_thread_func` calls `run()` all the same; `LoopFaults` is the event loop on a ring
`queueInit` never set up (its pointers are null, the process faults).
`CreateFails` is `std::thread`'s constructor throwing inside `start`. The owner
of the object is `main` (polls the flag, then `stop`) or the program of the
repository's README (`wait_for_shutdown`).

### SessionRegistry

A client's name stands for its session and its id: ids are 32 random digits, taken as distinct.
`at[t]` is a thread's place: `add`, `get`, `remove`, `clean`, `count` wait for `mutex_`
(`LockUnique` for `std::unique_lock`, `LockShared` for `std::shared_lock`), the `-ing` form is
inside. `stage[c]` is the life of a session from `accept` to the end of `HandleSession`;
`home[c]` the worker that accepted it, on whose thread everything of it runs. `Visit`
is one turn of the cleanup's loop, so that others may run between two erasures if the lock
let them; `ahead` is what its iterator has not reached and `erased` what it has taken.
`stale` is what `IsExpired` would answer: `Ages` makes a session stale, `OnConnected` refreshes
it without the lock, and no other call of `UpdateHeartbeat` is ever reached. Nothing in the
repository calls `CleanupExpiredSessions` or `GetActiveSessionCount`; the maintenance
thread is the caller they were written for.

The refinement mapping gives `SessionTable` the entries still there and those the running cleanup
has already erased: the cleanup takes effect as it returns the lock.

### Frames

A spawn `s` is one evaluation of `spawn(f(...))`, with three frames (the spawn lambda, `f`,
and `HandleSession` if `f` awaits it) and four task objects (the argument, the lambda's
parameter, its copy in the frame, the prvalue `f` awaits). `at[s]` follows the expression: `f` runs first
(`calling`), then the lambda is entered (`spawned`), awaits (`returning`), and `spawn` returns.
`misuse` records what touches a frame that is gone: `handle.done()` of a completed task, the
read of its promise as it is resumed, a second destruction, and the kernel's read of a vector
that is gone. After undefined behaviour the model goes on with both values `done()` may give. `SessionEnds` and `SendEnds` are the
event loop resuming a frame for the last time.

### BufferRing

Slots, ids and the two indices as `io_uring_buf_ring` has them: `tail` and `head` are 16-bit and
wrap, a slot is an index modulo the ring size. `AddBuf` and `Publish` are the two halves of
`addBuf` (`io_uring_buf_ring_add`, `io_uring_buf_ring_advance`): the kernel may take a buffer in
between. `AddBuf` writes at offset `buf_id` from the tail, as the code does, and `misplaced` remembers
that this was another slot than the next one. `Forgets` is `HandleSession` as it is, which returns
nothing; `AddBuf` is what it would do if it asked the right awaiter. `BufferPool` is refined by
`offered <- (tail - head) % Wrap`.

### Logger

`at[t]` is where a thread is in `log`: `wanting` the mutex, or inside with the `text` of the line,
its `end` or the `file` still to write. A line is `<<thread, number of its call>>`; on the
console it is two pieces, because `std::cout << text << std::endl` are two insertions. `asked` and
`text` are what the last call was given and what `formatHelper` made of it, as sequences of pieces:
`{}` is a hole, anything else (also `{:x}`, which stands for the code's `{:016x}`) is not.
`handler` is the thread a signal handler interrupts; it writes, as `Announces` (`queueInit`,
`setupBufRing`) does, to `std::cout` directly. A file that fails a write stays open and
takes nothing more. `main` goes through setting level and file, its first line, and serving,
or through its `catch`.

### PacketClient

A packet is the length of its payload. `sent` are the packets `send` took, `echoed` how many
of them the server returned, `shown` what the receive thread made of them; `cut` is a packet
the server had begun to return when it closed. `menu` is where main is, `receiver` where the
thread is in its loop: `header` and `body` are its two calls of `recv`, and `astray` is the
reader that takes the middle of a payload for a header, after a payload whose length did not
fit the header's 16 bits. `err` is the socket's error, which the kernel reports once, to
`send` or to `recv`; `late` remembers data sent after the server closed, which it answers with a
reset. Choices of the menu that send (1 to 4, 6) are repetitions of `SendPacket`; the others
change nothing but `Quit`. A user who types nothing more and an input at its end, at which
the menu goes round for ever, are the same to the rest of the program. The server is the
one the client was written for: it echoes, as `OnRecvData` would, when it likes.

### Variants

Each module has, in a section of its own, variants of some definitions: the form a
slip in the code would give them (a forgotten removal, a check of the wrong
sign). With the variant in place of the definition some property of the module fails;
`PROJECT.json` says which, under `mutants`.

## What the runs check

| Run | Instance | Shows |
|---|---|---|
| `EventLoopSafety` | 3 sessions, at most 4 unseen completions | `OneOutstanding`, `NoDanglingResume`, `NoLostWakeup`, `WedgeIsPermanent` |
| `WorkerSafety` | 3 clients, 2 descriptors, 2 buffers, 1 completion entry before the accept ends | `TableMatchesCoroutines`, `AcceptedOnce`, `ReceiveBudget`, `ImplementsRing`, `AcceptLostForGood` |
| `WorkerLiveness` | the same with 1 buffer and one client that sends | `ServedOrStuck`, `DepartureNoticed`, `RingSeen` (the ring's `SeenOrWedged`) |
| `GameServerSafety` | 3 workers, at most 2 addresses | `AcceptsWithEverything`, `SocketOnlyToAccept`, `NeverEnds`, `WorkersSettle` |
| `SessionRegistrySafety` | 2 clients, 2 workers, the maintenance thread | `AloneToChange`, `ListedExactly`, `ImplementsTable`, `DepartedForgotten` |
| `FramesSafety` | 4 spawns of any kind | `MisuseExactly`, `OwnedOnce`, `RingHoldsLiveFrames`, `CallersStay` |
| `BufferRingSafety` | 3 sessions, 4 buffers, indices modulo 8 | `AllAccounted`, `ExactlyOnePlace`, `OldIdPublished`, `ImplementsPool` |
| `LoggerSafety` | main and 2 workers, 4 calls, 1 stray write | `LinesWhole`, `FileFollowsConsole`, `EachShownOnce`, `FormattedByPlace`, `CallsReturn` |
| `PacketClientSafety` | 3 packets of lengths 0, 4, 65531, 65532, 65540 | `ReadAsSent`, `LossNoticed`, `QuitEndsOrBlocks`, `OnlyServerFrees` |

and, where the code does not do what the repository says (`findings`):

| Run | Shows |
|---|---|
| `EventLoopWedge` | a completion is left behind for ever after a submit that returned 0 |
| `WorkerEcho` | received data is not handed to `OnRecvData`, nothing is echoed, no buffer is returned |
| `GameServerStop` | after Ctrl+C the process does not end |

Other things the models show, without a run that expects a violation:

* `CallersStay` (`Frames`, `src/coroutine/include/task.h:302`): whoever suspends on a task is never
  resumed. The frames of `HandleClientSession` and of the spawn lambda, the `GameSession` and its
  open descriptor outlive every session. A completed task that resumed its caller would not be enough to
  mend it: the caller's temporary would destroy the frame a second time
  (the variant `ResumesCaller` breaks `MisuseExactly`), because `final_suspend` does not suspend.
* `MisuseExactly` says which uses of freed memory there are, and that they always happen: a task that
  completes before it is awaited (`HandleClientSession` of a session that was cleaned up, `SendData` of
  one that is not connected), and the bytes of `SendData`, which lie in a vector of `OnRecvData` (with the
  vector in the frame, the variant `OwnedByFrame`, the second goes away and the property fails). Neither is
  reached as long as nothing calls the cleanup and `OnRecvData`.
* `ExactlyOnePlace` holds only until an `addBuf` has written another slot than it published: with
  the offset `buf_id` (`src/io/io_uring.cpp:230`) the slot that is published keeps the id it had, so
  that a buffer may be on offer twice or while a session reads it: `OldIdPublished` says so of each such
  return (with the offset 0, the variant `AtTail`, it fails). The numbers still add up (`AllAccounted`). Nothing returns a buffer today.
* `ServedOrStuck` has the case `AcceptLost`: a multishot accept that ended is awaited again without
  a new request (`src/io/socket.cpp:134`). `AcceptLostForGood` says that this is never mended: no request is
  made, and who is in the accept queue, or comes to it later, stays there (if the accept loop
  asked again once the request had ended, the variant `AsksAgain`, it would fail).
* `FormattedByPlace` says what becomes of an argument without a hole: the first is lost, and since
  `{:016x}` is no hole, so are the addresses in the debug lines.
* `FileFollowsConsole` asks for a complete file only while no write has failed: after the first
  failure the file takes nothing more and nobody is told.
* In `GameServer` all workers can be `idle` while `caller` is `serving`: `start` returns true and main
  reports a running server although no worker listens, since `Worker::init` returns nothing.
* `NeverEnds` covers every way to the joins of `GameServer::stop`: after a signal, from the destructor when
  `start` threw with a thread already created (`src/server/server.cpp:134`; main's message
  about the error is never printed), and in `wait_for_shutdown`. A process that faults or is killed is
  another matter.
* In `PacketClient` main can wait in `joining` for a thread that is blocked in `recv` on a
  socket nobody shuts down (`src/client/test_client.cpp:190`). `QuitEndsOrBlocks`: that is the only
  way in which whoever quits does not leave. `OnlyServerFrees`: while the thread waits between two
  packets nothing main does, quitting included, gets it out of `recv`; only the server can (if
  quitting shut the socket down, the variant `ShutsDown`, it fails). And `SendKills` is enabled after a
  reset: `send` raises `SIGPIPE` before `sendPacket` can report the failure.

### Bounds

`MaxCq` bounds unseen completions: the accept request can complete without end, and the
kernel's ring is finite too. With two or three sessions every pair of coroutines meets in
every order, and one more than the sessions' own completions is enough for accept
completions to come before, between and after them. `Roomy` gives the submission queue one
entry per session, the room the program has up to `IO_URING_QUEUE_SIZE` sessions of a
worker; one entry fewer breaks `NoLostWakeup` (the variant `PushOffByOne`). In `Worker`, `CqSize`
is the number of unseen completions at which the multishot accept ends, `MaxFds` the
descriptors the process has left. In `WorkerSafety` and `WorkerLiveness` there are three clients,
two descriptors and one entry: the request can end for want of either while another client is
in the accept queue, which is the case `AcceptLost` of `ServedOrStuck`. In `WorkerEcho`, which does not
need it, nobody is turned away. The buffers run out while sessions are alive: there are 2 for the three
messages of `WorkerSafety` and 1 for the one of `WorkerLiveness`, after which every recv fails. `MaxSends` bounds each client's messages (`OneEach`, `TwoEach`, `OneTalks` of
`MCWorker`). The number of
sessions a worker has had is not bounded by the model but by `Conns`: a client connects once.

In `PacketClient` the lengths lie on both sides of what 16 bits can announce, with one (65532)
whose header announces less than a header and one (65540) that announces a payload of 4;
three packets let one be read, one be on its way and one be cut. `Sizes` is 65536 in every run.

`SessionRegistry` has two workers, so that each of add, get and remove meets each other from
another thread, and the cleanup beside them. In `Frames` four spawns are one accept loop and any
three of clients and sends: a send needs a client, which needs the accept loop. The ring of
`BufferRing` has four slots and wraps after two rounds: with `Wrap` twice `N` the tail wraps
with the fourth return and the head after eight takes, and three sessions can hold three buffers while a fourth is on offer.
In `Logger` `MaxCalls` and `MaxStrays` bound the console's length, `MaxPieces` (3) formats and
argument lists: surplus arguments need one without a hole and two more. Only main's first
call has a format worth formatting, since formatting shares nothing between calls. In
`GameServer` two addresses let one fail and the next succeed, in each of three workers.

### Fairness

The thread is scheduled: weak fairness of its actions, which exclude each other. The kernel
attempts what it was given and completes what is ready: weak fairness of each kernel
step of `Worker`. `EventLoop` assumes nothing of the kernel. Clients, signals and
failures have no fairness. In `GameServer` every thread that can run, runs; main's poll
is a step that is enabled while the flag is set. In `PacketClient` both threads run when they
can; the user and the server owe nothing.

In `SessionRegistry` a thread that waits for the lock is given it if it becomes free again and again
(strong fairness of `LockShared` and `LockUnique`): glibc's rwlock prefers readers, so a writer may
wait while readers overlap (weak fairness would not do), but the last reader to leave hands the
lock to a waiting writer, and sections are short, so that it comes free again and again.
`DepartedForgotten` rests on it. What a thread does with the lock has weak fairness; clients, time and the
maintenance thread's calls have none. In `Logger` weak fairness of every thread's call is
enough, because the calls are bounded and the mutex is free once they have ended; the signal handler
returns.

`GameServer`, `PacketClient`, `Frames`, `BufferRing` and `Logger` run with deadlock checking off: a
process may exit or be killed, every spawn may have returned and ended, every buffer may
have been forgotten, every bounded call may have been made. The other specifications cannot
stop.

## What is proved

`EventLoopProofs`, for any set of sessions, any queue size, any bound and any contents of
the completions:

* `TypeCorrect`, `OneRequestAtATime`, `NoFreedFrameResumed`: `TypeOK`, `OneOutstanding`,
  `NoDanglingResume` are invariants. None of the last two is inductive alone: that a
  resumed coroutine may prepare its awaiter again needs that the awaiter is nowhere else in
  the ring (`OneOutstanding`), and that a new session's awaiter is nowhere in the ring
  needs that only suspended coroutines are (`NoDanglingResume`). The inductive invariant
  `IInv` is their conjunction with `TypeOK`. The proof has one lemma for each action
  (`SubmitInvariant`, `LoopInvariant`, `ResumeInvariant`, `CompleteInvariant`), resting on
  three about the queues (`SeeHeadEffect`, `PushEffect`, `CompleteEffect`).
* `WedgedForEver`: `WedgeIsPermanent`, from the same invariant.
* `WakeupsKept`: `NoLostWakeup`, if the sessions are finitely many and the queue has an
  entry for each. The argument is a pigeonhole: the queue holds each operation once
  (`OneOutstanding`), and never the accept request while a coroutine runs
  (`AcceptGoesFirst`), so that a session that is not in it finds room (`RoomForOneMore`).

`WorkerProofs`, for any finite set of clients and any sizes:

* `Refinement`: `Worker`'s `Spec` implies `Ring!Spec` (`ImplementsRing`), step by step
  (`StepImplementsRing`): kernel steps map to `Complete`, coroutines to `Resume`, clients
  and parking recvs to stuttering.
* `NoFreedSessionResumed`, `NoSessionForgotten`: through the refinement the theorems of
  `EventLoopProofs` hold of the worker's ring; the second needs an SQE per client.
* `WorkerTypeCorrect`: `TypeOK`, from the ring's types and `WorkerTypes`, which adds that
  a receive queue holds no more than was sent.
* `TableCorrect`: `TableMatchesCoroutines`, inductive as it stands.
* `AcceptedOnceCorrect`: `AcceptedOnce`. The inductive invariant `AcceptInv` adds that
  accept completions carry different clients (`AcceptsDistinct`), that a client is in the
  accept queue before its descriptor exists (`QueuedOrOpen`), and that a suspended session
  has a handler (`ServedByHandler`). That a session which ends leaves its descriptor open needs
  `NoFreedSessionResumed`: the completion it ends on must be that of a live session.
  `HandlerIsNew` shows that the condition in `Starts` never blocks the accept loop.
* `ReceiveBudgetKept`: `ReceiveBudget`, from `TypeOK` and two lemmas that count the data
  completions of a queue after `Append` and `Tail` (the second by a bijection).
* `NobodyAcceptedAgain`: `AcceptLostForGood`. The one accept request is in the submission
  queue when the loop begins, coroutines prepare requests of sessions only (`PushOfSession`), and
  without the request nothing completes for the listener and nobody leaves the accept queue
  (`NothingAsksAgain`).
* `NothingHandedOver`: what `WorkerEcho` finds on an instance, for all: `handed` stays 0, so that
  `received` is at most `NumBufs`.

`PacketClientProofs`, for any payload lengths and any width of the size field above the
header's own size:

* `QuitHangs`: `OnlyServerFrees`, action by action (`OnlyServerWakes`): the thread's actions need something to
  read or an end of the stream, main's join a thread that is over, and no choice of the menu
  provides either.
* `ClientTypeCorrect` (`TypeOK`) and `ReadCorrect`: `ReadAsSent`, with `TypeOK` and `BodyExpected` (the thread waits for a payload only
  if its header announced one, or the stream is over). `AnnouncedTells` is the
  arithmetic of the size field, `ShowsNext` the reading of one payload.

`SessionRegistryProofs`, for any finite set of clients and any set of workers:

* `RegistryTypeCorrect`, `ChangersAlone`, `ListingCorrect`. The inductive invariant `Inv` adds to
  `TypeOK` and `ListedExactly` what the lock records (`LockInv`: who holds it is who is in the
  table), what a worker's place says of its client's session (`SubjectInv`: two workers never
  deal with the same one) and what a cleanup has taken (`CleanInv`: only while it runs, and only
  sessions that were added). There is one lemma for each action.
* `RegistryRefinesTable`: `ImplementsTable`. `WorkerRefines` and `JanitorRefines` map each step inside
  the lock to one operation of `SessionTable`; `NotCleaning` shows that a worker in the table
  finds no cleanup half done, `Unseen` that everything outside the lock is a stutter.

`FramesProofs`, for any set of spawns:

* `FramesTypeCorrect`, `MisuseKnown`, `RingFramesLive`, `OwnersUnique`, `CallersForgotten`. The five
  follow from `Inv`, which says for each place of a spawn which of its frames live and which task
  object holds which (`Shape`), what holds of it everywhere (`Still`), and which
  misuses of its frames are recorded (`Known`). A step changes one spawn only
  (`OthersKeep`), so that `Together` reduces each action to that spawn.

`BufferRingProofs`, for any number of sessions, any ring size and any wrap it divides:

* `BufferRingTypeCorrect`, `BuffersAccounted` and `RingRefinesPool`. The arithmetic is in
  `OfferedSteps`: how `(tail - head) % Wrap` changes when either index advances, which needs that no more than
  `N < Wrap` are on offer, and so the count itself: `Inv` is `TypeOK` with `AllAccounted`, that
  nothing happens before the registration, and that only a session that holds a buffer returns one.
* `BuffersInOnePlace`: `ExactlyOnePlace`. It speaks of each id, `AllAccounted` only of numbers, and it is not
  inductive: an advance of the tail offers whatever its slot holds. The invariant `Places` takes
  the buffers on offer in the order of the ring (`At(i)` is the i-th behind the head, modulo `N`), says
  that they, those with a session and the forgotten ones are three disjoint sets that make up all ids,
  without repetition, and that while a session is between the two halves of a return the slot
  at the tail holds what it returns. `HeadShifts`, `TailBehindOffered`
  and `SlotsDistinct` are the facts about indices modulo `N` it needs; that `N` divides `Wrap` is what makes
  an index that wraps stay on its slot (`WrapKeepsSlot`).
* `OtherReturnsMisplace`: `OldIdPublished`. A return of any buffer but 0 leaves the slot it publishes as it
  was, and the condition of `ExactlyOnePlace` (`~misplaced`) ends there, whatever the sizes. The theorem before says what holds until then, this one that
  "until then" is short.

`LoggerProofs`, for any number of workers, calls and strays, any format and any arguments:

* `LoggerTypeCorrect`, which includes that exactly the thread inside a call holds the mutex, and
  `LinesNotTorn`: `LinesWhole`. It is not inductive: `OpenByHolder` adds that a text without its end
  belongs to the current call of the thread at `end`, which holds the mutex, so that no other text
  can begin and the end that comes is the right one.
* `FileAgreesWithConsole`: `FileFollowsConsole`. `FileInv` adds that the last text on the console is the
  current call's of the thread that has yet to write it to the file, and that nothing is logged
  before the file is set. `PutsTexts` says what one more piece does to the texts and to their ranks.
* `ShownOnceInOrder`: `EachShownOnce`. `ShownInv` adds that a thread inside a call has one to show, at the
  level or above, and that the level is main's before anybody logs.
* `ArgumentsByPlace`: `FormattedByPlace`. `Shows` says that a thread's text is `formatHelper` of what it was
  asked; the rest is about that function. It satisfies its own equation, because the closed form `Form`
  does (`FormatHelperStep`), and so it is `Form` for every message, by induction over the
  arguments (`FormatHelperIs`). `FormWithoutArgs`, `FormWithoutHoles` and `FormSplit` are the three ways a call can
  go; `HolesBehind` shows that the rest of a format has one hole less up to each place, and
  `ListedIs` what `FlattenSeq` makes of the arguments that are left. The library's induction
  theorems take a predicate as a parameter, which the provers cannot instantiate;
  `InductionOn` states the same of a set of numbers and is proved from the well-foundedness of `<`.

`GameServerProofs`, for any number of workers and addresses:

* `GameServerTypeCorrect`, `AcceptersAreComplete`, `SocketsNotLeaked`. `Inv` adds
  what a worker has made at each stage (`MadeSoFar`), that a socket is bound to an address still in the list
  (`HasAddress`), that the server runs whenever `stop` is reached (`RunsWhile`), that there is no
  thread before `start` (`NoneYet`) and that nobody is past the joins while one exists
  (`JoinedBeforeExit`). `MoveKeeps` is the one lemma all of a worker's moves use.
* `ServesForGood`: `NeverEnds`. A thread that was created is never over (`CreatedStays`), and all are created
  when `start` returns true (`ServingCreated`). It is what `GameServerStop` finds, for any number of
  workers and without any fairness.

Assumptions: `ListenerAssumption`, `SqSizeAssumption`, `MaxCqAssumption` of `EventLoop`,
`ConnsAssumption` and `SizesAssumption` of `Worker` (which imply the former for its
ring: `RingAssumptions`), `LengthsAssumption` and `SizesAssumption` of `PacketClient`,
`ConnsAssumption` and `ThreadsAssumption` of `SessionRegistry`, `NoneAssumption` of `Frames`,
`SizesAssumption` of `BufferRing`, `LoggerAssumption`, `GameServerAssumption`, and
for `WakeupsKept` and `NoSessionForgotten` the hypotheses they state.

Model-checked only: liveness (`ServedOrStuck`, `DepartureNoticed`, `RingSeen`, `WorkersSettle`,
`DepartedForgotten`, `CallsReturn`, `LossNoticed`, `QuitEndsOrBlocks`), which the prover does not handle. Every invariant and every
action property that a run checks is a theorem, and so is each refinement. The other way round,
the `TypeOK` of `Frames`, `PacketClient`, `SessionRegistry`, `BufferRing` and `Logger` is proved and not
listed in a run.

## Plan

Done, in this order: `EventLoop`, `Worker`, `GameServer`, `PacketClient` with their theorems;
then `SessionTable` and `SessionRegistry`, `Frames`, `BufferPool` and `BufferRing`, `Logger`, the
sockets of `GameServer`, and theorems about each.

What would come next, in this order:

1. The send path in `Worker`: `OnRecvData` called with what the right awaiter says, several
   sends of one session in the ring at once, partial sends. Today nothing reaches it.
2. `SimpleClient`'s own loop, which sends and waits for one `recv`, against a server that echoes in
   pieces. It would replace the free clients of `Worker`, which may do whatever it does.
3. Several workers composed with one `SessionRegistry`, in place of each worker's own table.

The project keeps to a dozen runs, one for each question; a new one takes the place of one that
another answers as well.

## What is not modelled

Wording and layout of log lines (time, thread id, place, colours), the order of addresses and
what `getaddrinfo` does, session ids (random, taken as distinct), player data (written by the
heartbeat, read by nothing), the client's texts, and the build files. Code that nothing runs:
`submitSpliceRequest`, `submitCancelRequest` (the accept guard's destructor would run only if a
worker thread ended), `handle_client`, `task<T>` for a `T` other than `void`, `task::done`,
`task::get`, `wait` and the move assignments, `decode` and `unwrap`, the destructors of
`BufferRing` and `IoUring` (a worker thread does not end), `setConsoleOutput` and the `SIMPLE_LOG`
macros. `borrowed_buf_set_` is written and never read. That `mt19937` behind the ids is used
under the table's lock only is part of `AddSession`. What `std::cout` does when a signal handler
re-enters it is the library's.
