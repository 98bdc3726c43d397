# Verification of unix-programming

TLA+ models of the programs of this repository, model-checked with TLC; all the
safety properties that hold are also proved with TLAPS. The repository is a
collection of small, independent Unix programs; what they share is that each of
them leans on concurrency, on the kernel or on a data structure with a subtle
invariant. Source paths are relative to `src/`.

## 1. Inventory

| Program | State | Operations | What is hard |
|---|---|---|---|
| `containers_allocators/allocator.cpp`, `SmallAllocator` | `buffer_`, the ordered set `occupied_blocks_`, the hint `first_free_index_` | `Alloc`, `ReAlloc`, `Free` | long sequences of calls; the hint; `lower_bound` under a reversed order; an exception in the middle of `ReAlloc` |
| `sockets_multiplexing/echo_server_{select,poll,epoll,kqueue,kqueue_single_socket}.cpp` | the listening socket, open sockets, the batch of ready ones, one static buffer, `errno` | start-up, wait, `echo`, `accept_new_connection`, close | clients act between any two system calls; descriptor numbers are reused; a batch goes stale; short and failing sends; resets; starvation |
| `posix_threads/pthread_mutex.cpp`, mutex threads | `counter`, a mutex | create, lock, increment, unlock, join | interleavings, failing calls, threads left over after an early return |
| the same file, producer and consumer | a vector, a rwlock | push under the write lock, pop under the read lock | the consumer modifies under a *read* lock; retries; a failing unlock |
| `posix_threads/wait_pthread.cpp` | `state`, a condition variable | sleep, signal, wait, two assertions | only a `sleep` orders the threads; a wait without a predicate; lost signal |
| `posix_threads/easy_pthreads.cpp` | an int handed to two threads | increment without a lock | data race |
| `posix_threads/pthread_canceled.cpp` | a cancellation request, four sleeps | create, sleep, cancel, join | only the sleeps order the threads; cancellation points; a join before the cancel |
| `sockets_multiplexing/chat.cpp` | `slave_sockets`, a static buffer, `errno` | accept, receive, leave, `SendToAll` | no result is checked; stale `errno`; reuse of numbers in a batch; buffer limits |
| `sockets_multiplexing/tcp_server/{server,client}.c` | child processes | accept, fork, SIGCHLD handler | signals coalesce, zombies, failing fork |
| `asynchronous_network/*` | sessions and callbacks of boost asio, libev, libevent, libuv | accept, read, write callbacks | callback order, object lifetime |
| `processes_channels_signals/bash_commands.cpp` | pipes and children | pipe, fork, exec, wait | waiting for a child before its reader exists |
| `processes_channels_signals/{fifo_channel,socketpair,simple_fork,unkillable_process}.cpp` | a channel, a child, signal dispositions | open, read, write, fork, signal | blocking order, missing signal |
| `unix_ipc/*` | System V and POSIX queues and semaphores | send, receive, wait, remove | open modes, exit status, removal while in use |
| `parallel_programming/{matrix_det,prefix_sum}.cpp` | a matrix, an array shared by OpenMP threads | sweeps | dependences between iterations |
| `containers_allocators/containers.cpp` | none (pure) | derivative of a polynomial | parsing and merging of terms |
| `sockets_multiplexing/{showip,sockaddr}.c` | none | print addresses | nothing to check |

The components do not call each other. The five synchronous echo servers contain
the same `echo()` and implement one service; the asynchronous ones implement it
again, on a library. `main()` of `pthread_mutex.cpp` runs its two parts one after
the other. Several programs have state that outlives them (fifos, queues) and so
meet an earlier run of themselves.

What makes each component correct:

* **SmallAllocator**: the set of blocks is exactly what the client holds, a
  pointer leads to its own block, nothing free is hidden by the hint,
  `bad_alloc` means "full", blocks do not overlap, contents survive.
* **Echo servers**: a client gets back only its own bytes, in order; the
  server's picture of its sockets agrees with the descriptor table; an event is
  served on the connection it was reported for; nobody is starved; a connection
  its client ended is closed; no client takes the server down; a server that gets
  to its loop listens on its own port.
* **Chat server**: it sends to exactly the open connections, and only what the
  author of the text wrote; clients that left are removed.
* **Thread programs**: their assertions hold, nothing is lost, `main` ends.
* **Forking programs**: what one process sends the other gets, nothing stays
  behind in the kernel or the file system, `main` ends although a child is killed
  or a call fails.
* **TCP server**: every connection is released by both processes that hold it,
  every child is reaped, and the handler of SIGCHLD does not falsify `errno`.
* **Algorithms**: the result is the prefix sums, the determinant, the derivative.

## 2. Modules

| Module | Models |
|---|---|
| `SmallAllocator` | the allocator and a client that fills, reallocates and frees what it holds |
| `SmallAllocatorProofs` | its theorems |
| `EchoService` | abstract: what an echo server promises, without descriptors and buffers |
| `EchoServiceProofs` | what follows from that promise alone |
| `EchoSockets` | shared by the echo servers and the chat: clients, TCP connections, system calls, `echo()` |
| `EchoSelect`, `EchoPoll`, `EchoEpoll`, `EchoKqueue`, `EchoKqueueSingle` | the event loop of each synchronous server |
| `EchoAsync` | the servers of `asynchronous_network/` with Boost.Asio, libev and libevent |
| `SocketSetup` | the start-up of the socket servers: `initialize_addr_info`, `get_socket_fd`, the queue, `listen` |
| `EchoServers` | the eight echo servers side by side, each behind its start-up; fairness, the common properties, the mapping to `EchoService` |
| `EchoSocketsProofs` | the invariant of sockets, connections and `echo()`, and how each kind of system call keeps it |
| `EchoServersProofs` | theorems about the eight echo servers, the refinement among them |
| `Chat` | the chat server, on `EchoSockets` |
| `ChatProofs` | its theorems, on `EchoSocketsProofs` |
| `MutexCounter` | `RunMutexThreads()` and `MutexThread` |
| `ProducerConsumer` | `ConsumerAndProducer()`, `Producer`, `Consumer` |
| `PthreadMutex` | `main()` of `pthread_mutex.cpp`: both of them composed |
| `WaitThreads`, `EasyThreads`, `PthreadCanceled` | `wait_pthread.cpp`, `easy_pthreads.cpp`, `pthread_canceled.cpp` |
| `PosixThreads` | `PthreadMutex`, `WaitThreads` and `PthreadCanceled` side by side |
| `PosixThreadsProofs` | theorems about these three programs |
| `UnixProcess` | a process and the child it forks: what ends them, `waitpid`, objects that outlive them, interruption and restart |
| `SocketPair`, `SysvQueue`, `PosixQueue`, `SimpleFork`, `FifoChannel`, `BashPipeline` | one program each, on `UnixProcess` |
| `TcpServer` | `tcp_server/server.c`, on `SocketSetup` |
| `UnixPrograms` | these seven programs side by side; fairness and the common properties |
| `UnixProgramsProofs` | theorems about them |
| `PrefixSum`, `MatrixDet`, `Derivative` | `prefix_sum.cpp`, `matrix_det.cpp`, `containers.cpp` |
| `Algorithms` | the three side by side, with the inputs they are run on |
| `MCAlgorithms` | the matrices that TLC runs `MatrixDet` on |
| `AlgorithmsProofs` | theorems about the three |

A module that puts programs side by side has a variable (`server`, `program`,
`algorithm`) that chooses one of them in the initial state and never changes; the
variables of the others are constant.

Definitions commented "Seeded fault" are not part of the models. Each is a
plausible mistake in one definition; put in its place it makes one property
fail, which shows that the property depends on that code.

### SmallAllocator

`buffer`, `first_free_index` and `occupied_blocks` are the members of the class.
The loop of `Alloc` is taken apart: `Alloc` and `ReAlloc` enter it, `AllocSkip`
is one iteration that jumps behind the block in the way, `AllocThrow`,
`AllocReturn` and `ReAllocReturn` leave it. `Free`, and what `ReAlloc` does after
its `Alloc` (copy, then free), are one step. `std::set` is a set of records;
`lower_bound` with the comparator of the code, which orders by the negated start,
is `IsLowerBound`: the block with the greatest start at or below the index.
`handles` is what the client knows: its pointers, the sizes it asked for and what
it has written; it passes only pointers it holds, as `main()` does. Blocks have a
positive size. `sizes` is the set of request sizes that this client uses, chosen in
the initial state among the subsets of `Sizes`, so that one run covers clients
with one size (`OneSize`) and with several.

### Echo servers

`EchoSockets` identifies a connection with the client that opened it. `owner` is
the descriptor table of the server process, from which `accept` takes the lowest
free number, so that numbers are reused. `link` is the state of the TCP
connection: open, ended by FIN, reset with the error pending, dead. The kernels
differ in what a reset leaves behind and in aborted connections in the backlog;
`BSD` selects the behaviour by the server that runs. A byte is `<<c, i>>`: its
author and its position.

`echo()` is two steps, `recv` and `send`, with clients in between.
`received_message_size` is a `size_t`: `-1` in the model stands for `SIZE_MAX`,
and as in the code the test `<= 0` does not see it. `send` takes what the send
buffer has room for, or less, and may refuse (`EAGAIN`) while the client has not
read everything; the rest of the message is lost, because the code does not
retry. `send` on a dead connection raises SIGPIPE (`SendKills`). `recv` returning
0 does not touch `errno`, so the value an earlier call left decides what `echo()`
returns (`EchoOfEof`). Only `EAGAIN` is told apart from the other values.

Each server module has the variables of its `main()`: what is watched, the batch
that the wait returned, what is to be erased or registered at the end of a round.
The batch is a snapshot: readiness is evaluated when the wait returns and the
events are served while connections change. `EchoEpoll` and `EchoKqueue` tag an
event with the client it was reported for, which the code does not see; that is
what `EventsAreCurrent` compares with the descriptor table.

Every server refines `EchoService` under the mapping in `EchoServers`
(`Service`): bytes in the receive queue, in `buffer` between `recv` and `send`,
and in the output of a library are pending; a queued and an accepted connection
are both open. The service of the synchronous servers may lose bytes, that of the
asynchronous ones is `reliable`: it loses none of a connection that its client
has not ended.

`SocketSetup` goes before the loop. Every call can fail. `getaddrinfo` reports
failure by codes of which the code tests only -1; after the others it uses an
uninitialised pointer (`crashed`, or the null pointer). When `bind` fails for an
address its socket is closed, but `socket_fd` keeps the number; if that was the
last address the number is returned although "Failed to find socket" is what the
code prints when there is none. The kernel gives the lowest free number to the
next descriptor, so in the epoll and kqueue servers the queue gets this very
number and is then added to itself and listened on. `ListensWhereBound` shows
that the calls that follow stop every such start-up.

The **asynchronous servers** are in `EchoAsync`. The libraries are external: they
report a ready descriptor and call the callback that the program has registered,
which runs to its end before the next one. An asio `Session` reads, writes all of
what it read, and only then reads again. libev's `read_cb` calls a blocking
`send`, during which no other client is served (`socket` is the descriptor it is
stuck on); at the end of a connection it stops the watcher and leaves the socket
open, which `SocketsTracked` states as the exception it is. libevent's callback
moves the input to an output buffer that grows without a limit, and frees the
bufferevent at the end of the connection together with what the output still
holds. libevent writes with `writev` and the program does not ignore SIGPIPE, so
output for a client whose connection is dead ends the process (`WriteKills`), as
`send` does in the synchronous servers. Their start-up is the single step `Start`, which succeeds or fails as the
program handles it. `accepting` is whether an accept is under way: asio does not start another
one after an accept that failed.

### Chat server

`Chat` uses the sockets and clients of `EchoSockets`. An iteration of its loop is
one step up to the call of `SendToAll` (`Accepts`, `Receives`, `ReceiveFails`,
`Leaves`), and `SendToAll` is another. Within it each send touches one connection
only, so a client's step between two sends has the same effect before or after
them. `getpeername` fails for the listening socket and for a connection that was
reset, and sets `errno`, which decides whether a client that left is closed. The
address in a message is left out (after a failing `getpeername` it is an
uninitialised value); a message is the text it carries. If `epoll_wait` fails,
`n = -1` is compared as an unsigned number and the loop runs off the stack: the
model goes to `killed` and does not describe what the stale events do before.

### pthread_mutex.cpp

`counter++` is a read and a write. Every call of the mutex and of the rwlock can
fail: the mutex calls at any time, the rwlock calls as often as
`MaxLockFailures` and `MaxUnlockFailures` allow. A lock whose unlock failed stays
held. When `pthread_create` fails, `RunMutexThreads()` returns and leaves the
threads created before running; their mutex is a local variable, so from then on
its contents are undefined and a thread may find it free at any time
(`MutexFree`). `PthreadMutex` lets them run beside the producer and the consumer
until `main` returns. `pthread_join` of a joinable thread does not fail.

### wait_pthread.cpp, easy_pthreads.cpp, pthread_canceled.cpp

`WaitThreads` has a clock. A thread that can run takes its next step within
`Latency` units; the sleeps are 10 and 2 units (5 and 1 seconds). Nobody locks
the mutex passed to `pthread_cond_wait`; the model takes the wait to block all the
same, which is what implementations of the default mutex do. `EasyThreads` splits
the unsynchronised increment into the read and the write it is compiled to.

`PthreadCanceled` has the same kind of clock, in seconds, and chooses the
`latency` in the initial state. Output and `sleep` are cancellation points; the
cancellation state is enabled from the beginning. `main` returning ends all
threads.

### Programs that fork

`UnixProcess` has one `parent` and one `child`, each with a label that names the
call it makes next, and `status`, what `waitpid` will report. The child may be
killed at any step; where objects outlive the program (`SysvQueue`,
`FifoChannel`) the user may interrupt it and start it again, up to `MaxRuns`
times. A call that can fail has a failing action of its own.

* `SocketPair`: `held` says which process has which end open. The parent keeps
  only its own end, hence sees the end of the stream when the child is killed.
* `SysvQueue`: the child ends itself with SIGTERM, which the program may have
  inherited as ignored. A queue left by an interrupted run is found by the next one
  with its message: the parent then receives that one, and the message of its own
  child is destroyed unread when it removes the queue. `found` is a history
  variable, the messages in the queue when the run began; `SentIsReceived` says
  that main receives the first of these and its child's message.
* `PosixQueue`: the queue is opened with `O_CREAT` alone, that is for reading,
  and `mq_send` fails always.
* `SimpleFork`: SIGTERM comes at any time, before or after the handler is
  installed. `sigtermInvoked` is not volatile. The build files ask for no
  optimisation, but a build that optimises may read the flag once and spin for
  ever: `ReadsOnce` leads to `SimpleStuck`, which `MainEnds` has as an exception.
* `FifoChannel`: the processes at the other ends are actors of their own; opening
  an end waits for the other, a full fifo blocks, a write without a reader kills.
  A run that is killed leaves its fifos, one whose second `mkfifo` fails leaves
  `in.fifo`. `leftover` is a history variable, the fifos that were there when the
  run began: `NothingLeftBehind` says what a run may leave of its own, and
  `LeftoverFifosStay` that with anything left over every later run fails at its
  first `mkfifo`, and removes nothing.
* `BashPipeline`: the line is a sequence of tokens, a word or a bar. `main` waits
  for a command before it starts the next one, so a command that fills its pipe
  blocks for ever (`PipelineStuck`). One descriptor per command stays open; when
  none is left `pipe` fails and the descriptors of the call before are used again,
  as in the code.
* `TcpServer`: a process per connection, named after its client. SIGCHLD is a
  flag, so signals merge; the handler is three steps (save `errno`, `waitpid` in a
  loop, restore) that interrupt any two steps of `main`. `errno` is the name of
  the call that has set it last.

### Algorithms

* `PrefixSum`: an iteration of the inner loop is a step. An element has `Width`
  bits and wraps around; the length and `1 << step` do not overflow, which limits
  arrays to 2^30 elements. `omp for` of the parallel version stands outside a
  parallel region, so its team has one thread; both versions are run and compared.
* `MatrixDet`: for every column a team searches the pivot, each thread in its
  static chunk of the rows, and enters the critical section in any order; further
  teams swap and eliminate, with a barrier at the end of each. Numbers are exact
  fractions in lowest terms: rounding is left out. The inputs (`Matrices`) are
  square matrices of integers. The reference is the Laplace expansion: `Minors`
  has the determinant of the last rows for every set of columns, expanded along the
  first of these rows.
* `Derivative`: a term is what one match of the regular expression yields (a
  sign, digits or none, an `x` or none, a power or none). The result is read back
  by the same rule and compared with the derivative of the argument.

## 3. Runs

| Run | Result | What it shows |
|---|---|---|
| `alloc` | pass | all orders of calls: `HintSound`, `HandlesAreBlocks`, `ThrowsOnlyWhenFull`, `SearchAdvances`; with one request size `NoOverlap` and `OneSizeDataIntact` |
| `alloc_overlap` | violation | `DataIntact` with two sizes: `Alloc` returns a block that reaches into its neighbour |
| `echo_safety` | pass | the eight servers from their start-up on: `ListensWhereBound`, `OwnBytesInOrder`, `SocketsTracked`, `EventsAreCurrent`, `ImplementsService` |
| `echo_liveness` | pass | the five synchronous servers and libevent's: `EndedIsClosed`, `BytesAreTaken` |
| `echo_errors` | violation | `SurvivesClients`: a reset connection ends the server |
| `threads` | pass | `pthread_mutex.cpp`: `CounterIsExact`, `MutualExclusion`, `NoRace`, `EachElementOnce`, `AllReadAtTheEnd`; `wait_pthread.cpp`: `FirstAssertionHolds`; `pthread_canceled.cpp`: how late threads may be scheduled, up to 4 seconds for `CancelsAnExistingThread`, up to 3 for `CancellationIsSeen`; `ThreadsAreJoined` |
| `wait_spurious` | violation | `AssertionsHold` fails after a spurious wake-up |
| `easy_race` | violation | `BothIncrementsCount`: an increment is lost |
| `chat` | pass | `MembersAreConnections`, `TextIsGenuine`, `LeaversAreClosed` |
| `processes` | pass | the seven programs that fork: `SentIsReceived`, `NothingLeftBehind`, `LeftoverFifosStay`, `MainEnds`; the TCP server: `ErrnoKept`, `ConnectionsAreReleased` |
| `mq_error` | violation | `ErrorInChildIsSeen`: the parent does not notice that its child failed |
| `algorithms` | pass | `PrefixSumsAreExact`, `DeterminantIsExact`, `DerivativeIsFormal`, after every iteration and at the end |

The violations are disagreements between the code and what it says itself:

* `alloc_overlap`: allocate 1 byte and then 1 byte, free the first, allocate 2:
  `can_be_occupied` looks only at the block at or below `current_index`
  (`allocator.cpp:34`), so the new block is put into a gap of 1 byte. `main()`
  checks that contents survive ("ERROR 2").
* `echo_errors`: the client resets, `recv` returns -1, the unsigned comparison
  passes, `send` raises SIGPIPE. The messages after `recv` and `send` say that
  both failures are reported and survived.
* `mq_error`: the child returns `EXIT_FAILURE`, which is 1; `waitpid` stores 256,
  and `posix_msg_queue.cpp` compares that with `EXIT_FAILURE` without
  `WEXITSTATUS`. The message "Parent: error in child" says what was meant.
* `wait_spurious`, `easy_race`: an `assert` of the program fails. The first
  assertion of `wait_pthread.cpp` fails as well if thread 2 may be kept waiting
  longer than the sleep (`Latency` of 6 or more and `AssertionsHold`).

**Bounds.** Two clients and two descriptors are enough for reuse of a number
while another connection is open and while a batch is being served; three
descriptors can then be ready (two and the listening socket) and one wait returns
two (`kEventsSize`), so batches do overflow. Two bytes with a `kBufferSize` of 2
and a send buffer of 2 give full, short and refused sends, and a buffer that
still holds bytes of another client behind the ones just received. Exhaustion of
descriptors is the failing `accept`, which is possible at any time. Two addresses
(`MaxAddrs`) give a failure before a success and a failure of all. `echo_liveness` has one byte per client: its properties need arrival
and readiness, not message boundaries. `chat` has a send buffer of one message, so
that sends to a client that does not read fail. The allocator's buffer of 7 holds
up to three blocks of the sizes 2 and 3, with every pattern of gaps between them:
too small for either, for one, or for both. Three threads
and four elements, with two failures of each kind, cover a failing call before,
between and after successful ones. The latencies 3, 4 and 5 of `pthread_canceled.cpp`
are the ones at which the two properties begin to fail: with 4 seconds `main` may
return before the detached thread has joined, with 5 the join thread may end and
be joined before it is cancelled.

In `processes` a program is started up to twice, which is what a leftover needs.
A fifo of 3, a buffer of 2 and 4 bytes give a full fifo and a short last read. Five
tokens give three commands; with 4 or 5 free descriptors the second or third
`pipe` fails; outputs of up to 3 units fill a pipe of 2. Two clients of the TCP
server give merged signals and a child that ends while another is being reaped. In
`algorithms`, ints of 2 bits overflow on the way to sums of up to 4 in absolute
value; arrays of up to 5 elements need three passes, the last of them partial. All
matrices up to 2x2 with entries up to 2 in absolute value, and the 3x3 ones made
from seven chosen rows, are taken apart by teams of 2 and 3 threads: ties for the
pivot, columns without one, empty chunks and exchanges all occur. Polynomials
have up to two terms with coefficients up to 2 and powers up to 3, so terms of
equal power merge, cancel and vanish.

**Deadlock** is not checked where the system may stop: a server blocks in its
wait once the clients have used up their bounded moves, and the other programs
end (a pipeline may also be stuck, which `MainEnds` admits only as
`PipelineStuck`). In the allocator's runs it is checked.

**Fairness.** A process that can run is scheduled: weak fairness of the server's
step, of every thread and of `main`. Clients owe nothing, and no failing call is
ever required to happen. epoll and kqueue keep a ready list and move a descriptor
they have reported to its end, hence strong fairness of being reported, per
descriptor (`Turn`, also in `Chat`); select and poll report all ready descriptors and need none.
libevent's server has the same fairness through its library. asio's and libev's
are not in `echo_liveness`: a client that does not read makes asio's session wait
in its write and libev's whole server wait in `send`, and clients owe nothing.
The producer gets the rwlock although the consumer keeps taking it (strong
fairness): glibc and BSD wake a waiting writer when the last reader leaves. The
clock of `WaitThreads` advances. In `processes` every process is scheduled, a
pending signal is handled at some time and its handler ends; the processes at the
other ends of the fifos are required to come, to take what is there and to close,
because the program cannot end without them.

## 4. Proofs

All theorems hold for every value of the constants that satisfies the named
assumptions of the component's module.

**SmallAllocator** (`SmallAllocatorProofs`). The inductive invariant `AllocInv`
adds to `TypeOK` and `HintSound` that the search of `Alloc` has passed over
nothing free (`SearchSound`), that the blocks are exactly the client's and no two
start at the same index (`Matching`), and the sizes of blocks and of the request
in progress (`Sizing`). Without `SearchSound` the steps that leave the loop could
not be shown to keep the hint sound, and without positive sizes an insertion into
the set could fail. From it follow `AllocTypeCorrect`, `AllocHintSound`,
`AllocHandlesAreBlocks` and the action property `AllocThrowsOnlyWhenFull`.
`AllocSearchAdvances` says that every turn of the loop of `Alloc` moves
`current_index` up, by `Sizing` and the choice of `lower_bound`; as the index is
bounded by the buffer, the loop ends.
For a client with a single request size `S` the starts of all blocks, the hint and
the search position are multiples of `S` (`Aligned`); two different multiples are
at least `S` apart, which gives `AllocNoOverlap`, and with it `AllocDataIntact`.
Both are stated of the whole specification, with the single size as a hypothesis
inside the property; the run `alloc_overlap` shows that it cannot be dropped.

**Echo servers** (`EchoServiceProofs`, `EchoSocketsProofs`, `EchoServersProofs`).
The invariant has three layers.

* `KernelInv` (`EchoSocketsProofs`) is about the descriptor table, the connections,
  the receive queues and the buffer of `echo()`: the table is an injection onto the
  accepted connections (`DescriptorsMatch`), the backlog holds the queued ones, each once, nothing is
  echoed before `accept`, and between `recv` and `send` the socket is open and what
  was received is in the buffer. There is one lemma per kind of change: a client's
  step, `accept`, `close`, `recv`, `send`.
* `SetupInv` is about the start-up: which of the descriptors 0 and 1 are open at
  each call, and as what. `ListensWhereBound` alone is not inductive: it says
  nothing before the loop, and what stops a start-up without a bound socket happens
  two calls earlier.
* `Loops` has for each server what its own variables mean at each label of its
  loop: what is watched is what is open, apart from what is still to be erased or
  registered; an event of a batch belongs to the connection that has its number
  now, and a batch has one event per number, so that closing the connection that is
  served leaves none behind.

A server's step is first shown to be one of the kinds of steps and to keep its own
part of `Loops`; the kinds then keep `KernelInv`, whichever server it was.
`ServersTypeCorrect`, `ServersListenWhereBound`, `ServersTrackSockets` and `ServersServeCurrentEvents` follow.
`ServersImplementService` is the refinement: `HeldInv` computes what the mapping
calls pending for every connection, and each kind of step is shown to be a step of
`EchoService` or to leave it alone. The order of bytes is then proved once, of the
abstract service (`ServiceKeepsOrder`; its invariant `OrderInv` says that what was
echoed, followed by what is pending, is increasing and the client's own), and
carried over to all eight servers by the refinement (`ServersKeepOrder`).

**Chat server** (`ChatProofs`). It reuses `KernelInv`. `LoopInv` relates
`slave_sockets`, the descriptors watched and the batch to the table. `QueueInv` and
`TextInv` say that the bytes queued for the server, and the text in `message`
before them, are consecutive bytes of one author; with that, `ChatTextIsGenuine`
does not depend on what the static buffer still holds.

**Thread programs** (`PosixThreadsProofs`). `CounterInv`: as long as the mutex
exists, a thread between lock and unlock is its holder, what it has read is still
the counter, and the counter is the number of threads that have incremented it; and
`main` knows the states of the threads it has created or joined. `RwInv`: a thread
at the vector holds its lock and the write lock excludes readers (`LockInv`), every
read lock is that of this turn or one whose unlock failed (`ReadersBounded`), and
an element is in exactly one of four places (`PlacesInv`), which needs that the
element in the consumer's hand is the last of the vector until it is popped
(`ReadInv`). Both are inductive for their part; `ThreadsParts` shows that a step of
the program is a step of each part or leaves it alone. The invariants of
`wait_pthread.cpp` and `pthread_canceled.cpp` are about time: how much of a sleep
and of the latency is used up bounds the time left to the other threads.
`WaitFirstAssertion` has the hypothesis `LongSleep > 2 * Latency`, which is what
keeps `state` at 0: `main` may be late with the second `pthread_create` and thread 2
with its assertion. With the sleep of 5 seconds of the code that is satisfied for
every latency below 2.5 seconds; nothing in the code guarantees more. `CancelsExisting` and
`CancelIsSeen` have their limits of 4 and 3 seconds in the property.

**Programs that fork** (`UnixProgramsProofs`). One invariant per program; a step
is a step of the program that was chosen (`ProgramSteps`). What the properties need
beyond the types:

* `SocketPair`, `SysvQueue`: at which labels of parent and child the message is
  unsent, in the channel, or received; with the queue also what an interrupted run
  may leave, at most one message per run; a run that ends by itself has removed the
  queue. `SysvMessages` adds that what main has taken, followed by what is in the
  queue, is `found` before the child sends and `found` with the child's message
  after; when main returns, what it has taken is hence the head of that.
* `FifoChannel`: the bytes are numbered, and those copied, in the buffer and in the
  fifo continue each other (`InOrder`); the buffer is empty outside of read-write.
  `FifoObjects` adds that `in.fifo` is there whenever a fifo is, because it is made
  first and both are removed in one step; without it a run that finds only
  `out.fifo` would get past its first `mkfifo`, and `LeftoverFifosStay` would not
  be inductive.
* `BashPipeline`: every command has cost one descriptor (`BashPipes`), so that two
  more than there are commands suffice for every pipe that is read from; while they
  do, the pipe holds what the command has written.
* `TcpServer`: the error to be reported is in `errno`, or in `saved_errno` while
  the handler runs (`TcpErrno`). `ErrnoKept` is silent while the handler runs and
  hence not inductive.

**Algorithms** (`AlgorithmsProofs`). *Prefix sums*: `PrefixInv` adds to `PassIsSound` what both
functions return. The arithmetic is that of congruence modulo `2 * Half`: wrapping
around commutes with addition (`WrapSum`), two windows next to each other make one
(`WindowsAdd`). That the power `2 ^ (Width - 1)` is a positive number is part of
`AlgorithmsAssumption`: the provers know nothing of powers.

The other two compare a loop with a sum of any length, so they need induction over
data. The library's induction theorems take an operator as a parameter, which the
provers cannot instantiate; the module has its own, which take a *set*. `Induction`
and `BoundedInduction` come from the least element of a set of natural numbers
(`LeastElement`, from the library's well-foundedness of `<`), and
`RecursionExists` says that a function on `0..N` is given by its first value and
its steps; with it the recursive functions of the models have the values that their
equations give.

*Derivative*: `PolyInv` says that `constant_by_pow` holds for every power the sum
of the constants of the terms matched so far (`CountInv`), and that the terms printed
so far have the derivatives of the powers taken from `it` (`PrintInv`), which are all
greater than the ones left (`OrderInv`). One step of the loop prints a term that reads back as
its power and constant: a constant of -1 without a number would lose its minus, but
a power above 1 times a constant is never -1.

*Determinant*: the argument has four parts.

* Fractions in lowest terms are a field. Two of them with the same value are equal,
  because each has the least denominator of that value (`LeastDenominator`,
  `EqualFractions`); all laws follow from those of the integers.
* The laws of minors: a minor depends on its rows and columns alone, it is linear in
  each row, two rows exchanged negate it, two equal rows or a column of zeros make
  it zero, and a multiple of one row added to others does not change it. Exchange is
  proved for neighbouring rows by expanding along both of them, and then for any.
* Hence what the loop body does to the determinant of the rows and columns that are
  left: `DetSwapped`, `DetEliminated`, `DetPivot`, `ZeroColumn`. `SequentialIs`
  shows from it that `detWithoutOmp` returns the determinant.
* The teams: the static chunks of a team partition the iterations (`PartsCover`),
  also if there are more threads than rows. `MatrixInv` says for each stage what the
  threads that are at the barrier have done: their local pivots are the greatest of
  their chunks (`Searching`), `maxValueIndex` is the greatest of those that were in
  the critical section (`Comparing`), the columns of their chunks are exchanged
  (`Swapping`), their rows are eliminated (`Eliminating`). `DeterminantIsExact` is
  silent while a team changes `a`, hence not inductive: in the middle of an exchange
  `Swapping` speaks of the matrix with the columns that are done exchanged back, and
  in the middle of an elimination each thread's step leaves the determinant alone.

`AlgorithmsDerivativeFormal` and `AlgorithmsDeterminantExact` hold for polynomials,
matrices and teams of every size.

**Assumptions.** The constants are natural numbers, positive where the code needs
it (`kBufferSize`, `kFifoBuffer`, `PipeSize`, the number of runs), a fifo holds at
least a buffer, and at least four descriptors are left for pipes. The matrices are
square and have integer entries, and an array has at most 2^30 elements. TLC evaluates each assumption in the run of its
module.

**Only model-checked**: the liveness properties (`EndedIsClosed`, `BytesAreTaken`,
`ThreadsAreJoined`, `LeaversAreClosed`, `MainEnds`, `ConnectionsAreReleased`),
because the prover does not reason about fairness and ENABLED. The violations are
counterexamples and need no proof.

## 5. Not modelled

* The printing of messages.
* A `recv` that fails with `EAGAIN`: the servers call it only for a socket that
  was reported readable and that nobody else reads. (Linux documents spurious
  readiness of select for discarded datagrams; these are stream sockets.)
* Overflow of `fd_set` and of the array of `pollfd` by too many descriptors:
  listed as hazards; what the write destroys is outside the model. The same holds
  for a text of 1024 bytes in the chat server.
* `memcpy` with overlapping blocks in `ReAlloc` after an overlap as in
  `alloc_overlap`: the model copies as if the source were read first.
* `Alloc(0)`.
* `tcp_server/client.c`: its hints put `AI_PASSIVE` into `ai_protocol`, so
  `getaddrinfo` refuses them and `main` exits. The clients in the models are
  external.
* The server with libuv: `read_cb` frees the buffer and the request that
  `uv_write` still uses, so all behaviour from the first echo on is undefined.
* `unkillable_process.cpp` (one state), `posix_semaphore.cpp` and
  `sysv_semaphore.cpp` (one call each on a semaphore that nobody else uses),
  `showip.c` and `sockaddr.c` (printing).
* libevent's server never removes its `/tmp/echo.sock`, so that a second start
  finds the name in use: the model starts it once, and a start that fails, for
  this or another reason, crashes on the listener that was not created.
* A connection or a chat client that ends while `errno` stays `EAGAIN` from an
  earlier call is kept by the code. The models do the same; `EndedIsClosed` and
  `LeaversAreClosed` exclude it by their hypothesis.
* What threads left over from `RunMutexThreads()` do to the stack frame of the
  function called next, whose rwlock may lie where their mutex was.
* A `pthread_cond_wait` that fails because its mutex is not locked.
* An array of more than 2^30 elements in `prefix_sum.cpp`, for which `1 << step`
  overflows.
* Rounding of `float` in `matrix_det.cpp`; coefficients that `stoi` rejects and
  overflow of `int` in `containers.cpp`; the time measurements of both parallel
  programs.

## 6. What is open

Every program with a behaviour of its own is modelled, and every safety property
that a passing run checks is proved. What could be added:

1. The counterpart of the violations: under which condition on the clients or the
   scheduler the violated property does hold, as with `OneSizeDataIntact` and
   `FirstAssertionHolds`.
2. A bound on the rounding error of `matrix_det.cpp`. The pivot search keeps it
   small; in exact fractions any pivot other than zero would do, so the models show
   which pivot is found but not what it is good for.
