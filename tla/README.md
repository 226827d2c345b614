# A TLA+ verification of tzzero-http

tzzero-http is a C++17 HTTP server in the reactor style: one `EventLoop` per
thread, a `TcpServer` that accepts on the main loop and spreads connections over
io loops, and an HTTP layer that parses requests out of each connection's input
buffer. This directory models it in TLA+, checks small instances with TLC and
proves the safety properties the runs check with TLAPS, for instances of any
size (section 5 says under which hypotheses). File and line numbers refer to the repository (`src/` below is its `src/` directory, `include/`
stands for `include/tzzero/`).

## 1. Inventory

### Components, state, operations

| component | state | operations | modelled in |
|---|---|---|---|
| EventLoop (`core/event_loop.cpp`) | `quit_`, `pending_functors_` under a mutex, the wake-up eventfd, the events of the last poll | `loop`, `quit`, `run_in_loop`, `queue_in_loop`, `wake_up`, `do_pending_functors` | EventLoop, FunctorQueue, EventLoopProofs |
| TimerQueue (`core/timer_queue.cpp`) | `timers_` ordered by expiration, `active_timers_` by id, owned `Timer` objects, a timerfd | `add_timer`, `cancel_timer`, `get_next_timeout`, `process_expired_timers`, destructor | TimerQueue, TimerQueueProofs |
| EpollPoller (`core/epoll_poller.cpp`) | registrations and their callbacks | `poll`, `add_fd`, `modify_fd`, `remove_fd` | `PollEvents` of EventLoop, `reg` and `Event` of TcpConnection |
| EventLoopThread (`net/event_loop_thread_pool.cpp`) | `loop_` under a mutex and a condition variable, the thread | `start_loop`, `thread_func`, destructor | EventLoopThread (extends EventLoop) |
| EventLoopThreadPool | threads, round-robin index | `start`, `get_next_loop`, destructor | TcpServer |
| TcpConnection (`net/tcp_connection.cpp`) | `state_`, output buffer, registration, callbacks, shared ownership | the read, write, close and error handlers; `send`, `shutdown`, `force_close`; `connection_established`, `connection_destroyed` | TcpConnection, TcpConnectionProofs |
| TcpServer (`net/tcp_server.cpp`) | `connections_`, acceptor, thread pool | `start`, `stop`, `new_connection`, `remove_connection`, destructor | TcpServer, TcpServerProofs; for one connection also TcpConnection |
| Acceptor (`net/acceptor.cpp`) | listening socket, reserved descriptor | `listen`, `disable_listening`, `handle_read` | TcpServer |
| HttpParser, HttpRequest (`http/`) | parse state, `has_error_`, `content_length_`, headers, body | `parse_request`, `reset`, `keep_alive`, `get_content_length` | HttpServer, HttpServerProofs |
| HttpServer (`http/http_server.cpp`) | a parser per connection | `on_connection`, `on_message`, `on_request` | HttpServer, HttpServerProofs |
| HttpResponse (`http/http_response.cpp`) | headers, body, connection flag | header and body setters, `redirect`, `reset`, `append_to_buffer` | HttpResponse, used by HttpServer; HttpServerProofs |
| Buffer (`utils/buffer.cpp`) | a vector, `read_index_`, `write_index_` | append, retrieve, prepend, `read_fd`, `write_fd`, growth, copy, move, swap | Buffer, MemoryProofs |
| ThreadPool (`utils/thread_pool.*`) | task queue under a mutex and a condition variable, `stop_` | `submit`, `stop`, workers | ThreadPool, FunctorQueue, ThreadPoolProofs |
| MemoryPool (`include/utils/memory_pool.h`) | blocks of slots, used flags, counters under a mutex | `allocate`, `deallocate`, `add_block` | MemoryPool, MemoryProofs |
| Logger (`utils/logger.cpp`) | the open stream, the current size, two limits; the files on disk | `log`, `set_output_file`, `rotate_log_file`, setters | Logger, LoggerProofs |
| main program (`main.cpp`) | the loop and the server, a signal handler | start, run, shut down | TcpServer (options and pages are not modelled) |
| examples, tools | | | not modelled (section 7) |

### How they interact

The io loop of a connection calls its handlers from `poll()`'s events; user code
runs inside those handlers and calls back into the connection. Every other
thread reaches a loop only through `queue_in_loop()`: the main loop hands
`connection_established` and `connection_destroyed` to the io loop, the io loop
hands `remove_connection_in_loop` to the main loop, and other threads' `send()`
and `shutdown()` become functors. `TcpConnection` lives by shared pointers held
in `connections_`, in some of those functors and by user code, while the
poller's callback and other functors hold a bare `this`. The HTTP layer sees a
connection only as a buffer that grows in segments. A signal runs `stop()` and
`quit()` on the main thread between any two of its steps; the destructors that
follow hand work to io loops that are about to be joined.

### What is hard, and the properties that make each part correct

- *Hand-over to a sleeping loop* (EventLoop, EventLoopThread, ThreadPool): the
  push, the wake-up and the sleep are separate steps of different threads. No
  hand-over may be left behind by a sleeper, none may run twice or out of order,
  and a stop must end every thread.
- *Object life across two loops* (TcpConnection, TcpServer): closing runs over
  three functors on two loops; the object must outlive the poller's entry and
  every functor that captured it, be closed once and be destroyed
  `DISCONNECTED`.
- *Partial writes* (TcpConnection): bytes go directly, into the output buffer or
  out of it; their order and the interest in `EVENT_WRITE` must stay right.
- *Segmentation and keep-alive* (HttpServer): a request may come in any pieces,
  and nothing of one request may leak into the next.
- *Callbacks that change what is being iterated* (TimerQueue): timers added and
  cancelled inside the batch; two sets that must agree; a clock that moves.
- *Index arithmetic* (Buffer): growth, moving down and the overflow buffer of
  `readv()` shift bytes and unsigned indices.
- *Shutdown and shortage* (TcpServer): a signal at any step, loops that destroy
  each other's connections through queues, descriptors that run out.
- *Framing* (HttpResponse): length and connection lines are written in several
  places and must agree with the message and with what the server does next.
- *Half-done rotations* (Logger): a crash or a failed rename between two file
  operations.
- *Redundant bookkeeping* (MemoryPool): flags and counters that must stay in
  step, double frees included.

`PROJECT.json` lists the hazards one by one with the properties that cover them.

## 2. Modules and their relation to the code

Names follow the source where TLA+ allows it; `PROJECT.json` maps every
definition to its lines. Definitions whose name starts with `BAD_` are mutated
forms of the definition that follows: each stands for a plausible bug and is
used only to show that a property would notice it.

**FunctorQueue** is the abstract specification of a hand-over queue: a sequence
of submitted functors and the sequence of those that ran; `Submit` appends,
`RunOldest` takes the oldest, `RunNow` is `run_in_loop()` on the loop's own
thread. A functor stands for one call.

**EventLoop** has one loop thread with a program counter over `loop()` (check,
poll, timers, events, swap, run) and a set of other threads. `queue_in_loop` is
the push under the mutex; the `wake_up` that follows outside it is an action of
its own, because the loop may run in between. The eventfd is a saturating
counter whose write may fail when it is full. Callbacks (I/O, timers, functors)
may queue functors, run them, or quit. `FQ` maps the batch being run followed by
`pending_functors_` to the abstract queue.

**EventLoopThread** extends EventLoop: an owner that constructs the object,
calls `start_loop()` and destroys it, and a worker that constructs the loop,
publishes it, runs it and leaves. The condition variable may wake spuriously.
The owner may destroy the object before the worker has entered `loop()`.

**TcpConnection** follows one connection from `new_connection()` to its
destructor. A message is a run of numbered units, so order and loss are visible;
`wire` is what the kernel took. `dispatch` holds the handlers the current event
still has to call, `queue` and `main_queue` are the functors about this
connection in the io loop and in the main loop, `in_map` its entry in
`connections_`. `same_loop` covers a server without io threads, where
`run_in_loop()` runs in place. The peer sends, closes or resets; user callbacks
send, shut down or force a close from inside a handler; `Callers` are other
threads that hold a `TcpConnectionPtr`, and their read of `state_`, their store
and their queueing are separate steps (`state_` is a plain member: a data race).
`Held` says that some shared pointer exists. `fault` records a failed assertion,
an exception or a use after destruction; nothing happens after one.
`server` is the server's part in the object's life: `stop` hands `shutdown()` to
the connection at any step, `DestroyServer` is `~TcpServer()`, which hands it
`connection_destroyed()` whatever its state and lets go of the map, and `Exit`
is the end of the loops with whatever they have not run. `EventDangling` is an
event of a descriptor that outlived its object; `Abandoned` names the
connections for which the destruction of the server leads there (section 6).

**TcpServer** composes the server's threads. Loop 0 is the main thread's, the
others are the io threads'; each goes through wait, events, functors. A
connection is its `state_`, its loop, its entry in `connections_` and whether its
peer has closed. `new_connection`, `remove_connection_in_loop`, `connection_*`
and `shutdown` act on the queues as the code's `run_in_loop()` and
`queue_in_loop()` do, in place when loop and caller are the same. `BeginAccept`
to `EndAccept` are the accept loop with its limit; `FdsFree` counts the sockets
that nothing closes, and `AcceptFails` is the way over `idle_fd_`.
`signal_handler` comes between any two steps of the main thread; a signal that
interrupts `epoll_wait()` ends the loop, one just before it does not.
`StartThrows` is a `listen()` that fails. `DestroyServer`, `DestroyThread` and
`Exit` are the destructors in order. `fault` is how the process died: an
assertion, an erasure during iteration, or a connection closed twice (the
hang-up of section 6).

**HttpResponse** is a set of operators on a response: the header and body calls
and what `append_to_buffer()` writes. `Calls` are the calls a handler may make;
HttpServer's `Reply` makes those of the handler, one after the other, on the
response that `on_request()` prepares.

**MemoryPool** has threads that allocate, give back what they have and give back
again what is free; a pointer is a pair of block and index.

**Logger** numbers the bytes that are logged, so a file is a sequence of numbers
and a gap or a swap is visible. Each file operation of `rotate_log_file()` is a
step; `Crash` may come between any two, `FilesystemError` is a `remove()` or
`rename()` that throws. The setters take no lock, so they may come at any step,
in the middle of a rotation too; `limits` remembers the extremes, and whether
the number of files was changed within a rotation.

**HttpServer** parses token streams: a text that the parser only looks at as a
whole line is one token, `cr` and `lf` are tokens of their own so that segments
may cut a CRLF in two. `Texts` are the texts a client may send, and `LengthOf`
gives the value of those that are Content-Length headers. `get_header()` returns
the places of a field's values among the headers, since the code joins them:
`stoull()` reads the first of several lengths, and several Connection values are
compared as one string that is neither `close` nor `keep-alive`. A parser that has
lost its place may meet a line with stray CRs and LFs in it: `RequestLineAt` skips
them as the `istringstream` does, and `HeaderAt` finds a colon anywhere in the
line. `Usages` are the clients and the ways
`parse_request()` is called: with a request object that is kept between calls
(as the parser's own tests do) or with the local one of `on_message()`.
**MCHttpServer** supplies the scripts: GET, POST and HEAD, with and without bodies, HTTP/1.0, 1.1
and 2.0, `close` and `keep-alive`, a body that is itself the text of a request,
a length of zero, and malformed requests: a bad request line, a bad header, and
a bad header that would be a good request line.

**TimerQueue** models the queue with the loop pass that drives it. Time is in
ticks, `TicksPerMs` of them to the millisecond that `get_next_timeout()` rounds
to. User code runs between passes and inside timer callbacks. `heap` is the set
of `Timer` objects that exist, which the code owns through raw pointers.

**ThreadPool** has workers that lock, wait, take, run and return; clients, and
tasks themselves, that submit; the notification after the unlock as a step of
its own; spurious wake-ups; and the owner's `stop()` and join.

**Buffer** is the vector with its two indices, as pure operators on a record
(`append`, `make_space`, `read_fd`, ...) and actions on several buffers; the
history variable `content` is what the caller put in and has not taken out.

## 3. Runs

| run | what it checks | what it shows |
|---|---|---|
| `event_loop` | `NoLostWakeup`, `ImplementsFunctorQueue`, `QueuedFunctorRuns`, `QuitStopsLoop` | push, wake, poll, drain, swap in every order: no functor and no quit is left behind a sleeping loop, functors run once and in order, and both take effect |
| `event_loop_thread` | `StartLoopReturns`, `DestructorReturns` | an io thread starts, and stops once it has entered its loop |
| `tcp_connection` | `StreamInOrder`, `WriteInterest`, `ClosedOnce`, `PollerNeverDangles`, `FunctorsNeverDangle`, `DestroyedDisconnected`, `OutputDrains`, `ClosedIsReleased` | the life of a connection, with one other thread that uses it, and a server that is stopped and destroyed at any point |
| `tcp_connection_hangup` (violation) | `NoAssertionFails` | `EVENT_READ` and `EVENT_ERROR` in one event close twice |
| `tcp_server` | `MapExact`, `IterationSafe`, `ShutdownCompletes`, `BacklogDrains` | the map holds exactly the open connections though two loops close them; a signal or a failed start ends the process; a server out of descriptors still empties its backlog |
| `http_server` | `RequestsServed`, `KeepAliveHonoured`, `MalformedRefused`, `ResponsesFramed` | what is served is what was sent, in order, whatever the segments; the connection ends when it should; malformed requests are refused, by the server's own `HttpRequest` unless they hold another request line; responses are framed |
| `http_server_segments` (violation) | `EveryRequestServed` | `on_message()` loses the first part of a request that comes in two segments |
| `timer_queue` | `SetsAgree`, `HeapExact`, `NeverEarlyNorTwice`, `NoOversleep`, `DroppedNeverFires`, `DueTimerLeaves` | timers added and cancelled from callbacks of the same batch |
| `thread_pool` | `NoTaskIsStranded`, `StopDrains`, `ImplementsFunctorQueue`, `StopReturns`, `AcceptedTaskRuns` | no lost notification, and a stop at any point drains the queue |
| `buffer` | `ContentKept`, `RoomIsMade` | bytes survive growth, moving down, the overflow buffer, prepend, copy, move and swap |
| `memory_pool` | `NeverSharedOut`, `Accounting`, `GrowsOnlyWhenFull` | no slot in two hands, exact counters, no needless block |
| `logger` | `LogContiguous`, `DiskBounded` | a rotation that is cut short, or whose limits change on the way, loses and reorders nothing but the oldest bytes |

Deadlock checking is off where the system may really stop: a loop that has quit,
a destroyed object, a process that has ended, a client that has sent everything,
a pool or a log at its bound, time that has reached `MaxTime`. It is on for
Buffer.

### Bounds, and why they are enough

- `event_loop`: three functors and two threads give a batch in progress, a
  pending functor behind it and a third handed over meanwhile; `WakeMax = 2`
  makes the eventfd full. The theorems remove the bounds.
- `event_loop_thread`: one owner and one functor; the object has one owner.
- `tcp_connection`: one unit of the connection's own output plus two of the
  other thread's, messages of up to two units, a high-water mark of two: partial
  direct writes, partial buffered writes, a send behind buffered output and the
  crossing of the mark all happen. Two peer segments give input before and after
  a callback has acted. At most one `shutdown()` of a `stop()` waits at a time.
  204 776 states. The violation run needs no other thread.
- `http_server`: up to three requests out of eight kinds; three are needed for a
  request between two others on one connection. Eight handlers: one body, a
  redirect, and six that change the body, the length or the connection lines
  afterwards. Malformed requests come alone and behind a good one, in every way
  of cutting and parsing. 249 171 states; the theorems remove the bounds.
- `timer_queue`: two timers are the smallest batch in which a callback can
  cancel or outlive another; `MaxTime = 3` with two ticks to the millisecond
  reaches rounding and a repetition.
- `thread_pool`: two workers, two clients, three tasks, one of them submitted
  by a running task.
- `tcp_server`: up to two io threads, and none; three clients and descriptors
  for two, so that one is turned away; two accepts per turn, so that the limit of
  the accept loop is reached with a client left. 150 880 states.
- `memory_pool`: three blocks of two slots and two threads; the theorems remove
  the bounds.
- `logger`: limits of one (where the loop of the rotation does not run), two and
  four files, sizes of two and three bytes, lines of one and two, ten bytes in
  all to fill four files, two interruptions. 222 249 states.
- `buffer`: sizes of 2 to 4 cells with a reserve of 1 reach growth, moving down
  (only beyond the reserve), overflow with both, and an exactly full vector;
  `Base = 2` tells bytes apart; two buffers for copy, move and swap. 100 489
  states.

## 4. Fairness

- EventLoop: weak fairness of the loop thread's steps (a runnable thread runs,
  callbacks return), strong fairness of `poll()` returning the wake-up
  descriptor while it stays ready (epoll is level-triggered and reports every
  ready descriptor within a few calls; in the model another descriptor may be
  reported first), and weak fairness of a thread that has pushed and is about
  to wake. No I/O and no timeout is assumed: the wake-up alone must do.
- EventLoopThread: the same, and the owner and the worker keep running once
  started. Spurious wake-ups are not assumed.
- TcpConnection: handlers and the main loop keep running (weak); functors and
  ready events are served though others compete for the loop (strong), which
  the loop's pass over all events and all functors gives. The peer reads what
  is on its way for `OutputDrains`; nothing is assumed about what it sends. Once
  the server is destroyed the loops end (strong fairness of `Exit`: a loop that
  was told to quit looks at `quit_` after every pass). That somebody stops or
  destroys the server is not assumed.
- TcpServer: every thread keeps running. Clients and the signal come or do not.
  The status timer of `main.cpp` (constant `StatusTimer`) is what ends an
  `epoll_wait()` entered just after the signal; without it `ShutdownCompletes`
  fails, since `quit()` does not wake its own thread's loop.
- TimerQueue: time passes and the loop goes round. No descriptor need become
  ready, so only the poll timeout makes a timer run.
- ThreadPool: workers, notifying threads and the owner keep running; tasks
  return.

## 5. Theorems

All for every value of the constants, under the named assumptions of the
modules. Those say what the code's own constants satisfy:

- `WakeMaxAssumption`: the eventfd counter can hold at least one.
- `WorkersAssumption`: the pool has at least one worker, and no client is one.
- `PoolAssumption`: a block has at least one slot.
- `TimeAssumption`: delays and intervals are natural numbers of ticks, and a
  millisecond has at least one.
- `BoundsAssumption`: the bounds of TcpConnection are positive, and finitely many
  threads use the connection.
- `SizeAssumption`: a byte has at least two values, an integer at least one byte,
  and a new vector is within the bound on its size.
- `ServerAssumption`: the accept loop takes at least one connection.
- `UsagesAssumption`: a text holds no line break, a request's body is as long as
  its Content-Length says, and a handler makes calls HttpResponse has.
- `LoggerAssumption`: the limits are positive, and finitely many numbers of files
  are possible (`max_files_` is a machine integer).

Every inductive invariant below was first checked by TLC on the bounds of
section 3. In each proof module the first part defines the invariant, then come
the lemmas about the model's operators, one lemma per action (or per kind of
step), the lemma that every step keeps the invariant, and the theorems.

**EventLoopProofs.** `TypeCorrect`. `NoWakeupIsLost` proves `NoLostWakeup`, which
is not inductive: it speaks of the loop inside `poll()` and says nothing of how
it got there. The invariant `IInv` follows the announcement round the pass:
wherever the loop still has to poll before it looks, a pending functor or a
stored quit is *announced* by a positive counter or a thread about to write it
(`PendingAnnounced`, `QuitAnnounced`); between `handle_wake_up()` and the swap
the loop itself is the one that will look. `BatchOnlyWhileRunning` says that the
local batch is empty outside `do_pending_functors()`; it makes the swap a
stuttering step of the abstract queue. `LoopImplementsFunctorQueue` is the
refinement: the initial state maps to the initial state, each push to `Submit`,
each call to `RunOldest` or `RunNow`, every other step to a stutter.

**ThreadPoolProofs.** `TypeCorrect`; `NoWakeupIsLost` proves `NoTaskIsStranded`
with `ReturnedDrained` (a worker returns only when `stop_` is set and the queue
is empty, and nothing is accepted after that except by a task whose worker will
look again). `StopRunsEverything` proves `StopDrains` with `TakenAccounted` (a
started task is finished or is held by exactly the worker that runs it) and
`StoppedJoined` (when `stop()` has returned every worker has).
`PoolImplementsFunctorQueue` is the refinement to the same abstract queue, with
the start of a task as its run.

**TimerQueueProofs.** `TypeCorrect`; `SetsAlwaysAgree` (`SetsAgree`),
`NoTimerLeaksOrDangles` (`HeapExact`), `RunsInTime` (`NeverEarlyNorTwice`),
`PollIsShortEnough` (`NoOversleep`) and `CancelledStaysCancelled` (the action
property `DroppedNeverFires`). The invariant `QueueInv` needs the batch as the
third place a timer can be: `OnePlace` says that a timer is in the queue or in
the batch and never in both, that there is no batch outside
`process_expired_timers()`, and that an entry carries its timer's expiration, so
that `(when, id)` and `id` name the same thing. `OneShot` (a timer that does not
repeat has not run while it still waits) and `DueInBatch` make
`NeverEarlyNorTwice` inductive, `DroppedGone` (what `cancel_timer()` took out is
nowhere) makes the action property follow. `NoOversleep` needs that a nonempty
set of naturals has a least element, for the front of `timers_`.

**TcpConnectionProofs.** `StreamKept`, `WritesAreWatched`, `ClosesOnce`,
`PollerSafe`, `FunctorsSafe` and `DestructorAsserts` prove the six invariants of
the run `tcp_connection`, from the invariant `ConnInv`. `StreamInOrder` is
inductive with the types alone. `LifeInv` adds where a connection can be in its
life: a `CONNECTING` one has exactly `connection_established()` queued and
nothing else has happened to it (`Fresh`); a `CONNECTED` one is in the poller; one
that was not closed is in the map and its removal is not on its way. `AloneInv`
is about a connection no other thread holds: no functor of another thread is
queued, a closed connection stays `DISCONNECTED`, and once the map and the main
loop have let go of it every queued functor with a bare `this` stands before a
`connection_destroyed()` that owns it (`Guarded`), which is why functors run in
queue order never find the object gone. `ServerInv` follows the destruction of
the server: a connection leaves the map only through its removal or with the
server (`Leaving`); while one is still `CONNECTING` or `CONNECTED` after
`~TcpServer()`, its `connection_destroyed()` is queued and will take it out of the
poller (`LastCall`); and nothing is left of the loops once they have ended
(`Ended`). The three properties about the end of the object's life
except the `Abandoned` connections by name, and no others; that the exception is
needed is told in section 6.

**MemoryProofs, Buffer.** `BytesAreKept` proves `ContentKept` and `RoomIsAlwaysMade`
`RoomIsMade`. `BufferInv` says of every buffer that it `Owes` its history
`content`: the indices are in order and within the vector, the unread cells are
the bytes of `content`, and a vector that is not moved-from has room for the
prepend area, which `retrieve_all()` relies on when it sets both indices there.
There is a lemma for every operation (`append`, `make_space`, `read_fd`,
`prepend`, ...) that says what it owes afterwards. That
`append_int64()`, which converts two halves, writes the bytes of the whole number
in network order rests on `PowSum` (`Pow[m + n] = Pow[m] * Pow[n]`); as the
library's induction theorems cannot be used, that the recursion of `Pow` defines
a function, and `PowSum`, are shown by a least counterexample.

**MemoryProofs, MemoryPool.** `PoolTypeCorrect`; `NeverShared` proves `NeverSharedOut`, `CountsRight`
`Accounting` and `GrowthIsNeeded` the action property `GrowsOnlyWhenFull`.
`PoolInv` is the inductive invariant: the types, `OwnedExactly` (a used slot is in
exactly one thread's hands or is the one the holder of the mutex is about to
return; nothing else is) and `CountsExact` (each block's `free_count` is what is
left of it, and `allocated_count_` lags by the slot on its way). `Accounting`
alone is not inductive, as it says nothing while the mutex is held; the counting
steps rest on the cardinality theorems of FiniteSetTheorems. `GrowthIsNeeded`
follows because a block that counts no free slot has none.

**TcpServerProofs.** `TypeCorrect`; `MapIsExact` proves `MapExact` and
`DestructorIterates` proves `IterationSafe`. Neither is inductive: whether a
removal finds its connection depends on what may be queued. `TcpServerInv` has

- `PassInv`: no loop runs before `start()`, a batch exists only while functors are
  run, and events only while they are served;
- `FunctorInv`: a functor waits on its connection's loop,
  `connection_established()` only for a `CONNECTING` connection, a removal only on
  the base loop for a closed connection that is still in the map, and neither of
  the two waits twice (`OnceOnly`);
- `ActiveInv`: the events still to be served are of open connections, so no
  connection is closed twice by a pass;
- `MapInv`: the map is the accepted connections that are not closed and those
  whose removal waits;
- `SignalInv`: who can have stored the base loop's `quit_`, and that after a signal
  that interrupted `epoll_wait()`, or a `start()` that threw, no connection of
  the base loop is `CONNECTED` when `~TcpServer()` runs over the map, so that
  nothing is erased under its iterator.

The middle three hold while the server is there (`ServerUp`): afterwards the io
loops finish their queues without a map.

**LoggerProofs.** `TypeCorrect`; `NothingIsLost` proves `LogContiguous` and
`DiskIsBounded` proves `DiskBounded`. `LogContiguous` speaks of the concatenation
of the files; the invariant `PiecesInv` says instead that there are *cuts*, one
between every two files, with the bytes after `cut[k + 1]` up to `cut[k]` in file
`k`. Each file operation moves cuts: `log()` the newest, a `rename()` two of them
(`MovePieces`), the removal of the oldest file the last (`DropPieces`). What makes a
`rename()` safe is in `RotationInv`: during the rotation the name that is written
next has been freed by the turn before, or is the last of those kept or one
beyond, whatever limit was in force at each turn. It also says
that the current file exists until it is moved, so that the truncating reopen
truncates nothing. `SizeInv` bounds the current file between rotations, which
`DiskBounded` does not: each interruption leaves room for one more line.
`PiecesAreContiguous` derives the property, with the concatenation of the files
computed from the oldest to the newest and compared by a least counterexample.

**HttpServerProofs.** `TypeCorrect`; `RequestsAreServed` proves `RequestsServed`.
`KeepAliveIsHonoured`, `MalformedIsRefused` and `ResponsesAreFramed` prove
`KeepAliveHonoured`, `MalformedRefused` and `ResponsesFramed` each under a
hypothesis:

- `OneConnectionHeader` for the first: a request that sends the Connection field
  twice is taken by `keep_alive()` for neither value (section 6).
- `KeepsPlace` for the other two: the caller keeps its HttpRequest, or segments
  are whole requests. Otherwise the second finding of section 6 applies, and a
  parser that has lost its place can answer what was never a request, or fail on
  a good one and end a connection it had promised to keep. `MalformedRefused`
  claims more than the theorem: that without its place the parser still refuses a
  request in which no header or body is itself a request line (`Unmistakable`).
  That part is only model-checked.

`MalformedRefused` itself speaks of clients that do not pipeline: `on_message()`
parses one request per call, so a malformed request behind another one may lie in
the buffer unread.

The invariant `HttpInv` says where the parser is. `PlaceInv` has a number `p` of
tokens of the stream that lie behind it: the buffer is the rest of what has
arrived (`Unread`), and `p` is at the end of a request (`AtLine`), after some
header of the next one (`AtHeaders`), before its body (`AtBody`) or behind it
(`AtEnd`), with the request object holding exactly what lies between. A step of
the parser moves from one of these places to the next. `ServedInv` says that what
was served is the beginning of the script and that a parser fails only on a
malformed request; `ArrivedInv` how far the client can be ahead; `AnsweredInv`,
`KeepAliveInv` and `FramedInv` relate what was served, what was answered and what
the answers said to the state of the connection. What is said of the place holds
while the parser has it (`InPlace`), that is until a malformed request has ended
the connection: `on_message()` goes on to parse after that, from anywhere.

What makes this hard is that the stream is a concatenation. `Glued`, `Lines` and
`Layout` say token by token what `FlattenSeq` and `Encode` give (`FlattenLayout`,
`HeadersLayout`, `EncodeLayout`), and `StreamLayout` where the requests of a
script lie in the stream, so that `FirstCrlf` can be computed at every place: the
texts hold no CR, hence the first CRLF of the buffer is the one that ends the
line. That the recursion of `Reply` and of `FlattenSeq` defines functions is shown
by a least counterexample.

**Only model-checked:** the part of `MalformedRefused` just named, and the
liveness properties, those of EventLoopThread included, which are all liveness. Fairness and ENABLED are beyond the prover.

## 6. Findings

Two runs end in a violation of what the repository says of itself; the findings
in `PROJECT.json` quote the lines.

1. A hang-up after our shutdown closes the connection twice
   (`tcp_connection.cpp:235`); the assertion of `handle_close()` or an exception
   of `remove_fd()` ends the process.
2. A request in two segments is lost (`http_server.cpp:72`).

The models also reach the following, and the properties are stated so as to
leave it out:

- `~EventLoopThread()` right after `start_loop()` hangs, because `loop()` resets
  `quit_` (`event_loop.cpp:49`). A `listen()` that throws out of `start()` leads
  there (`DestructorReturns`, `ShutdownCompletes` speak of threads that have
  entered `loop()`).
- Output buffered at `shutdown()` is never sent and the loop spins, because
  `handle_write()` does nothing when `DISCONNECTING` (`tcp_connection.cpp:177`);
  `OutputDrains` speaks of `CONNECTED` connections.
- After a signal with a client connected, `stop()` leaves the connection
  `DISCONNECTING`, and `connection_destroyed()`, which `~TcpServer()` calls, does
  nothing with it (`tcp_connection.cpp:134`). The last pointer goes, the assertion
  of `~TcpConnection()` (`tcp_connection.cpp:46`) fails, and without assertions the
  poller keeps the descriptor with a bare `this` of a freed object, which the next
  event follows (`EventDangling`); queued functors with a bare `this` do the same.
  No thread of the user's is needed. A loop that ends with `connection_destroyed()`
  still queued fails the assertion too. `PollerNeverDangles`, `FunctorsNeverDangle`
  and `DestroyedDisconnected` except these connections (`Abandoned`). Nor does
  `stop()` wait for requests in progress, as `README.md:19` says.
- A client accepted in the same pass as the signal, on a server without io
  threads, is erased from `connections_` while `~TcpServer()` runs over it
  (`IterationSafe` excludes `signal = "busy"`).
- `quit()` in `~EventLoopThread()` stores, then wakes through a pointer to a loop
  the thread may have destroyed in between (`OwnerWake`).
- With another thread, `shutdown()` may store `DISCONNECTING` over
  `DISCONNECTED`, a queued `send()` may find its object gone, or find it closed
  so that `modify_fd()` throws. `Unshared` marks the properties that hold only
  without other threads.
- A callback cannot cancel a timer of the batch being run.
- A malformed request can be answered: with the `HttpRequest` that `on_message()`
  makes anew, a header line without a colon that begins a segment and is itself a
  request line is taken for a request (`MalformedRefused` excepts it; the run's
  `LineForHeader` reaches it).
- A HEAD request is answered with a body (`http_parser.cpp:155` accepts the method,
  nothing treats it differently), so its client cannot tell where the response
  ends; an HTTP/2.0 request line is accepted and treated like HTTP/1.0.
- A pipelined second request waits until more bytes arrive, because
  `on_message()` parses one request per call.
- `append_body()` after `set_body()`, a second `set_body()` or `clear_body()`
  leave a `content-length` that is not the body's (`ResponsesFramed` speaks of
  handlers that set one body); `reset()` in a handler drops the decision to close.
- A request with two Connection headers is taken for neither value: an HTTP/1.1
  client that says `close` and something else is kept (`KeepAliveIsHonoured`
  excludes it).
- A log limit that is lowered leaves the files beyond it in place, and a limit of
  one keeps two files. `set_max_files()` during a rotation, which no lock prevents
  (`include/utils/logger.h:28`), can leave one file too many; `DiskBounded` allows
  for it.
- A moved-from `Buffer` has indices beyond its empty vector.

A test disagrees with what `RequestsServed` states: `tests/http_parser_test.cpp:51-69`
sends a body of 16 bytes under `Content-Length: 18` and expects a complete request
with that body, while `parse_request()` waits for the two bytes that are missing
(`http_parser.cpp:63`). The property follows the code, as RFC 9112 does; a parser
that passed the test would be the property's mutant `BAD_parse_body`.

Read in the source, without a model: `peek_int64()` reads the first half twice
(`buffer.cpp:139`, against `tests/buffer_test.cpp:59`);
`tests/http_response_test.cpp:147` looks for `Content-Length:` where the code
writes lower case; the repository's README describes an asynchronous,
double-buffered logger, while `log()` writes and flushes under its mutex.

## 7. Not modelled

- `main.cpp` beyond start, signal and shutdown, `examples/`, `tools/`: options,
  pages, demonstration code.
- The race of `HttpServer::on_connection()` on the main thread with
  `on_message()` on the io thread over the connection's context, signals inside a
  step (a mutex held, a map half changed), a second signal during the
  destructors.
- `send(Buffer&)` from another thread, whose lambda captures a reference to the
  caller's buffer (`tcp_connection.cpp:72`): the buffer may be gone when it runs.
- Timer callbacks that throw (`timer_queue.cpp:125`): the batch of
  `process_expired_timers()` is then neither put back nor deleted, and leaks, since
  the destructor frees only what is in `timers_` (`timer_queue.cpp:83`).
- What stands beside a header's text on a line that a parser without its place
  reads, beyond that it is another field.
- The values that `peek_int*()` and `read_int*()` return (only what they consume),
  status, content type and date of a response, log levels and the console.
- Socket options, addresses, TLS stubs, the value written to the timerfd, delays
  beyond the range of `int` milliseconds, a negative Content-Length, calls of
  `run_after()` from other threads.

## 8. Plan

All of it is done: EventLoop with its abstract queue, EventLoopThread,
TcpConnection, HttpServer, TimerQueue, ThreadPool, Buffer, TcpServer (with
Acceptor, EventLoopThreadPool and the signal handler), HttpResponse, MemoryPool
and Logger, and the proofs of the safety properties the runs check, under the
hypotheses of section 5.

What could follow:

1. **HttpServer**: the context that `on_connection()` replaces on the main thread
   while `on_message()` uses it; with a corrected `on_message()` that keeps its
   HttpRequest, `KeepsPlace` would hold of the server itself and the hypotheses
   of `MalformedIsRefused` and `ResponsesAreFramed` would go.
2. **TcpConnection and TcpServer**: state the order of a connection's callbacks as an
   action property and prove it from `ConnInv` and `TcpServerInv`.
3. **EventLoop and ThreadPool**: the refinements are proved for the safety part of
   the abstract queue; its liveness stays with TLC.
