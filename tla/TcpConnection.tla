--------------------------- MODULE TcpConnection ----------------------------
(***************************************************************************)
(* One TcpConnection (net/tcp_connection.cpp) from new_connection() to its *)
(* destructor: the handlers its io loop dispatches, the calls user code    *)
(* makes from the message callback or from another thread, the peer, and   *)
(* TcpServer's part in the life of the object (net/tcp_server.cpp).        *)
(*                                                                         *)
(* The io loop's functors are one FIFO queue, which is what FunctorQueue   *)
(* promises and EventLoop implements.  Bytes are units numbered in the     *)
(* order send_in_loop() accepts them.                                      *)
(***************************************************************************)
EXTENDS Naturals, Sequences, FiniteSets

CONSTANTS Callers,     \* threads other than the io loop's that use the object
          MaxUnits,    \* bound: units user code on the io loop sends in all
          MaxMessage,  \* bound: units in one send()
          MaxIn,       \* bound: units of the peer's the kernel holds
          MaxPeer,     \* bound: units the peer sends in all
          HighWater,   \* high_water_mark_, in units
          PeerResets   \* may the peer reset the connection?

ASSUME BoundsAssumption ==
  /\ {MaxUnits, MaxMessage, MaxIn, MaxPeer, HighWater} \subseteq Nat \ {0}
  /\ IsFiniteSet(Callers)
  /\ PeerResets \in BOOLEAN

VARIABLES
  state_,
  reg,             \* the poller's entry for socket_fd_
  output_buffer_,
  sent,            \* history: number of units send_in_loop() accepted
  wire,            \* history: units handed to the kernel
  wr_shut,         \* has shutdown(SHUT_WR) been called?
  peer,            \* in: unread units; left: units to come; fin, rst: closed
  dispatch,        \* handlers the current event callback has still to call
  phase,           \* "user": in a user callback; "wrote": inside handle_write
  queue,           \* the io loop's functors, oldest first
  main_queue,      \* the main loop's remove_connection_in_loop functors
  in_map,          \* is the connection in TcpServer::connections_?
  same_loop,       \* is the io loop the server's own loop?
  server,          \* "up", "gone" after ~TcpServer(), "ended" with its loops
  caller,          \* where each other thread is in its call
  closes,          \* history: calls of close_callback_
  fault            \* how the process died, or "none"

sendVars  == <<output_buffer_, sent, wire>>
sockVars  == <<wr_shut, peer>>
ownerVars == <<main_queue, in_map, same_loop, server, closes>>
vars == <<state_, reg, sendVars, sockVars, dispatch, phase, queue, ownerVars,
          caller, fault>>

Open == {"CONNECTED", "DISCONNECTING"}

(***************************************************************************)
(* Functors that capture a TcpConnectionPtr, and those that capture a bare *)
(* this.                                                                   *)
(***************************************************************************)
OwningFunctors == {"established", "destroyed", "server_stop"}
RawFunctors == {"send", "shutdown", "force_close", "write_complete", "high_water"}

(***************************************************************************)
(* A thread that is in one of these has a TcpConnectionPtr of its own.     *)
(***************************************************************************)
Holding == {"idle", "send", "shutdown", "shutdown_stored", "force_close",
            "force_close_stored", "called"}

Limit == MaxUnits + MaxMessage * Cardinality(Callers)

(***************************************************************************)
(* new_connection() has put the object into connections_ and handed        *)
(* connection_established() to the io loop, which is the server's own loop *)
(* when there are no io threads.                                           *)
(***************************************************************************)
Init ==
  /\ state_ = "CONNECTING" /\ reg = "none"
  /\ output_buffer_ = << >> /\ sent = 0 /\ wire = << >>
  /\ wr_shut = FALSE
  /\ peer = [in |-> 0, left |-> MaxPeer, fin |-> FALSE, rst |-> FALSE]
  /\ dispatch = << >> /\ phase = "none"
  /\ queue = <<"established">>
  /\ main_queue = << >> /\ in_map = TRUE /\ same_loop \in BOOLEAN
  /\ server = "up" /\ closes = 0
  /\ caller = [c \in Callers |-> "none"]
  /\ fault = "none"

(***************************************************************************)
(* Some shared_ptr to the object exists.  When none is left the destructor *)
(* has run.                                                                *)
(***************************************************************************)
Held == \/ in_map
        \/ main_queue # << >>
        \/ \E i \in DOMAIN queue : queue[i] \in OwningFunctors
        \/ phase = "user"
        \/ \E c \in Callers : caller[c] \in Holding

-----------------------------------------------------------------------------
(* Handlers.  q is the io loop's queue without the functor being run.      *)

(***************************************************************************)
(* The process dies.                                                       *)
(***************************************************************************)
Abort(how, q) == fault' = how /\ queue' = q /\ UNCHANGED ownerVars

(***************************************************************************)
(* remove_connection_in_loop() asserts that the connection is still in     *)
(* connections_ and queues connection_destroyed() to the io loop.          *)
(***************************************************************************)
BAD_erase_only(q) ==
  /\ in_map' = FALSE
  /\ queue' = q
  /\ fault' = fault

BAD_no_erase(q) ==
  /\ in_map' = in_map
  /\ queue' = Append(q, "destroyed")
  /\ fault' = fault

remove_connection_in_loop(q) ==
  /\ in_map' = FALSE
  /\ queue' = Append(q, "destroyed")
  /\ fault' = IF in_map THEN fault ELSE "assert"

(***************************************************************************)
(* close_callback_ is remove_connection(): run_in_loop() on the server's   *)
(* loop.                                                                   *)
(***************************************************************************)
remove_connection(q) ==
  /\ closes' = closes + 1
  /\ UNCHANGED <<same_loop, server>>
  /\ IF same_loop
       THEN remove_connection_in_loop(q) /\ UNCHANGED main_queue
       ELSE /\ main_queue' = Append(main_queue, "remove")
            /\ queue' = q
            /\ UNCHANGED <<in_map, fault>>

(***************************************************************************)
(* The poller's entry for the descriptor.  epoll_ctl() refuses to modify   *)
(* or remove one that is not there and the poller throws.                  *)
(***************************************************************************)
add_fd(events) == reg' = events
modify_fd(events) == reg' = IF reg = "none" THEN reg ELSE events
remove_fd == reg' = "none"
PollerThrows == reg = "none"

(***************************************************************************)
(* handle_close(): the assertion, then remove_fd(), which throws when the  *)
(* descriptor is not registered, then close_callback_.                     *)
(***************************************************************************)
BAD_handle_close(q) ==
  /\ state_' = "DISCONNECTED"
  /\ reg' = reg
  /\ IF state_ \in Open THEN remove_connection(q) ELSE Abort("assert", q)

BAD_state_handle_close(q) ==
  /\ state_' = state_
  /\ reg' = "none"
  /\ IF state_ \in Open THEN remove_connection(q) ELSE Abort("assert", q)

handle_close(q) ==
  IF state_ \notin Open
    THEN Abort("assert", q) /\ UNCHANGED <<state_, reg>>
    ELSE /\ state_' = "DISCONNECTED"
         /\ remove_fd
         /\ IF PollerThrows THEN Abort("throw", q) ELSE remove_connection(q)

(***************************************************************************)
(* shutdown_in_loop().                                                     *)
(***************************************************************************)
shutdown_in_loop == wr_shut' = (wr_shut \/ output_buffer_ = << >>)

Units(from, to) == [i \in 1..(to - from) |-> from + i]

(***************************************************************************)
(* send_in_loop() with a message of n units of which the direct write      *)
(* takes k: none when output is buffered already, when the socket is full  *)
(* or when the state is not CONNECTED.  On a reset connection that write   *)
(* fails with EPIPE or ECONNRESET and the message is dropped.              *)
(***************************************************************************)
BAD_send_in_loop(n, k, q) ==
  /\ k <= n /\ (state_ # "CONNECTED" => k = 0)
  /\ sent' = sent + n
  /\ wire' = wire \o Units(sent, sent + k)
  /\ output_buffer_' = output_buffer_ \o Units(sent + k, sent + n)
  /\ reg' = IF k < n THEN "readwrite" ELSE reg
  /\ queue' = q
  /\ UNCHANGED fault

BAD_reg_send_in_loop(n, k, q) ==
  LET direct == state_ = "CONNECTED" /\ output_buffer_ = << >>
  IN  /\ k <= n /\ (~direct => k = 0)
      /\ sent' = sent + n
      /\ wire' = wire \o Units(sent, sent + k)
      /\ output_buffer_' = output_buffer_ \o Units(sent + k, sent + n)
      /\ queue' = q
      /\ UNCHANGED <<reg, fault>>

send_in_loop(n, k, q) ==
  LET direct == state_ = "CONNECTED" /\ output_buffer_ = << >>
      old_len == Len(output_buffer_)
      crosses == old_len < HighWater /\ old_len + (n - k) >= HighWater
  IN  /\ k <= n /\ (~direct \/ peer.rst => k = 0)
      /\ IF direct /\ peer.rst
           THEN queue' = q /\ UNCHANGED <<sendVars, reg, fault>>
           ELSE /\ sent' = sent + n
                /\ wire' = wire \o Units(sent, sent + k)
                /\ output_buffer_' = output_buffer_ \o Units(sent + k, sent + n)
                /\ queue' = q \o (IF k = n THEN <<"write_complete">>
                                  ELSE IF crosses THEN <<"high_water">> ELSE << >>)
                /\ IF k < n THEN modify_fd("readwrite") ELSE UNCHANGED reg
                /\ fault' = IF k < n /\ PollerThrows THEN "throw" ELSE fault

-----------------------------------------------------------------------------
(* The peer, as the kernel shows it.                                       *)

PeerOpen == fault = "none" /\ server # "ended" /\ ~peer.fin /\ ~peer.rst

PeerSends ==
  /\ PeerOpen
  /\ peer.left > 0 /\ peer.in < MaxIn
  /\ peer' = [peer EXCEPT !.in = @ + 1, !.left = @ - 1]
  /\ UNCHANGED <<state_, reg, sendVars, wr_shut, dispatch, phase, queue,
                 ownerVars, caller, fault>>

PeerCloses(how) ==
  /\ PeerOpen
  /\ how = "rst" => PeerResets
  /\ peer' = [peer EXCEPT ![how] = TRUE]
  /\ UNCHANGED <<state_, reg, sendVars, wr_shut, dispatch, phase, queue,
                 ownerVars, caller, fault>>

-----------------------------------------------------------------------------
(* The io loop dispatches an event.                                        *)

(***************************************************************************)
(* The server's own loop has returned before the server is destroyed; io   *)
(* loops run until their threads are joined.                               *)
(***************************************************************************)
LoopRuns == server # "ended" /\ (same_loop => server # "gone")
LoopIdle == fault = "none" /\ LoopRuns /\ dispatch = << >> /\ phase = "none"

(***************************************************************************)
(* epoll, level triggered: unread data, the end of the stream and a reset  *)
(* are EVENT_READ; EPOLLERR and EPOLLHUP (a reset, or both directions      *)
(* closed) are EVENT_ERROR; EVENT_WRITE comes when it was asked for and    *)
(* the socket has room.  The callback calls the handlers in this order.    *)
(***************************************************************************)
Readable == peer.in > 0 \/ peer.fin \/ peer.rst
HungUp   == peer.rst \/ (peer.fin /\ wr_shut)

Ready(writable) ==
  /\ LoopIdle
  /\ reg # "none"
  /\ writable => reg = "readwrite"
  /\ Readable \/ writable

Event(writable) ==
  /\ Ready(writable) /\ Held
  /\ dispatch' = (IF Readable THEN <<"read">> ELSE << >>)
                   \o (IF writable THEN <<"write">> ELSE << >>)
                   \o (IF HungUp THEN <<"error">> ELSE << >>)
  /\ UNCHANGED <<state_, reg, sendVars, sockVars, phase, queue, ownerVars,
                 caller, fault>>

(***************************************************************************)
(* The event finds the object its callback captured destroyed.             *)
(***************************************************************************)
EventDangling ==
  /\ \E writable \in BOOLEAN : Ready(writable)
  /\ ~Held
  /\ Abort("dangling", queue)
  /\ UNCHANGED <<state_, reg, sendVars, sockVars, dispatch, phase, caller>>

Handling(handler) ==
  /\ fault = "none" /\ phase = "none"
  /\ dispatch # << >> /\ Head(dispatch) = handler
  /\ dispatch' = Tail(dispatch)

(***************************************************************************)
(* handle_read(): data goes to message_callback_; the end of the stream,   *)
(* and through handle_error() a failed read, end in handle_close().        *)
(***************************************************************************)
handle_read_data(k) ==
  /\ Handling("read")
  /\ k <= peer.in
  /\ peer' = [peer EXCEPT !.in = @ - k]
  /\ phase' = "user"
  /\ UNCHANGED <<state_, reg, sendVars, wr_shut, queue, ownerVars, caller, fault>>

handle_read_end ==
  /\ Handling("read")
  /\ peer.in = 0
  /\ handle_close(queue)
  /\ UNCHANGED <<sendVars, sockVars, phase, caller>>

(***************************************************************************)
(* handle_error() closes whatever the state.                               *)
(***************************************************************************)
handle_error ==
  /\ Handling("error")
  /\ handle_close(queue)
  /\ UNCHANGED <<sendVars, sockVars, phase, caller>>

(***************************************************************************)
(* handle_write() does nothing unless CONNECTED.  The write takes k > 0    *)
(* units, or fails on a reset connection, which is only logged.  With the  *)
(* buffer drained it asks the poller for reads only and queues             *)
(* write_complete; then it reads state_ again.                             *)
(***************************************************************************)
BAD_handle_write(k) ==
  /\ Handling("write")
  /\ state_ = "CONNECTED" /\ ~peer.rst
  /\ k <= Len(output_buffer_)
  /\ wire' = wire \o SubSeq(output_buffer_, 1, k)
  /\ output_buffer_' = SubSeq(output_buffer_, k + 1, Len(output_buffer_))
  /\ reg' = "read"
  /\ UNCHANGED <<sent, state_, sockVars, phase, queue, ownerVars, caller, fault>>

handle_write(k) ==
  /\ Handling("write")
  /\ state_ = "CONNECTED" /\ ~peer.rst
  /\ k <= Len(output_buffer_)
  /\ wire' = wire \o SubSeq(output_buffer_, 1, k)
  /\ output_buffer_' = SubSeq(output_buffer_, k + 1, Len(output_buffer_))
  /\ IF k = Len(output_buffer_)
       THEN modify_fd("read") /\ queue' = Append(queue, "write_complete") /\ phase' = "wrote"
       ELSE UNCHANGED <<reg, queue, phase>>
  /\ UNCHANGED <<sent, state_, sockVars, ownerVars, caller, fault>>

handle_write_drained ==
  /\ fault = "none" /\ phase = "wrote"
  /\ phase' = "none"
  /\ IF state_ = "DISCONNECTING" THEN shutdown_in_loop ELSE UNCHANGED wr_shut
  /\ UNCHANGED <<state_, reg, sendVars, peer, dispatch, queue, ownerVars, caller,
                 fault>>

handle_write_nothing ==
  /\ Handling("write")
  /\ state_ # "CONNECTED" \/ peer.rst
  /\ UNCHANGED <<state_, reg, sendVars, sockVars, phase, queue, ownerVars, caller,
                 fault>>

-----------------------------------------------------------------------------
(* User code in message_callback_, write_complete_callback_ or             *)
(* high_water_mark_callback_, on the io loop's thread.                     *)

InUser == fault = "none" /\ phase = "user"

UserSend(n, k) ==
  /\ InUser
  /\ state_ = "CONNECTED"
  /\ sent + n <= MaxUnits
  /\ send_in_loop(n, k, queue)
  /\ UNCHANGED <<state_, sockVars, dispatch, phase, ownerVars, caller>>

UserShutdown ==
  /\ InUser
  /\ state_ = "CONNECTED"
  /\ state_' = "DISCONNECTING"
  /\ shutdown_in_loop
  /\ UNCHANGED <<reg, sendVars, peer, dispatch, phase, queue, ownerVars, caller,
                 fault>>

UserForceClose ==
  /\ InUser
  /\ state_ \in Open
  /\ handle_close(queue)
  /\ UNCHANGED <<sendVars, sockVars, dispatch, phase, caller>>

(***************************************************************************)
(* The callback leaves a copy of its pointer with another thread.          *)
(***************************************************************************)
UserShares(c) ==
  /\ InUser
  /\ caller[c] = "none"
  /\ caller' = [caller EXCEPT ![c] = "idle"]
  /\ UNCHANGED <<state_, reg, sendVars, sockVars, dispatch, phase, queue,
                 ownerVars, fault>>

UserReturn ==
  /\ InUser
  /\ phase' = "none"
  /\ UNCHANGED <<state_, reg, sendVars, sockVars, dispatch, queue, ownerVars,
                 caller, fault>>

-----------------------------------------------------------------------------
(* The functors of the io loop and of the main loop.                       *)

Running(functor) == LoopIdle /\ queue # << >> /\ Head(queue) = functor
Following(functor) == Running(functor) /\ Held

connection_established ==
  /\ Running("established")
  /\ queue' = Tail(queue)
  /\ state_' = "CONNECTED"
  /\ add_fd("read")
  /\ fault' = IF state_ = "CONNECTING" THEN fault ELSE "assert"
  /\ UNCHANGED <<sendVars, sockVars, dispatch, phase, ownerVars, caller>>

connection_destroyed ==
  /\ Running("destroyed")
  /\ IF state_ = "CONNECTED"
       THEN /\ state_' = "DISCONNECTED"
            /\ remove_fd
            /\ remove_connection(Tail(queue))
       ELSE /\ queue' = Tail(queue)
            /\ UNCHANGED <<state_, reg, ownerVars, fault>>
  /\ UNCHANGED <<sendVars, sockVars, dispatch, phase, caller>>

(***************************************************************************)
(* write_complete_callback_(shared_from_this()), and the high water one.   *)
(***************************************************************************)
RunUserCallback ==
  /\ \E functor \in {"write_complete", "high_water"} : Following(functor)
  /\ queue' = Tail(queue)
  /\ phase' = "user"
  /\ UNCHANGED <<state_, reg, sendVars, sockVars, dispatch, ownerVars, caller,
                 fault>>

QueuedSend(n, k) ==
  /\ Following("send")
  /\ send_in_loop(n, k, Tail(queue))
  /\ UNCHANGED <<state_, sockVars, dispatch, phase, ownerVars, caller>>

QueuedShutdown ==
  /\ Following("shutdown")
  /\ queue' = Tail(queue)
  /\ shutdown_in_loop
  /\ UNCHANGED <<state_, reg, sendVars, peer, dispatch, phase, ownerVars, caller,
                 fault>>

force_close_in_loop ==
  /\ Following("force_close")
  /\ IF state_ \in Open
       THEN handle_close(Tail(queue))
       ELSE queue' = Tail(queue) /\ UNCHANGED <<state_, reg, ownerVars, fault>>
  /\ UNCHANGED <<sendVars, sockVars, dispatch, phase, caller>>

(***************************************************************************)
(* A functor follows its bare this to a destroyed object.                  *)
(***************************************************************************)
RunDangling ==
  /\ \E functor \in RawFunctors : Running(functor)
  /\ ~Held
  /\ Abort("dangling", queue)
  /\ UNCHANGED <<state_, reg, sendVars, sockVars, dispatch, phase, caller>>

MainRemoves ==
  /\ fault = "none" /\ server = "up"
  /\ main_queue # << >>
  /\ main_queue' = Tail(main_queue)
  /\ remove_connection_in_loop(queue)
  /\ UNCHANGED <<state_, reg, sendVars, sockVars, dispatch, phase, same_loop,
                 server, closes, caller>>

-----------------------------------------------------------------------------
(* The server stops and is destroyed.                                      *)

(***************************************************************************)
(* TcpServer::stop() hands shutdown() to the io loop of a connection in    *)
(* connections_.  From the signal handler it runs between any two steps of *)
(* the main thread; on the server's own loop shutdown() runs in place.     *)
(* One such functor waits at a time.                                       *)
(***************************************************************************)
Shutdown ==
  IF state_ = "CONNECTED"
    THEN state_' = "DISCONNECTING" /\ shutdown_in_loop
    ELSE UNCHANGED <<state_, wr_shut>>

stop ==
  /\ fault = "none" /\ server = "up" /\ in_map
  /\ IF same_loop
       THEN Shutdown /\ UNCHANGED queue
       ELSE /\ \A i \in DOMAIN queue : queue[i] # "server_stop"
            /\ queue' = Append(queue, "server_stop")
            /\ UNCHANGED <<state_, wr_shut>>
  /\ UNCHANGED <<reg, sendVars, peer, dispatch, phase, ownerVars, caller, fault>>

QueuedStop ==
  /\ Running("server_stop")
  /\ queue' = Tail(queue)
  /\ Shutdown
  /\ UNCHANGED <<reg, sendVars, peer, dispatch, phase, ownerVars, caller, fault>>

(***************************************************************************)
(* ~TcpServer(), after loop() has returned: connection_destroyed() goes to *)
(* the io loop of a connection in connections_, and the map is destroyed.  *)
(* On the server's own loop it runs in place: a connection that is still   *)
(* CONNECTED is erased from the map under the destructor's iterator.       *)
(***************************************************************************)
Erases == in_map /\ same_loop /\ state_ = "CONNECTED"

DestroyServer ==
  /\ fault = "none" /\ server = "up"
  /\ same_loop => LoopIdle /\ state_ # "CONNECTING"
  /\ server' = "gone"
  /\ in_map' = FALSE
  /\ IF Erases
       THEN state_' = "DISCONNECTED" /\ remove_fd /\ closes' = closes + 1 /\ fault' = "iterator"
       ELSE UNCHANGED <<state_, reg, closes, fault>>
  /\ queue' = IF Erases \/ (in_map /\ ~same_loop) THEN Append(queue, "destroyed") ELSE queue
  /\ UNCHANGED <<sendVars, sockVars, dispatch, phase, main_queue, same_loop, caller>>

(***************************************************************************)
(* The io thread is joined and main() returns: each loop ends after some   *)
(* pass and goes with its poller and whatever it has not run.              *)
(***************************************************************************)
Exit ==
  /\ fault = "none" /\ server = "gone"
  /\ dispatch = << >> /\ phase = "none"
  /\ server' = "ended"
  /\ reg' = "none" /\ queue' = << >> /\ main_queue' = << >>
  /\ UNCHANGED <<state_, sendVars, sockVars, dispatch, phase, in_map, same_loop,
                 closes, caller, fault>>

-----------------------------------------------------------------------------
(* send(), shutdown() and force_close() on another thread: state_ is read, *)
(* then stored, then the functor is queued, with the io loop in between.   *)
(* One call per thread.                                                    *)

CallerChecks(c, call) ==
  /\ fault = "none" /\ server # "ended" /\ caller[c] = "idle"
  /\ state_ \in (IF call = "force_close" THEN Open ELSE {"CONNECTED"})
  /\ caller' = [caller EXCEPT ![c] = call]
  /\ UNCHANGED <<state_, reg, sendVars, sockVars, dispatch, phase, queue,
                 ownerVars, fault>>

Stored(call) ==
  IF call = "shutdown" THEN "shutdown_stored" ELSE "force_close_stored"

CallerStores(c) ==
  /\ fault = "none" /\ server # "ended" /\ caller[c] \in {"shutdown", "force_close"}
  /\ state_' = "DISCONNECTING"
  /\ caller' = [caller EXCEPT ![c] = Stored(@)]
  /\ UNCHANGED <<reg, sendVars, sockVars, dispatch, phase, queue, ownerVars,
                 fault>>

CallerQueues(c, call) ==
  /\ fault = "none" /\ server # "ended"
  /\ caller[c] = IF call = "send" THEN call ELSE Stored(call)
  /\ queue' = Append(queue, call)
  /\ caller' = [caller EXCEPT ![c] = "called"]
  /\ UNCHANGED <<state_, reg, sendVars, sockVars, dispatch, phase, ownerVars,
                 fault>>

CallerDrops(c) ==
  /\ fault = "none" /\ caller[c] \in {"idle", "called"}
  /\ caller' = [caller EXCEPT ![c] = "gone"]
  /\ UNCHANGED <<state_, reg, sendVars, sockVars, dispatch, phase, queue,
                 ownerVars, fault>>

-----------------------------------------------------------------------------
Handler == \/ \E k \in 1..MaxIn : handle_read_data(k)
           \/ handle_read_end
           \/ handle_error
           \/ \E k \in 1..Limit : handle_write(k)
           \/ handle_write_drained
           \/ handle_write_nothing
           \/ UserReturn

Functor == \/ connection_established
           \/ connection_destroyed
           \/ QueuedStop
           \/ RunUserCallback
           \/ \E n \in 1..MaxMessage, k \in 0..MaxMessage : QueuedSend(n, k)
           \/ QueuedShutdown
           \/ force_close_in_loop
           \/ RunDangling

UserCall == \/ \E n \in 1..MaxMessage, k \in 0..MaxMessage : UserSend(n, k)
            \/ UserShutdown
            \/ UserForceClose
            \/ \E c \in Callers : UserShares(c)

ThreadCall(c) == \/ \E call \in {"send", "shutdown", "force_close"} :
                      CallerChecks(c, call) \/ CallerQueues(c, call)
                 \/ CallerStores(c)
                 \/ CallerDrops(c)

Next == \/ PeerSends
        \/ \E how \in {"fin", "rst"} : PeerCloses(how)
        \/ \E writable \in BOOLEAN : Event(writable)
        \/ Handler
        \/ Functor
        \/ UserCall
        \/ MainRemoves
        \/ stop \/ DestroyServer \/ Exit
        \/ EventDangling
        \/ \E c \in Callers : ThreadCall(c)

Spec == Init /\ [][Next]_vars

(***************************************************************************)
(* Handlers and callbacks return; every pass of the loop runs the queued   *)
(* functors and polls, so neither is starved by the other; the main loop   *)
(* runs its functors.  The peer keeps reading: a socket that is watched    *)
(* for writing is writable again and again.  A loop that was told to quit  *)
(* looks at quit_ after every pass.                                        *)
(***************************************************************************)
Fairness == /\ WF_vars(Handler)
            /\ SF_vars(Functor)
            /\ SF_vars(Event(FALSE))
            /\ SF_vars(Event(TRUE))
            /\ WF_vars(MainRemoves)
            /\ SF_vars(Exit)

FairSpec == Spec /\ Fairness

-----------------------------------------------------------------------------
(* Properties.                                                             *)

(***************************************************************************)
(* What send_in_loop() accepted is on the wire or in the output buffer,    *)
(* each unit once and in order, through every mix of direct writes,        *)
(* partial writes of handle_write() and sends from callbacks and threads.  *)
(***************************************************************************)
StreamInOrder == wire \o output_buffer_ = Units(0, sent)

(***************************************************************************)
(* A connected socket is watched for writing exactly while output waits:   *)
(* no output is stranded and no drained socket keeps the loop busy         *)
(* (send_in_loop, handle_write).                                           *)
(***************************************************************************)
WriteInterest ==
  fault = "none" /\ server # "ended" /\ state_ = "CONNECTED"
    => (reg = "readwrite" <=> output_buffer_ # << >>)

(***************************************************************************)
(* close_callback_ runs once per connection, and its connection is then    *)
(* out of the poller (handle_close, connection_destroyed).                 *)
(***************************************************************************)
ClosedOnce == closes <= 1 /\ (closes = 1 => reg = "none")

(***************************************************************************)
(* The two ways a connection is let go before it is closed, both in the    *)
(* server's destruction: connection_destroyed() does nothing with one that *)
(* is DISCONNECTING, as stop() leaves it; and a loop may end with          *)
(* connection_destroyed() still queued.  In the first the object is freed  *)
(* while the poller has its descriptor and a bare this; in both the        *)
(* assertion of ~TcpConnection() fails.                                    *)
(***************************************************************************)
Abandoned == \/ server = "gone" /\ state_ = "DISCONNECTING"
             \/ server = "ended"

(***************************************************************************)
(* While the poller holds the descriptor, whose callback captured a bare   *)
(* this, the object exists, through every close and removal and the        *)
(* server's destruction, except for a connection the destructor finds      *)
(* DISCONNECTING (remove_connection, connection_destroyed, ~TcpServer).    *)
(***************************************************************************)
PollerNeverDangles == reg # "none" => Held \/ Abandoned

(***************************************************************************)
(* Only the io loop has had the object so far.  What follows about the end *)
(* of the object's life is true of such connections only: for another      *)
(* thread's calls the code does not guarantee it.                          *)
(***************************************************************************)
Unshared == \A c \in Callers : caller[c] = "none"

(***************************************************************************)
(* No queued functor outlives the object behind the this it captured: the  *)
(* last pointer is dropped behind it in the io loop's queue, unless the    *)
(* server's destructor finds the connection DISCONNECTING                  *)
(* (remove_connection_in_loop, connection_destroyed).                      *)
(***************************************************************************)
FunctorsNeverDangle ==
  Unshared /\ (\E i \in DOMAIN queue : queue[i] \in RawFunctors)
    => Held \/ Abandoned

(***************************************************************************)
(* The assertion of ~TcpConnection() while the server lives: state_ is     *)
(* DISCONNECTED when the last pointer goes.  Once the server is destroyed  *)
(* it fails for the connections that are Abandoned and for no others       *)
(* (handle_close, connection_destroyed, ~TcpServer).                       *)
(***************************************************************************)
DestroyedDisconnected ==
  Unshared /\ ~Held => state_ = "DISCONNECTED" \/ Abandoned

(***************************************************************************)
(* The assertions of the connection's handlers hold, and remove_connection *)
(* finds the connection in connections_.                                   *)
(***************************************************************************)
NoAssertionFails == fault # "assert"

(***************************************************************************)
(* Output of a connection that stays open reaches the kernel while the     *)
(* peer reads (send_in_loop, handle_write).                                *)
(***************************************************************************)
OutputDrains ==
  (state_ = "CONNECTED" /\ output_buffer_ # << >>)
    ~> \/ output_buffer_ = << >> \/ state_ # "CONNECTED"
       \/ fault # "none" \/ server = "ended"

(***************************************************************************)
(* A closed connection is released by the server and by both loops, and    *)
(* so destroyed (handle_close, remove_connection_in_loop,                  *)
(* connection_destroyed).                                                  *)
(***************************************************************************)
ClosedIsReleased ==
  (state_ = "DISCONNECTED") ~> (~Held \/ ~Unshared \/ fault # "none")
=============================================================================
