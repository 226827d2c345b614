------------------------------ MODULE TcpServer ------------------------------
(***************************************************************************)
(* The server's threads from start() to the end of main(): TcpServer, its  *)
(* Acceptor and EventLoopThreadPool (directory net/), and the signal       *)
(* handler of main.cpp.                                                    *)
(*                                                                         *)
(* Loop 0 is the base loop, run by the main thread; loops 1..num_threads_  *)
(* are the io threads' loops.  A pass of a loop is epoll_wait(), the       *)
(* callbacks of the descriptors it returned, and the functors swapped out  *)
(* of pending_functors_.  A connection is what these components see of it: *)
(* its state_ and whether its peer has closed; module TcpConnection has    *)
(* the rest.                                                               *)
(***************************************************************************)
EXTENDS Naturals, Sequences, FiniteSets, SequencesExt

CONSTANTS MaxThreads,         \* bound: io threads
          MaxClients,         \* bound: clients that connect
          FdLimit,            \* descriptors left for accepted sockets
          kMaxAcceptPerLoop,
          StatusTimer         \* does the main program run its 30 s timer?

ASSUME ServerAssumption ==
  /\ {MaxThreads, MaxClients, FdLimit} \subseteq Nat
  /\ kMaxAcceptPerLoop \in Nat \ {0}
  /\ StatusTimer \in BOOLEAN

Base == 0
Loops == 0..MaxThreads
Clients == 1..MaxClients
Listener == 0              \* accept_fd_ among a loop's active descriptors

VARIABLES
  pc,            \* where each loop's thread is
  quit_,
  pending,       \* pending_functors_ of each loop
  batch,         \* the functors the current pass has still to run
  active,        \* the descriptors the current pass has still to serve
  num_threads_, next_,      \* of the pool
  joining,       \* number of EventLoopThreads whose destructor has begun
  listening_,    \* of the acceptor
  turns,         \* turns handle_read()'s loop has left
  state_,        \* of each client's TcpConnection, or where the client is
  home,          \* the loop of each client's connection
  connections_,
  fin,           \* clients that have closed their end
  signal,        \* when SIGINT came: "early", "waiting" in epoll_wait, "busy"
  fault          \* how the process died, or "none"

loopVars == <<quit_, batch, active>>
poolVars == <<num_threads_, next_, joining>>
connVars == <<state_, home, connections_>>
vars == <<pc, loopVars, pending, poolVars, listening_, turns, connVars, fin,
          signal, fault>>

IoLoops == 1..num_threads_
Backlog == {c \in Clients : state_[c] = "backlog"}
Open == {"CONNECTED", "DISCONNECTING"}
Accepted == {c \in Clients : state_[c] \in Open \cup {"CONNECTING", "DISCONNECTED"}}

(***************************************************************************)
(* main() has set_thread_num() called before start().                      *)
(***************************************************************************)
Init ==
  /\ pc = [l \in Loops |-> IF l = Base THEN "init" ELSE "none"]
  /\ quit_ = [l \in Loops |-> FALSE]
  /\ pending = [l \in Loops |-> << >>]
  /\ batch = [l \in Loops |-> << >>]
  /\ active = [l \in Loops |-> {}]
  /\ num_threads_ \in 0..MaxThreads /\ next_ = 0 /\ joining = 0
  /\ listening_ = FALSE /\ turns = 0
  /\ state_ = [c \in Clients |-> "away"]
  /\ home = [c \in Clients |-> Base]
  /\ connections_ = {}
  /\ fin = {}
  /\ signal = "none" /\ fault = "none"

Alive == fault = "none"
At(l, where) == Alive /\ pc[l] = where
Go(l, where) == pc' = [pc EXCEPT ![l] = where]

-----------------------------------------------------------------------------
(* TcpServer.                                                              *)

(***************************************************************************)
(* The acceptor's switches.                                                *)
(***************************************************************************)
listen == listening_' = TRUE
disable_listening == listening_' = FALSE

(***************************************************************************)
(* EventLoopThreadPool::start(): every io thread has published its loop.   *)
(***************************************************************************)
StartPool(where) == [l \in Loops |-> IF l \in IoLoops THEN "published" ELSE where[l]]

(***************************************************************************)
(* start(): the pool is started; the acceptor listens.                     *)
(***************************************************************************)
start ==
  /\ At(Base, "init")
  /\ pc' = StartPool([pc EXCEPT ![Base] = "started"])
  /\ listen
  /\ UNCHANGED <<loopVars, pending, poolVars, turns, connVars, fin, signal, fault>>

(***************************************************************************)
(* bind_and_listen() throws out of start(), and main() unwinds: the server *)
(* is destroyed with its threads just started.                             *)
(***************************************************************************)
StartThrows ==
  /\ At(Base, "init")
  /\ pc' = StartPool([pc EXCEPT ![Base] = "destroy"])
  /\ UNCHANGED <<loopVars, pending, poolVars, listening_, turns, connVars, fin, signal,
                 fault>>

(***************************************************************************)
(* remove_connection_in_loop() asserts that it finds the connection and    *)
(* always queues connection_destroyed().                                   *)
(***************************************************************************)
BAD_remove_connection_in_loop(c) ==
  /\ connections_' = connections_
  /\ pending' = [pending EXCEPT ![home[c]] = Append(@, <<"destroyed", c>>)]
  /\ UNCHANGED fault

remove_connection_in_loop(c) ==
  /\ connections_' = connections_ \ {c}
  /\ pending' = [pending EXCEPT ![home[c]] = Append(@, <<"destroyed", c>>)]
  /\ fault' = IF c \in connections_ THEN fault ELSE "assert"

(***************************************************************************)
(* remove_connection(), called on loop l.                                  *)
(***************************************************************************)
remove_connection(l, c) ==
  IF l = Base
    THEN remove_connection_in_loop(c)
    ELSE /\ pending' = [pending EXCEPT ![Base] = Append(@, <<"remove", c>>)]
         /\ UNCHANGED <<connections_, fault>>

(***************************************************************************)
(* handle_close() of a connection of loop l, which calls close_callback_.  *)
(***************************************************************************)
handle_close(l, c) ==
  /\ state_' = [state_ EXCEPT ![c] = "DISCONNECTED"]
  /\ remove_connection(l, c)

(***************************************************************************)
(* connection_destroyed() closes a connection only if it is CONNECTED.     *)
(***************************************************************************)
BAD_DestroyCloses(c) == state_[c] \in Open
DestroyCloses(c) == state_[c] = "CONNECTED"

(***************************************************************************)
(* shutdown() of a connection, on its own loop.                            *)
(***************************************************************************)
Shut(s) == IF s = "CONNECTED" THEN "DISCONNECTING" ELSE s

(***************************************************************************)
(* A loop over connections_, an unordered_map, that hands each             *)
(* connection's loop a functor.  run_in_loop() queues it to an io loop; on *)
(* the base loop it calls it.                                              *)
(***************************************************************************)
Inline == {c \in connections_ : home[c] = Base}

HandOver(functor) ==
  pending' = [l \in Loops |->
    LET mine == SetToSeq({c \in connections_ \ Inline : home[c] = l})
    IN  pending[l] \o [i \in DOMAIN mine |-> <<functor, mine[i]>>]]

(***************************************************************************)
(* stop(), on the main thread: disable_listening(), then shutdown() for    *)
(* every connection.                                                       *)
(***************************************************************************)
stop ==
  /\ disable_listening
  /\ HandOver("shutdown")
  /\ state_' = [c \in Clients |-> IF c \in Inline THEN Shut(state_[c]) ELSE state_[c]]

(***************************************************************************)
(* ~TcpServer() hands connection_destroyed() to every connection's loop.   *)
(* Called on the base loop itself it erases from the map it runs over.     *)
(* Then connections_ is freed.                                             *)
(***************************************************************************)
DestroyServer ==
  /\ At(Base, "destroy")
  /\ HandOver("destroyed")
  /\ state_' = [c \in Clients |-> IF c \in Inline /\ DestroyCloses(c)
                                    THEN "DISCONNECTED" ELSE state_[c]]
  /\ fault' = IF \E c \in Inline : DestroyCloses(c) THEN "iterator" ELSE fault
  /\ connections_' = {}
  /\ Go(Base, "join")
  /\ UNCHANGED <<loopVars, poolVars, listening_, turns, home, fin, signal>>

-----------------------------------------------------------------------------
(* EventLoopThreadPool.                                                    *)

(***************************************************************************)
(* get_next_loop(): round robin, or the base loop when there are no io     *)
(* threads; and what it leaves in next_.                                   *)
(***************************************************************************)
get_next_loop == IF num_threads_ = 0 THEN Base ELSE next_ + 1

AdvanceNext == next_' = IF next_ + 1 >= num_threads_ THEN 0 ELSE next_ + 1

(***************************************************************************)
(* ~EventLoopThread() of the l-th thread: quit() and join(), one thread    *)
(* after the other.  quit() wakes the loop.                                *)
(***************************************************************************)
DestroyThread(l) ==
  /\ At(Base, "join")
  /\ l \in IoLoops /\ joining = l - 1
  /\ \A k \in 1..joining : pc[k] = "left"
  /\ joining' = l
  /\ quit_' = [quit_ EXCEPT ![l] = TRUE]
  /\ UNCHANGED <<pc, batch, active, pending, num_threads_, next_, listening_, turns,
                 connVars, fin, signal, fault>>

(***************************************************************************)
(* The last thread is joined, the acceptor closed, and main() returns.     *)
(***************************************************************************)
Exit ==
  /\ At(Base, "join")
  /\ joining = num_threads_
  /\ \A l \in IoLoops : pc[l] = "left"
  /\ Go(Base, "exited")
  /\ UNCHANGED <<loopVars, pending, poolVars, listening_, turns, connVars, fin,
                 signal, fault>>

-----------------------------------------------------------------------------
(* EventLoop::loop() of each thread.                                       *)

(***************************************************************************)
(* loop() begins with quit_ = false, whatever was stored in it before, and *)
(* so goes on to epoll_wait().                                             *)
(***************************************************************************)
Enter(l) ==
  /\ At(l, IF l = Base THEN "started" ELSE "published")
  /\ Go(l, "wait")
  /\ quit_' = [quit_ EXCEPT ![l] = FALSE]
  /\ UNCHANGED <<batch, active, pending, poolVars, listening_, turns, connVars, fin,
                 signal, fault>>

(***************************************************************************)
(* epoll_wait() returns: a descriptor is ready, queue_in_loop() or quit()  *)
(* from another thread has written the wakeup descriptor, or the timer is  *)
(* due, which matters here only because quit_ is then looked at.  A        *)
(* connection is registered while it is open.                              *)
(***************************************************************************)
Ready(l) ==
  (IF l = Base /\ listening_ /\ Backlog # {} THEN {Listener} ELSE {})
    \cup {c \in fin : state_[c] \in Open /\ home[c] = l}

BAD_Woken(l) == pending[l] # << >>

Woken(l) == pending[l] # << >> \/ (quit_[l] /\ (l # Base \/ StatusTimer))

Poll(l) ==
  /\ At(l, "wait")
  /\ Ready(l) # {} \/ Woken(l)
  /\ active' = [active EXCEPT ![l] = Ready(l)]
  /\ Go(l, "events")
  /\ UNCHANGED <<quit_, batch, pending, poolVars, listening_, turns, connVars, fin,
                 signal, fault>>

(***************************************************************************)
(* The event of a connection whose peer has closed.                        *)
(***************************************************************************)
HandleClosed(l, c) ==
  /\ At(l, "events")
  /\ c \in active[l]
  /\ active' = [active EXCEPT ![l] = @ \ {c}]
  /\ handle_close(l, c)
  /\ UNCHANGED <<pc, quit_, batch, poolVars, listening_, turns, home, fin, signal>>

(***************************************************************************)
(* If our side had been shut down when epoll_wait() returned, the event    *)
(* says EVENT_READ and EVENT_ERROR: handle_close() runs a second time, and *)
(* its assertion, or remove_fd(), ends the process.                        *)
(***************************************************************************)
HandleHungUp(l, c) ==
  /\ At(l, "events")
  /\ c \in active[l] /\ state_[c] = "DISCONNECTING"
  /\ fault' = "closed twice"
  /\ UNCHANGED <<pc, loopVars, pending, poolVars, listening_, turns, connVars, fin,
                 signal>>

(***************************************************************************)
(* do_pending_functors() takes what is queued, and runs it.                *)
(***************************************************************************)
Swap(l) ==
  /\ At(l, "events")
  /\ active[l] = {}
  /\ batch' = [batch EXCEPT ![l] = pending[l]]
  /\ pending' = [pending EXCEPT ![l] = << >>]
  /\ Go(l, "functors")
  /\ UNCHANGED <<quit_, active, poolVars, listening_, turns, connVars, fin, signal,
                 fault>>

Running(l, functor, c) ==
  /\ At(l, "functors")
  /\ batch[l] # << >> /\ Head(batch[l]) = <<functor, c>>
  /\ batch' = [batch EXCEPT ![l] = Tail(@)]
  /\ UNCHANGED <<pc, quit_, active, poolVars, listening_, turns, home, fin, signal>>

connection_established(l, c) ==
  /\ Running(l, "established", c)
  /\ state_' = [state_ EXCEPT ![c] = "CONNECTED"]
  /\ fault' = IF state_[c] = "CONNECTING" THEN fault ELSE "assert"
  /\ UNCHANGED <<pending, connections_>>

shutdown(l, c) ==
  /\ Running(l, "shutdown", c)
  /\ state_' = [state_ EXCEPT ![c] = Shut(@)]
  /\ UNCHANGED <<pending, connections_, fault>>

connection_destroyed(l, c) ==
  /\ Running(l, "destroyed", c)
  /\ IF DestroyCloses(c) THEN handle_close(l, c)
                         ELSE UNCHANGED <<state_, pending, connections_, fault>>

RunRemove(c) ==
  /\ Running(Base, "remove", c)
  /\ remove_connection_in_loop(c)
  /\ UNCHANGED state_

(***************************************************************************)
(* while (!quit_).  An io thread that leaves destroys its loop, and with   *)
(* it the functors it has not run.                                         *)
(***************************************************************************)
EndPass(l) ==
  /\ At(l, "functors")
  /\ batch[l] = << >>
  /\ Go(l, IF ~quit_[l] THEN "wait" ELSE IF l = Base THEN "destroy" ELSE "left")
  /\ pending' = IF quit_[l] /\ l # Base THEN [pending EXCEPT ![l] = << >>] ELSE pending
  /\ UNCHANGED <<loopVars, poolVars, listening_, turns, connVars, fin, signal,
                 fault>>

-----------------------------------------------------------------------------
(* Acceptor::handle_read().                                                *)

BeginAccept ==
  /\ At(Base, "events")
  /\ Listener \in active[Base]
  /\ active' = [active EXCEPT ![Base] = @ \ {Listener}]
  /\ turns' = kMaxAcceptPerLoop
  /\ Go(Base, "accept")
  /\ UNCHANGED <<quit_, batch, pending, poolVars, listening_, connVars, fin, signal,
                 fault>>

Oldest == CHOOSE c \in Backlog : \A d \in Backlog : c <= d
FdsFree == Cardinality(Accepted) < FdLimit

(***************************************************************************)
(* accept4() succeeds and new_connection() runs: the connection goes to    *)
(* the next loop, into connections_, and connection_established() to its   *)
(* loop.  The connection keeps its descriptor: nothing closes it.          *)
(***************************************************************************)
new_connection ==
  /\ At(Base, "accept") /\ turns > 0
  /\ Backlog # {} /\ FdsFree
  /\ turns' = turns - 1
  /\ LET c == Oldest
         l == get_next_loop
     IN  /\ home' = [home EXCEPT ![c] = l]
         /\ connections_' = connections_ \cup {c}
         /\ IF l = Base
              THEN state_' = [state_ EXCEPT ![c] = "CONNECTED"] /\ UNCHANGED pending
              ELSE /\ state_' = [state_ EXCEPT ![c] = "CONNECTING"]
                   /\ pending' = [pending EXCEPT ![l] = Append(@, <<"established", c>>)]
  /\ AdvanceNext
  /\ UNCHANGED <<pc, loopVars, num_threads_, joining, listening_, fin, signal, fault>>

(***************************************************************************)
(* accept4() fails with EMFILE: idle_fd_ is closed, the client accepted on *)
(* the descriptor that frees and closed at once, and idle_fd_ opened again.*)
(***************************************************************************)
BAD_RejectOldest == UNCHANGED state_

RejectOldest == state_' = [state_ EXCEPT ![Oldest] = "rejected"]

AcceptFails ==
  /\ At(Base, "accept") /\ turns > 0
  /\ Backlog # {} /\ ~FdsFree
  /\ RejectOldest
  /\ turns' = 0
  /\ Go(Base, "events")
  /\ UNCHANGED <<loopVars, pending, poolVars, listening_, home, connections_,
                 fin, signal, fault>>

(***************************************************************************)
(* accept4() fails with EAGAIN, or the loop has had its turns.             *)
(***************************************************************************)
EndAccept ==
  /\ At(Base, "accept")
  /\ Backlog = {} \/ turns = 0
  /\ turns' = 0
  /\ Go(Base, "events")
  /\ UNCHANGED <<loopVars, pending, poolVars, listening_, connVars, fin, signal, fault>>

-----------------------------------------------------------------------------
(* The clients and the signal.                                             *)

(***************************************************************************)
(* accept_fd_ listens from listen() on, stopped or not, until it is closed.*)
(***************************************************************************)
ClientConnects(c) ==
  /\ Alive
  /\ listening_ \/ signal # "none"
  /\ pc[Base] # "exited"
  /\ state_[c] = "away"
  /\ c > 1 => state_[c - 1] # "away"
  /\ state_' = [state_ EXCEPT ![c] = "backlog"]
  /\ UNCHANGED <<pc, loopVars, pending, poolVars, listening_, turns, home,
                 connections_, fin, signal, fault>>

ClientCloses(c) ==
  /\ Alive
  /\ c \in Accepted \ fin
  /\ fin' = fin \cup {c}
  /\ UNCHANGED <<pc, loopVars, pending, poolVars, listening_, turns, connVars, signal,
                 fault>>

(***************************************************************************)
(* signal_handler() on the main thread, between two of its steps: stop()   *)
(* and quit(), which does not wake its own loop.  epoll_wait() returns     *)
(* EINTR if the thread was inside it already, and the loop ends.           *)
(***************************************************************************)
signal_handler ==
  /\ Alive
  /\ signal = "none"
  /\ stop
  /\ quit_' = [quit_ EXCEPT ![Base] = TRUE]
  /\ \/ /\ pc[Base] = "started"
        /\ signal' = "early" /\ UNCHANGED pc
     \/ /\ pc[Base] \in {"wait", "events", "accept", "functors"}
        /\ signal' = "busy" /\ UNCHANGED pc
     \/ /\ pc[Base] = "wait"
        /\ signal' = "waiting" /\ Go(Base, "destroy")
  /\ UNCHANGED <<batch, active, poolVars, turns, home, connections_, fin, fault>>

-----------------------------------------------------------------------------
Functor(l, c) == \/ connection_established(l, c)
                 \/ shutdown(l, c)
                 \/ connection_destroyed(l, c)
                 \/ (l = Base /\ RunRemove(c))

LoopStep(l) == \/ Enter(l) \/ Poll(l) \/ Swap(l) \/ EndPass(l)
               \/ \E c \in Clients : HandleClosed(l, c) \/ HandleHungUp(l, c) \/ Functor(l, c)

MainStep == \/ start \/ StartThrows \/ DestroyServer \/ Exit
            \/ BeginAccept \/ new_connection \/ AcceptFails \/ EndAccept
            \/ \E l \in Loops : DestroyThread(l)

Client(c) == ClientConnects(c) \/ ClientCloses(c)

Next == \/ MainStep
        \/ \E l \in Loops : LoopStep(l)
        \/ \E c \in Clients : Client(c)
        \/ signal_handler

Spec == Init /\ [][Next]_vars

(***************************************************************************)
(* Every thread runs.  Clients and the signal come when they like.         *)
(***************************************************************************)
FairSpec == Spec /\ WF_vars(MainStep) /\ \A l \in Loops : WF_vars(LoopStep(l))

-----------------------------------------------------------------------------
(* Properties.                                                             *)

Queued(l, functor, c) ==
  \E q \in {pending[l], batch[l]} : \E i \in DOMAIN q : q[i] = <<functor, c>>

(***************************************************************************)
(* Until the server is destroyed connections_ holds exactly the accepted   *)
(* connections that are not closed or whose removal is on its way to the   *)
(* base loop, which then finds them: no connection is forgotten while      *)
(* open, kept when closed, or removed twice (new_connection, handle_close, *)
(* remove_connection_in_loop).                                             *)
(***************************************************************************)
MapExact ==
  pc[Base] \notin {"join", "exited"} =>
    /\ \A c \in Clients :
         c \in connections_ <=> /\ c \in Accepted
                                /\ \/ state_[c] # "DISCONNECTED"
                                   \/ Queued(Base, "remove", c)
    /\ fault # "assert"

(***************************************************************************)
(* Unless the signal came in the middle of a pass, ~TcpServer() does not   *)
(* erase from connections_ while it runs over it: without io threads it    *)
(* calls connection_destroyed() itself, and stop() has left no connection  *)
(* CONNECTED (stop, ~TcpServer, connection_destroyed).                     *)
(***************************************************************************)
IterationSafe == fault = "iterator" => signal = "busy"

(***************************************************************************)
(* A signal that the running loop gets, or a start() that fails, ends the  *)
(* process with every io thread joined, if the io loops had all been       *)
(* entered before (quit, EndPass, ~EventLoopThread).                       *)
(***************************************************************************)
Stopping == /\ signal \in {"waiting", "busy"} \/ pc[Base] \in {"destroy", "join"}
            /\ joining = 0
            /\ \A l \in IoLoops : pc[l] # "published"

ShutdownCompletes == Stopping ~> (pc[Base] = "exited" \/ ~Alive)

(***************************************************************************)
(* Every client is accepted, or turned away through the reserved           *)
(* descriptor, until the server is stopped: the sockets that stay open     *)
(* never block the backlog (handle_read).                                  *)
(***************************************************************************)
BacklogDrains ==
  \A c \in Clients :
    (state_[c] = "backlog") ~> (state_[c] # "backlog" \/ signal # "none" \/ ~Alive)
=============================================================================
