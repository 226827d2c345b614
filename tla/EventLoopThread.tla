-------------------------- MODULE EventLoopThread ---------------------------
(***************************************************************************)
(* EventLoopThread (net/event_loop_thread_pool.cpp): a thread that builds  *)
(* an EventLoop on its stack, publishes its address under mutex_ and runs  *)
(* it; and the owner that starts the thread with start_loop() and ends it  *)
(* in ~EventLoopThread().  The EventLoop is the one of module EventLoop,   *)
(* the owner being its only other thread.                                  *)
(***************************************************************************)
EXTENDS EventLoop

CONSTANT Owner    \* the thread that owns the EventLoopThread object

ASSUME OwnerAssumption == Threads = {Owner}

VARIABLES
  owner,    \* where the owner is in start_loop() or ~EventLoopThread()
  worker,   \* where the thread is in thread_func()
  loop_     \* is the published pointer non-null?

threadVars == <<owner, worker, loop_>>
allVars == <<vars, threadVars>>

ThreadInit ==
  /\ Init
  /\ owner = "idle"
  /\ worker = "none"
  /\ loop_ = FALSE

-----------------------------------------------------------------------------
(* The owner.                                                              *)

(***************************************************************************)
(* start_loop(): the thread is created, then the owner waits for loop_     *)
(* under mutex_, in cond_.wait() while it is null.                         *)
(***************************************************************************)
start_loop ==
  /\ owner = "idle"
  /\ owner' = "wait"
  /\ worker' = "construct"
  /\ UNCHANGED <<vars, loop_>>

start_loop_wait ==
  /\ owner = "wait"
  /\ owner' = IF loop_ THEN "running" ELSE "blocked"
  /\ UNCHANGED <<vars, worker, loop_>>

(***************************************************************************)
(* cond_.wait() may return without a notification.                         *)
(***************************************************************************)
SpuriousWakeup ==
  /\ owner = "blocked"
  /\ owner' = "wait"
  /\ UNCHANGED <<vars, worker, loop_>>

(***************************************************************************)
(* ~EventLoopThread() reads loop_ without mutex_.  When it is null the     *)
(* destructor of the still joinable std::thread calls std::terminate().    *)
(***************************************************************************)
DestroyEventLoopThread ==
  /\ owner = "running"
  /\ owner' = IF loop_ THEN "quit" ELSE "terminated"
  /\ UNCHANGED <<vars, worker, loop_>>

(***************************************************************************)
(* loop_->quit(): first the store, then wake_up(), both through the        *)
(* pointer read before.  The thread may see the store and leave loop()     *)
(* before wake_up(), which then reads a destroyed EventLoop: the write     *)
(* goes nowhere, or the process dies.                                      *)
(***************************************************************************)
BAD_OwnerQuit ==
  /\ owner = "quit"
  /\ quit_' = TRUE
  /\ owner' = "join"
  /\ UNCHANGED <<pc, pending_functors_, functors, wakeup_fd_, active_events,
                 caller, ran, worker, loop_>>

OwnerQuit ==
  /\ owner = "quit"
  /\ quit(Owner)
  /\ owner' = "wake"
  /\ UNCHANGED <<worker, loop_>>

OwnerWake ==
  /\ owner = "wake"
  /\ wake_up(Owner)
  /\ owner' \in {"join"} \cup IF worker = "ended" THEN {"terminated"} ELSE {}
  /\ UNCHANGED <<worker, loop_>>

OwnerJoin ==
  /\ owner = "join"
  /\ worker = "ended"
  /\ owner' = "destroyed"
  /\ UNCHANGED <<vars, worker, loop_>>

-----------------------------------------------------------------------------
(* The thread, in thread_func().                                           *)

(***************************************************************************)
(* The EventLoop is constructed and callback_ has run.                     *)
(***************************************************************************)
ConstructLoop ==
  /\ worker = "construct"
  /\ worker' = "publish"
  /\ UNCHANGED <<vars, owner, loop_>>

(***************************************************************************)
(* loop_ = &loop and notify_one(), under mutex_.                           *)
(***************************************************************************)
BAD_PublishLoop ==
  /\ worker = "publish"
  /\ worker' = "loop"
  /\ loop_' = TRUE
  /\ UNCHANGED <<vars, owner>>

PublishLoop ==
  /\ worker = "publish"
  /\ worker' = "loop"
  /\ loop_' = TRUE
  /\ owner' = IF owner = "blocked" THEN "wait" ELSE owner
  /\ UNCHANGED <<vars>>

(***************************************************************************)
(* loop.loop().  No callback of the thread calls quit(): only the owner    *)
(* stops an io loop.  Of the errors of epoll_wait() only EINTR is left:    *)
(* the others need an invalid argument.                                    *)
(***************************************************************************)
RunLoop ==
  /\ worker = "loop"
  /\ \/ LoopProgress
     \/ \E fired \in SUBSET Descriptors : PollEvents(fired)
     \/ PollTimeout
     \/ PollError("EINTR")
     \/ \E f \in Functors : LoopQueue(f)
  /\ UNCHANGED threadVars

(***************************************************************************)
(* loop() has returned: loop_ = nullptr under mutex_, then the EventLoop   *)
(* goes out of scope.                                                      *)
(***************************************************************************)
LeaveLoop ==
  /\ worker = "loop"
  /\ pc = "done"
  /\ loop_' = FALSE
  /\ worker' = "leaving"
  /\ UNCHANGED <<vars, owner>>

EndThread ==
  /\ worker = "leaving"
  /\ worker' = "ended"
  /\ UNCHANGED <<vars, owner, loop_>>

-----------------------------------------------------------------------------
OwnerStep == start_loop_wait \/ OwnerQuit \/ OwnerWake \/ OwnerJoin
WorkerStep == ConstructLoop \/ PublishLoop \/ LeaveLoop \/ EndThread

ThreadNext == \/ start_loop
              \/ SpuriousWakeup
              \/ DestroyEventLoopThread
              \/ OwnerStep
              \/ WorkerStep
              \/ RunLoop

(***************************************************************************)
(* Both threads keep running.  Nobody is obliged to call start_loop() or   *)
(* to destroy the object, and no descriptor is obliged to become ready.    *)
(***************************************************************************)
ThreadSpec ==
  /\ ThreadInit
  /\ [][ThreadNext]_allVars
  /\ WF_allVars(OwnerStep)
  /\ WF_allVars(WorkerStep)
  /\ WF_allVars(worker = "loop" /\ LoopProgress /\ UNCHANGED threadVars)
  /\ SF_allVars(worker = "loop" /\ WakeupPoll /\ UNCHANGED threadVars)

-----------------------------------------------------------------------------
(* Properties.                                                             *)

(***************************************************************************)
(* start_loop() returns: a wait that begins around the notification of     *)
(* thread_func() does not miss it, whatever wakes up spuriously.           *)
(***************************************************************************)
StartLoopReturns == (owner = "wait") ~> (owner = "running")

(***************************************************************************)
(* ~EventLoopThread() does not hang once the thread has entered loop(),    *)
(* which until then forgets the quit: it gets through quit(), wake_up()    *)
(* and join(), if the process survives the read described at OwnerQuit.    *)
(***************************************************************************)
DestructorReturns ==
  (owner = "quit" /\ pc # "idle") ~> (owner \in {"destroyed", "terminated"})
=============================================================================
