----------------------------- MODULE EventLoop ------------------------------
(***************************************************************************)
(* EventLoop (core/event_loop.cpp): one thread runs loop(); other threads  *)
(* hand it functors with queue_in_loop() / run_in_loop() and stop it with  *)
(* quit().  The wake-up eventfd is all that gets the loop thread out of    *)
(* epoll_wait() for them, so the question is whether a hand-over can be    *)
(* left behind by a loop that sleeps.                                      *)
(***************************************************************************)
EXTENDS Naturals, Sequences

CONSTANTS Functors,   \* the functors that may be handed over, one per call
          Threads,    \* the threads other than the loop's own
          WakeMax     \* largest value an eventfd counter can hold

ASSUME WakeMaxAssumption == WakeMax \in Nat \ {0}

VARIABLES
  pc,                 \* where the loop thread is in loop()
  quit_,
  pending_functors_,
  functors,           \* the local batch of do_pending_functors()
  wakeup_fd_,         \* the eventfd's counter
  active_events,      \* ready descriptors the last poll() returned
  caller,             \* caller[t] = "wake": t has published, wake_up() is next
  ran                 \* history: functors whose call has returned

vars == <<pc, quit_, pending_functors_, functors, wakeup_fd_, active_events,
          caller, ran>>

(***************************************************************************)
(* The wake-up descriptor, and one that stands for every other one.        *)
(***************************************************************************)
Descriptors == {"wakeup", "io"}

ControlTypeOK ==
  /\ pc \in {"idle", "check", "poll", "timers", "events", "swap", "run", "done"}
  /\ quit_ \in BOOLEAN
  /\ active_events \in SUBSET Descriptors
  /\ caller \in [Threads -> {"idle", "wake"}]

DataTypeOK ==
  /\ pending_functors_ \in Seq(Functors)
  /\ functors \in Seq(Functors)
  /\ wakeup_fd_ \in 0..WakeMax
  /\ ran \in Seq(Functors)

(***************************************************************************)
(* The types of the loop's state; the eventfd counter never exceeds its    *)
(* capacity (wake_up).                                                     *)
(***************************************************************************)
TypeOK == ControlTypeOK /\ DataTypeOK

(***************************************************************************)
(* f is a new call.                                                        *)
(***************************************************************************)
Fresh(f) == /\ \A i \in DOMAIN pending_functors_ : pending_functors_[i] # f
            /\ \A i \in DOMAIN functors : functors[i] # f
            /\ \A i \in DOMAIN ran : ran[i] # f

Init ==
  /\ pc = "idle"
  /\ quit_ = FALSE
  /\ pending_functors_ = << >>
  /\ functors = << >>
  /\ wakeup_fd_ = 0
  /\ active_events = {}
  /\ caller = [t \in Threads |-> "idle"]
  /\ ran = << >>

-----------------------------------------------------------------------------
(***************************************************************************)
(* wake_up(): a write to the non-blocking eventfd adds one; when the       *)
(* counter is full the write fails and its result is ignored.              *)
(***************************************************************************)
Written(w) == IF w < WakeMax THEN w + 1 ELSE w

-----------------------------------------------------------------------------
(* The calls of the other threads.  They publish, then write the eventfd.  *)

(***************************************************************************)
(* queue_in_loop(), and run_in_loop() off the loop thread: the push under  *)
(* mutex_.                                                                 *)
(***************************************************************************)
BAD_queue_in_loop(t, f) ==
  /\ caller[t] = "idle"
  /\ Fresh(f)
  /\ pending_functors_' = Append(pending_functors_, f)
  /\ caller' = IF pc = "run" THEN caller ELSE [caller EXCEPT ![t] = "wake"]
  /\ UNCHANGED <<pc, quit_, functors, wakeup_fd_, active_events, ran>>

queue_in_loop(t, f) ==
  /\ caller[t] = "idle"
  /\ Fresh(f)
  /\ pending_functors_' = Append(pending_functors_, f)
  /\ caller' = [caller EXCEPT ![t] = "wake"]
  /\ UNCHANGED <<pc, quit_, functors, wakeup_fd_, active_events, ran>>

(***************************************************************************)
(* quit() off the loop thread: the store to quit_.                         *)
(***************************************************************************)
BAD_quit(t) ==
  /\ caller[t] = "idle"
  /\ quit_' = TRUE
  /\ UNCHANGED <<pc, pending_functors_, functors, wakeup_fd_, active_events,
                 caller, ran>>

quit(t) ==
  /\ caller[t] = "idle"
  /\ quit_' = TRUE
  /\ caller' = [caller EXCEPT ![t] = "wake"]
  /\ UNCHANGED <<pc, pending_functors_, functors, wakeup_fd_, active_events, ran>>

(***************************************************************************)
(* wake_up(), the second half of both calls.                               *)
(***************************************************************************)
wake_up(t) ==
  /\ caller[t] = "wake"
  /\ wakeup_fd_' = Written(wakeup_fd_)
  /\ caller' = [caller EXCEPT ![t] = "idle"]
  /\ UNCHANGED <<pc, quit_, pending_functors_, functors, active_events, ran>>

-----------------------------------------------------------------------------
(* The loop thread.                                                        *)

(***************************************************************************)
(* Entry of loop(): quit_ is reset, whatever was stored in it before.      *)
(***************************************************************************)
loop ==
  /\ pc = "idle"
  /\ pc' = "check"
  /\ quit_' = FALSE
  /\ UNCHANGED <<pending_functors_, functors, wakeup_fd_, active_events,
                 caller, ran>>

(***************************************************************************)
(* while (!quit_): into poll(), or out of loop().                          *)
(***************************************************************************)
check_quit ==
  /\ pc = "check"
  /\ pc' = IF quit_ THEN "done" ELSE "poll"
  /\ active_events' = {}
  /\ UNCHANGED <<quit_, pending_functors_, functors, wakeup_fd_, caller, ran>>

(***************************************************************************)
(* poll() returns descriptors that are ready.  The eventfd is ready while  *)
(* its counter is positive; it may still be left out of one batch, because *)
(* epoll_wait() returns at most events_.size() descriptors.                *)
(***************************************************************************)
PollEvents(fired) ==
  /\ pc = "poll"
  /\ fired # {}
  /\ "wakeup" \in fired => wakeup_fd_ > 0
  /\ active_events' = fired
  /\ pc' = "timers"
  /\ UNCHANGED <<quit_, pending_functors_, functors, wakeup_fd_, caller, ran>>

(***************************************************************************)
(* poll() runs into the timer queue's timeout: nothing is ready.           *)
(***************************************************************************)
PollTimeout ==
  /\ pc = "poll"
  /\ wakeup_fd_ = 0
  /\ pc' = "timers"
  /\ UNCHANGED <<quit_, pending_functors_, functors, wakeup_fd_,
                 active_events, caller, ran>>

(***************************************************************************)
(* poll() fails: EINTR continues with the while test, any other errno      *)
(* breaks out of it.                                                       *)
(***************************************************************************)
PollError(errno) ==
  /\ pc = "poll"
  /\ pc' = IF errno = "EINTR" THEN "check" ELSE "done"
  /\ UNCHANGED <<quit_, pending_functors_, functors, wakeup_fd_,
                 active_events, caller, ran>>

(***************************************************************************)
(* process_expired_timers() returns; its callbacks ran at "timers".        *)
(***************************************************************************)
process_expired_timers ==
  /\ pc = "timers"
  /\ pc' = "events"
  /\ UNCHANGED <<quit_, pending_functors_, functors, wakeup_fd_,
                 active_events, caller, ran>>

(***************************************************************************)
(* The callback of the wake-up descriptor empties the counter.             *)
(***************************************************************************)
handle_wake_up ==
  /\ pc = "events"
  /\ "wakeup" \in active_events
  /\ wakeup_fd_' = 0
  /\ active_events' = active_events \ {"wakeup"}
  /\ UNCHANGED <<pc, quit_, pending_functors_, functors, caller, ran>>

(***************************************************************************)
(* Any other event callback returns; what it calls happens before, below.  *)
(***************************************************************************)
IoCallback ==
  /\ pc = "events"
  /\ "io" \in active_events
  /\ active_events' = active_events \ {"io"}
  /\ UNCHANGED <<pc, quit_, pending_functors_, functors, wakeup_fd_, caller, ran>>

(***************************************************************************)
(* The end of the event list: on to do_pending_functors().                 *)
(***************************************************************************)
EventsDone ==
  /\ pc = "events"
  /\ active_events = {}
  /\ pc' = "swap"
  /\ UNCHANGED <<quit_, pending_functors_, functors, wakeup_fd_,
                 active_events, caller, ran>>

(***************************************************************************)
(* do_pending_functors(): the swap under mutex_, then the batch.           *)
(***************************************************************************)
BAD_do_pending_functors ==
  /\ pc = "swap"
  /\ pc' = "run"
  /\ functors' = pending_functors_
  /\ UNCHANGED <<quit_, pending_functors_, wakeup_fd_, active_events, caller, ran>>

do_pending_functors ==
  /\ pc = "swap"
  /\ pc' = "run"
  /\ functors' = pending_functors_
  /\ pending_functors_' = << >>
  /\ UNCHANGED <<quit_, wakeup_fd_, active_events, caller, ran>>

RunFunctor ==
  /\ pc = "run"
  /\ functors # << >>
  /\ ran' = Append(ran, Head(functors))
  /\ functors' = Tail(functors)
  /\ UNCHANGED <<pc, quit_, pending_functors_, wakeup_fd_, active_events, caller>>

BatchDone ==
  /\ pc = "run"
  /\ functors = << >>
  /\ pc' = "check"
  /\ UNCHANGED <<quit_, pending_functors_, functors, wakeup_fd_,
                 active_events, caller, ran>>

-----------------------------------------------------------------------------
(* What user code may call while it runs on the loop thread.               *)

(***************************************************************************)
(* The loop thread is inside a timer, an event callback or a functor.      *)
(***************************************************************************)
InCallback == \/ pc = "timers"
              \/ pc = "events" /\ "io" \in active_events
              \/ pc = "run" /\ functors # << >>

(***************************************************************************)
(* queue_in_loop() on the loop thread: push and write.  No step of the     *)
(* loop thread can come between the two.                                   *)
(***************************************************************************)
LoopQueue(f) ==
  /\ InCallback
  /\ Fresh(f)
  /\ pending_functors_' = Append(pending_functors_, f)
  /\ wakeup_fd_' = Written(wakeup_fd_)
  /\ UNCHANGED <<pc, quit_, functors, active_events, caller, ran>>

(***************************************************************************)
(* run_in_loop() on the loop thread runs the functor at once.              *)
(***************************************************************************)
run_in_loop(f) ==
  /\ InCallback
  /\ Fresh(f)
  /\ ran' = Append(ran, f)
  /\ UNCHANGED <<pc, quit_, pending_functors_, functors, wakeup_fd_,
                 active_events, caller>>

(***************************************************************************)
(* quit() on the loop thread stores quit_ and does not write the eventfd.  *)
(***************************************************************************)
LoopQuit ==
  /\ InCallback
  /\ quit_' = TRUE
  /\ UNCHANGED <<pc, pending_functors_, functors, wakeup_fd_, active_events,
                 caller, ran>>

-----------------------------------------------------------------------------
LoopProgress == \/ loop
                \/ check_quit
                \/ process_expired_timers
                \/ handle_wake_up
                \/ IoCallback
                \/ EventsDone
                \/ do_pending_functors
                \/ RunFunctor
                \/ BatchDone

Poll == \/ \E fired \in SUBSET Descriptors : PollEvents(fired)
        \/ PollTimeout
        \/ \E errno \in {"EINTR", "other"} : PollError(errno)

CallbackCall == \/ \E f \in Functors : LoopQueue(f) \/ run_in_loop(f)
                \/ LoopQuit

ThreadCall(t) == \/ \E f \in Functors : queue_in_loop(t, f)
                 \/ quit(t)
                 \/ wake_up(t)

Next == \/ LoopProgress
        \/ Poll
        \/ CallbackCall
        \/ \E t \in Threads : ThreadCall(t)

Spec == Init /\ [][Next]_vars

(***************************************************************************)
(* The loop thread and a thread inside a call keep running, and callbacks  *)
(* return.  epoll_wait() hands out ready descriptors before it looks at    *)
(* signals, so with the eventfd ready EINTR does not win forever.  Nothing *)
(* is assumed of descriptors other than the eventfd, of timeouts, or of    *)
(* anybody making a call.                                                  *)
(***************************************************************************)
WakeupPoll == wakeup_fd_ > 0 /\ \E fired \in SUBSET Descriptors : PollEvents(fired)

Fairness == /\ WF_vars(LoopProgress)
            /\ SF_vars(WakeupPoll)
            /\ \A t \in Threads : WF_vars(wake_up(t))

FairSpec == Spec /\ Fairness

-----------------------------------------------------------------------------
(* Properties.                                                             *)

Waking == \E t \in Threads : caller[t] = "wake"

(***************************************************************************)
(* The loop never sleeps on work: while it is in poll() with a functor     *)
(* queued or with quit_ stored, the eventfd is ready or some thread is     *)
(* about to write it (queue_in_loop, quit, handle_wake_up and the order    *)
(* poll - handle_wake_up - swap of loop()).                                *)
(***************************************************************************)
NoLostWakeup ==
  pc = "poll" /\ (pending_functors_ # << >> \/ quit_) => wakeup_fd_ > 0 \/ Waking

(***************************************************************************)
(* The queue the callers see: what is left of the batch, then what is      *)
(* pending.                                                                *)
(***************************************************************************)
FQ == INSTANCE FunctorQueue WITH queue <- functors \o pending_functors_

(***************************************************************************)
(* queue_in_loop() / do_pending_functors() implement the abstract queue:   *)
(* each functor runs once, in the order of the pushes, across any number   *)
(* of batches and whatever callbacks queue meanwhile.                      *)
(***************************************************************************)
ImplementsFunctorQueue == FQ!Spec

(***************************************************************************)
(* A queued functor runs unless the loop stops (queue_in_loop, wake_up,    *)
(* do_pending_functors), although nothing else ever becomes ready.         *)
(***************************************************************************)
QueuedFunctorRuns ==
  \A f \in Functors :
    (\E i \in DOMAIN pending_functors_ : pending_functors_[i] = f)
      ~> (pc = "done" \/ \E i \in DOMAIN ran : ran[i] = f)

(***************************************************************************)
(* quit() stops a loop that has started, from any thread and from any      *)
(* callback (quit, wake_up, the while test of loop()).                     *)
(***************************************************************************)
QuitStopsLoop == (quit_ /\ pc # "idle") ~> (pc = "done")
=============================================================================
