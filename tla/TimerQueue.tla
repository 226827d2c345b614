----------------------------- MODULE TimerQueue -----------------------------
(***************************************************************************)
(* TimerQueue (core/timer_queue.cpp) inside its EventLoop's pass: poll()   *)
(* with get_next_timeout(), process_expired_timers(), then events, where   *)
(* the timerfd may call process_expired_timers() once more.  All calls are *)
(* on the loop thread; user code adds and cancels timers from any callback,*)
(* a timer's own included.                                                 *)
(*                                                                         *)
(* Time is counted in ticks finer than the millisecond that poll() takes.  *)
(***************************************************************************)
EXTENDS Integers, FiniteSets

CONSTANTS MaxTimers,  \* bound: Timer objects made in all
          Delays,     \* the delays callers of run_after() ask for, in ticks
          Intervals,  \* the intervals callers of run_every() ask for
          TicksPerMs,
          MaxTime     \* bound: the clock stops here

ASSUME TimeAssumption ==
  /\ Delays \subseteq Nat /\ Intervals \subseteq Nat
  /\ TicksPerMs \in Nat \ {0} /\ MaxTime \in Nat /\ MaxTimers \in Nat

Timers == 1..MaxTimers

(***************************************************************************)
(* A Timer: it repeats when its interval is positive.                      *)
(***************************************************************************)
NewTimer(when, interval) == [when |-> when, interval |-> interval]
repeat(t) == t.interval > 0
restart(t, at) == [t EXCEPT !.when = at + t.interval]
Forever == -1

VARIABLES
  now,
  pc,              \* "poll", "woken", "running" a batch, "idle", "destroyed"
  poll_until,      \* when the poll() in progress times out, or Forever
  timerfd,         \* may the timerfd be reported in this pass?
  created,         \* Timer::s_num_created_
  timer,           \* expiration_ and interval_ of each Timer made so far
  heap,            \* the Timer objects that exist
  timers_,
  active_timers_,
  expired,         \* entries of the batch being run
  now_time,        \* when that batch was begun
  left,            \* those whose callback has not been called yet
  fired,           \* history: how often each timer's callback was called
  dropped          \* history: timers cancel_timer() took out of the queue

vars == <<now, pc, poll_until, timerfd, created, timer, heap, timers_,
          active_timers_, expired, now_time, left, fired, dropped>>

queueVars == <<created, timer, heap, timers_, active_timers_>>
batchVars == <<expired, now_time, left>>
history == <<fired, dropped>>

Ids(entries) == {e.id : e \in entries}
Earliest(entries) == CHOOSE e \in entries : \A f \in entries : e.when <= f.when

Init ==
  /\ now = 0 /\ pc = "idle" /\ poll_until = 0 /\ timerfd = FALSE
  /\ created = 0 /\ timer = << >>
  /\ heap = {} /\ timers_ = {} /\ active_timers_ = {}
  /\ expired = {} /\ now_time = 0 /\ left = {}
  /\ fired = [id \in Timers |-> 0] /\ dropped = {}

Tick ==
  /\ now < MaxTime
  /\ now' = now + 1
  /\ UNCHANGED <<pc, poll_until, timerfd, queueVars, batchVars, history>>

-----------------------------------------------------------------------------
(* Calls of user code.                                                     *)

(***************************************************************************)
(* User code runs between poll() and the next one, and inside the callback *)
(* of the timer last called.                                               *)
(***************************************************************************)
InUserCode == pc = "idle" \/ (pc = "running" /\ left # expired)

(***************************************************************************)
(* add_timer(): the Timer is made and insert() puts it into both sets.     *)
(***************************************************************************)
add_timer(delay, interval) ==
  /\ InUserCode
  /\ created < MaxTimers
  /\ LET id == created + 1
         when == now + delay
     IN  /\ created' = id
         /\ timer' = [i \in 1..id |-> IF i = id THEN NewTimer(when, interval) ELSE timer[i]]
         /\ heap' = heap \cup {id}
         /\ timers_' = timers_ \cup {[when |-> when, id |-> id]}
         /\ active_timers_' = active_timers_ \cup {id}
  /\ UNCHANGED <<now, pc, poll_until, timerfd, batchVars, history>>

(***************************************************************************)
(* EventLoop's calls; an interval of 0 is a timer that does not repeat.    *)
(***************************************************************************)
run_after(delay) == add_timer(delay, 0)
run_every(interval) == add_timer(interval, interval)

(***************************************************************************)
(* cancel_timer(): a timer in active_timers_ leaves both sets and is       *)
(* deleted; for any other the call does nothing.                           *)
(***************************************************************************)
BAD_cancel_timer(id) ==
  /\ InUserCode
  /\ id <= created
  /\ dropped' = dropped \cup ({id} \cap active_timers_)
  /\ active_timers_' = active_timers_ \ {id}
  /\ heap' = heap \ {id}
  /\ timers_' = {e \in timers_ : e.id # id \/ e.when # timer[id].when + 1}
  /\ UNCHANGED <<now, pc, poll_until, timerfd, created, timer, batchVars, fired>>

cancel_timer(id) ==
  /\ InUserCode
  /\ id <= created
  /\ dropped' = dropped \cup ({id} \cap active_timers_)
  /\ IF id \in active_timers_
       THEN /\ active_timers_' = active_timers_ \ {id}
            /\ timers_' = timers_ \ {[when |-> timer[id].when, id |-> id]}
            /\ heap' = heap \ {id}
       ELSE UNCHANGED <<active_timers_, timers_, heap>>
  /\ UNCHANGED <<now, pc, poll_until, timerfd, created, timer, batchVars, fired>>

-----------------------------------------------------------------------------
(* The loop's pass.                                                        *)

(***************************************************************************)
(* get_next_timeout(): whole milliseconds, rounded down.                   *)
(***************************************************************************)
BAD_get_next_timeout ==
  IF timers_ = {} THEN Forever
  ELSE LET next == Earliest(timers_).when
       IN  IF next <= now THEN 0
           ELSE ((next - now + TicksPerMs - 1) \div TicksPerMs) * TicksPerMs

BAD_forever_get_next_timeout == Forever

get_next_timeout ==
  IF timers_ = {} THEN Forever
  ELSE LET next == Earliest(timers_).when
       IN  IF next <= now THEN 0 ELSE ((next - now) \div TicksPerMs) * TicksPerMs

EnterPoll ==
  /\ pc = "idle"
  /\ pc' = "poll"
  /\ poll_until' = IF get_next_timeout = Forever THEN Forever
                   ELSE now + get_next_timeout
  /\ UNCHANGED <<now, timerfd, queueVars, batchVars, history>>

(***************************************************************************)
(* poll() times out, or some descriptor is ready.  The timerfd is set to   *)
(* an absolute time taken as a delay, so it is ready at some other time.   *)
(***************************************************************************)
Woken ==
  /\ pc' = "woken"
  /\ timerfd' = TRUE
  /\ UNCHANGED <<now, poll_until, queueVars, batchVars, history>>

PollTimeout == pc = "poll" /\ poll_until # Forever /\ poll_until <= now /\ Woken
PollEvent == pc = "poll" /\ Woken

(***************************************************************************)
(* process_expired_timers(): get_expired() takes what is due out of both   *)
(* sets.                                                                   *)
(***************************************************************************)
BAD_early_get_expired ==
  LET due == {e \in timers_ : e.when <= now + 1}
  IN  /\ expired' = due /\ left' = due
      /\ timers_' = timers_ \ due
      /\ active_timers_' = active_timers_ \ Ids(due)

get_expired ==
  LET due == {e \in timers_ : e.when <= now}
  IN  /\ expired' = due /\ left' = due
      /\ timers_' = timers_ \ due
      /\ active_timers_' = active_timers_ \ Ids(due)

process_expired_timers ==
  /\ pc = "woken"
  /\ get_expired
  /\ pc' = "running"
  /\ now_time' = now
  /\ UNCHANGED <<now, poll_until, timerfd, created, timer, heap, history>>

(***************************************************************************)
(* handle_timer_fd(): the timerfd's event callback, once in a pass.        *)
(***************************************************************************)
handle_timer_fd ==
  /\ pc = "idle" /\ timerfd
  /\ timerfd' = FALSE
  /\ get_expired
  /\ pc' = "running"
  /\ now_time' = now
  /\ UNCHANGED <<now, poll_until, created, timer, heap, history>>

(***************************************************************************)
(* The callbacks in the order of the set, that is of expiration.           *)
(***************************************************************************)
RunTimer(e) ==
  /\ pc = "running"
  /\ e \in left
  /\ \A f \in left : e.when <= f.when
  /\ left' = left \ {e}
  /\ fired' = [fired EXCEPT ![e.id] = @ + 1]
  /\ UNCHANGED <<now, pc, poll_until, timerfd, queueVars, expired,
                 now_time, dropped>>

(***************************************************************************)
(* reset(): repeating timers are restarted from the time the batch began   *)
(* and inserted again, the others deleted.                                 *)
(***************************************************************************)
BAD_leak_reset ==
  /\ pc = "running" /\ left = {}
  /\ pc' = "idle"
  /\ expired' = {}
  /\ UNCHANGED <<now, poll_until, timerfd, queueVars, now_time, left,
                 history>>

reset ==
  /\ pc = "running" /\ left = {}
  /\ pc' = "idle"
  /\ LET repeating == {id \in Ids(expired) : repeat(timer[id])}
     IN  /\ timer' = [id \in 1..created |-> IF id \in repeating
                        THEN restart(timer[id], now_time) ELSE timer[id]]
         /\ timers_' = timers_ \cup {[when |-> timer'[id].when, id |-> id] : id \in repeating}
         /\ active_timers_' = active_timers_ \cup repeating
         /\ heap' = heap \ (Ids(expired) \ repeating)
  /\ expired' = {}
  /\ UNCHANGED <<now, poll_until, timerfd, created, now_time, left,
                 history>>

(***************************************************************************)
(* ~TimerQueue() deletes the timers that are still in the queue.           *)
(***************************************************************************)
DestroyTimerQueue ==
  /\ pc = "idle"
  /\ pc' = "destroyed"
  /\ heap' = heap \ Ids(timers_)
  /\ UNCHANGED <<now, poll_until, timerfd, created, timer, timers_,
                 active_timers_, batchVars, history>>

-----------------------------------------------------------------------------
LoopStep == \/ EnterPoll
            \/ PollTimeout
            \/ process_expired_timers
            \/ \E e \in left : RunTimer(e)
            \/ reset

Next == \/ Tick
        \/ LoopStep
        \/ PollEvent
        \/ handle_timer_fd
        \/ \E delay \in Delays : run_after(delay)
        \/ \E interval \in Intervals : run_every(interval)
        \/ \E id \in Timers : cancel_timer(id)
        \/ DestroyTimerQueue

Spec == Init /\ [][Next]_vars

(***************************************************************************)
(* Time passes, and the loop goes round: callbacks return and poll() comes *)
(* back when its timeout is over.  Nothing else needs to become ready.     *)
(***************************************************************************)
FairSpec == Spec /\ WF_vars(Tick) /\ WF_vars(LoopStep)

-----------------------------------------------------------------------------
(* Properties.                                                             *)

(***************************************************************************)
(* Outside the batch the two sets describe the same timers, under the      *)
(* expiration each timer has, which is what lets cancel_in_loop() find in  *)
(* one what it found in the other (insert, get_expired, reset).            *)
(***************************************************************************)
SetsAgree ==
  pc # "destroyed" =>
    /\ Ids(timers_) = active_timers_
    /\ \A e \in timers_ : e.when = timer[e.id].when
    /\ Cardinality(timers_) = Cardinality(active_timers_)

(***************************************************************************)
(* No entry points to a deleted Timer, also when callbacks cancel timers   *)
(* of the batch they are in; and no Timer is lost without being deleted    *)
(* (get_expired, cancel_in_loop, reset, ~TimerQueue).                      *)
(***************************************************************************)
HeapExact ==
  heap = IF pc = "destroyed" THEN {} ELSE Ids(timers_) \cup Ids(expired)

(***************************************************************************)
(* No callback runs before its timer's expiration, and a timer that does   *)
(* not repeat runs at most once (get_expired, reset).                      *)
(***************************************************************************)
NeverEarlyNorTwice ==
  /\ \A e \in expired : e.when <= now
  /\ \A id \in 1..created : timer[id].interval = 0 => fired[id] <= 1

(***************************************************************************)
(* poll() never sleeps past the next expiration (get_next_timeout, and     *)
(* nobody adds a timer during poll()).                                     *)
(***************************************************************************)
NoOversleep ==
  pc = "poll" /\ timers_ # {}
    => poll_until # Forever /\ poll_until <= (IF Earliest(timers_).when < now
                                              THEN now ELSE Earliest(timers_).when)

(***************************************************************************)
(* A timer that was cancelled while it waited in the queue does not run    *)
(* again (cancel_in_loop).  One that is cancelled from a callback of the   *)
(* batch it is in does.                                                    *)
(***************************************************************************)
DroppedNeverFires ==
  [][\A id \in dropped : fired'[id] = fired[id]]_vars

(***************************************************************************)
(* A timer whose time comes leaves the queue, by running or by being       *)
(* cancelled, although nothing but the poll timeout wakes the loop         *)
(* (get_next_timeout, process_expired_timers).                             *)
(***************************************************************************)
DueTimerLeaves ==
  \A id \in Timers : \A when \in 0..MaxTime :
    ([when |-> when, id |-> id] \in timers_)
      ~> ([when |-> when, id |-> id] \notin timers_ \/ pc = "destroyed")
=============================================================================
