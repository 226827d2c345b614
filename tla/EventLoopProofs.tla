-------------------------- MODULE EventLoopProofs ---------------------------
(***************************************************************************)
(* Proofs about EventLoop, for every set of functors and of threads and    *)
(* every capacity of the eventfd counter.                                  *)
(***************************************************************************)
EXTENDS EventLoop, SequenceTheorems, TLAPS

(***************************************************************************)
(* A write of wake_up() leaves the counter positive and in range, also     *)
(* when it fails because the counter is full.                              *)
(***************************************************************************)
LEMMA WrittenPositive ==
  ASSUME NEW w \in 0..WakeMax
  PROVE  Written(w) \in 0..WakeMax /\ Written(w) > 0
  BY WakeMaxAssumption DEF Written

(***************************************************************************)
(* Every operation of event_loop.cpp keeps the control state well typed.   *)
(***************************************************************************)
LEMMA ControlStep == ControlTypeOK /\ [Next]_vars => ControlTypeOK'
<1> SUFFICES ASSUME ControlTypeOK, [Next]_vars PROVE ControlTypeOK'
  OBVIOUS
<1> USE DEF ControlTypeOK, Descriptors
<1>1. CASE LoopProgress
  BY <1>1 DEF LoopProgress, loop, check_quit, process_expired_timers,
     handle_wake_up, IoCallback, EventsDone, do_pending_functors, RunFunctor,
     BatchDone
<1>2. CASE Poll
  BY <1>2 DEF Poll, PollEvents, PollTimeout, PollError
<1>3. CASE CallbackCall
  BY <1>3 DEF CallbackCall, LoopQueue, run_in_loop, LoopQuit
<1>4. ASSUME NEW t \in Threads, ThreadCall(t) PROVE ControlTypeOK'
  BY <1>4 DEF ThreadCall, queue_in_loop, quit, wake_up
<1>5. CASE UNCHANGED vars
  BY <1>5 DEF vars
<1>. QED  BY <1>1, <1>2, <1>3, <1>4, <1>5 DEF Next

(***************************************************************************)
(* Every operation of event_loop.cpp keeps the queues and the counter      *)
(* well typed.                                                             *)
(***************************************************************************)
LEMMA DataStep == DataTypeOK /\ [Next]_vars => DataTypeOK'
<1> SUFFICES ASSUME DataTypeOK, [Next]_vars PROVE DataTypeOK'
  OBVIOUS
<1> USE WakeMaxAssumption DEF DataTypeOK
<1>1. CASE LoopProgress
  <2>1. CASE do_pending_functors
    BY <2>1 DEF do_pending_functors
  <2>2. CASE RunFunctor
    <3>1. Head(functors) \in Functors /\ Tail(functors) \in Seq(Functors)
      BY <2>2, HeadTailProperties DEF RunFunctor
    <3>. QED  BY <2>2, <3>1 DEF RunFunctor
  <2>3. CASE handle_wake_up
    BY <2>3 DEF handle_wake_up
  <2>4. CASE UNCHANGED <<pending_functors_, functors, wakeup_fd_, ran>>
    BY <2>4
  <2>. QED
    BY <1>1, <2>1, <2>2, <2>3, <2>4
       DEF LoopProgress, loop, check_quit, process_expired_timers, IoCallback,
           EventsDone, BatchDone
<1>2. CASE Poll
  BY <1>2 DEF Poll, PollEvents, PollTimeout, PollError
<1>3. CASE CallbackCall
  <2>1. ASSUME NEW f \in Functors, LoopQueue(f) PROVE DataTypeOK'
    <3>1. wakeup_fd_' \in 0..WakeMax
      BY <2>1, WrittenPositive DEF LoopQueue
    <3>. QED  BY <2>1, <3>1 DEF LoopQueue
  <2>2. ASSUME NEW f \in Functors, run_in_loop(f) PROVE DataTypeOK'
    BY <2>2 DEF run_in_loop
  <2>3. CASE LoopQuit
    BY <2>3 DEF LoopQuit
  <2>. QED  BY <1>3, <2>1, <2>2, <2>3 DEF CallbackCall
<1>4. ASSUME NEW t \in Threads, ThreadCall(t) PROVE DataTypeOK'
  <2>1. ASSUME NEW f \in Functors, queue_in_loop(t, f) PROVE DataTypeOK'
    BY <2>1 DEF queue_in_loop
  <2>2. CASE quit(t)
    BY <2>2 DEF quit
  <2>3. CASE wake_up(t)
    <3>1. wakeup_fd_' \in 0..WakeMax
      BY <2>3, WrittenPositive DEF wake_up
    <3>. QED  BY <2>3, <3>1 DEF wake_up
  <2>. QED  BY <1>4, <2>1, <2>2, <2>3 DEF ThreadCall
<1>5. CASE UNCHANGED vars
  BY <1>5 DEF vars
<1>. QED  BY <1>1, <1>2, <1>3, <1>4, <1>5 DEF Next

(***************************************************************************)
(* The state the constructor leaves is well typed.                         *)
(***************************************************************************)
LEMMA TypeOKInit == Init => TypeOK
<1>1. Init => ControlTypeOK
  BY DEF Init, ControlTypeOK
<1>2. Init => DataTypeOK
  BY WakeMaxAssumption DEF Init, DataTypeOK
<1>. QED  BY <1>1, <1>2 DEF TypeOK

(***************************************************************************)
(* Type correctness: the state of event_loop.cpp keeps its type, the       *)
(* eventfd counter included, under every interleaving of its operations.   *)
(***************************************************************************)
THEOREM TypeCorrect == Spec => []TypeOK
<1>1. TypeOK /\ [Next]_vars => TypeOK'
  BY ControlStep, DataStep DEF TypeOK
<1>. QED  BY <1>1, TypeOKInit, PTL DEF Spec

-----------------------------------------------------------------------------
(***************************************************************************)
(* NoLostWakeup speaks of the loop inside poll() only.  What carries it    *)
(* there: from the swap of one batch to the return of the next poll()      *)
(* nothing clears the eventfd, so whatever was pushed since that swap has  *)
(* its write done or still to come, and so has a quit_ stored after the    *)
(* while test.                                                             *)
(***************************************************************************)
PendingAnnounced ==
  pc \in {"idle", "check", "poll", "run"} /\ pending_functors_ # << >>
    => wakeup_fd_ > 0 \/ Waking

QuitAnnounced == pc = "poll" /\ quit_ => wakeup_fd_ > 0 \/ Waking

(***************************************************************************)
(* The local batch of do_pending_functors() exists only while it runs.     *)
(***************************************************************************)
BatchOnlyWhileRunning == pc # "run" => functors = << >>

WakeInv == PendingAnnounced /\ QuitAnnounced

IInv == TypeOK /\ WakeInv /\ BatchOnlyWhileRunning

(***************************************************************************)
(* Every operation keeps BatchOnlyWhileRunning.                            *)
(***************************************************************************)
LEMMA BatchStep ==
  BatchOnlyWhileRunning /\ [Next]_vars => BatchOnlyWhileRunning'
<1> SUFFICES ASSUME BatchOnlyWhileRunning, [Next]_vars
             PROVE  BatchOnlyWhileRunning'
  OBVIOUS
<1> USE DEF BatchOnlyWhileRunning
<1>1. CASE LoopProgress
  BY <1>1 DEF LoopProgress, loop, check_quit, process_expired_timers,
     handle_wake_up, IoCallback, EventsDone, do_pending_functors, RunFunctor,
     BatchDone
<1>2. CASE Poll
  BY <1>2 DEF Poll, PollEvents, PollTimeout, PollError
<1>3. CASE CallbackCall
  BY <1>3 DEF CallbackCall, LoopQueue, run_in_loop, LoopQuit
<1>4. ASSUME NEW t \in Threads, ThreadCall(t) PROVE BatchOnlyWhileRunning'
  BY <1>4 DEF ThreadCall, queue_in_loop, quit, wake_up
<1>5. CASE UNCHANGED vars
  BY <1>5 DEF vars
<1>. QED  BY <1>1, <1>2, <1>3, <1>4, <1>5 DEF Next

(***************************************************************************)
(* Every operation keeps WakeInv.                                          *)
(***************************************************************************)
LEMMA WakeStep == TypeOK /\ WakeInv /\ [Next]_vars => WakeInv'
<1> SUFFICES ASSUME TypeOK, WakeInv, [Next]_vars PROVE WakeInv'
  OBVIOUS
<1> USE DEF WakeInv, PendingAnnounced, QuitAnnounced, Waking
<1>1. CASE LoopProgress
  BY <1>1 DEF LoopProgress, loop, check_quit, process_expired_timers,
     handle_wake_up, IoCallback, EventsDone, do_pending_functors, RunFunctor,
     BatchDone
<1>2. CASE Poll
  BY <1>2 DEF Poll, PollEvents, PollTimeout, PollError
<1>3. ASSUME NEW f \in Functors, LoopQueue(f) PROVE WakeInv'
  <2>1. wakeup_fd_' > 0
    BY <1>3, WrittenPositive DEF LoopQueue, TypeOK, DataTypeOK
  <2>. QED  BY <2>1
<1>4. ASSUME NEW f \in Functors, run_in_loop(f) PROVE WakeInv'
  BY <1>4 DEF run_in_loop
<1>5. CASE LoopQuit
  <2>1. pc' # "poll"
    BY <1>5 DEF LoopQuit, InCallback
  <2>. QED  BY <1>5, <2>1 DEF LoopQuit
<1>6. ASSUME NEW t \in Threads, NEW f \in Functors, queue_in_loop(t, f)
      PROVE  WakeInv'
  <2>1. caller'[t] = "wake"
    BY <1>6 DEF queue_in_loop, TypeOK, ControlTypeOK
  <2>. QED  BY <2>1
<1>7. ASSUME NEW t \in Threads, quit(t) PROVE WakeInv'
  <2>1. caller'[t] = "wake"
    BY <1>7 DEF quit, TypeOK, ControlTypeOK
  <2>. QED  BY <2>1
<1>8. ASSUME NEW t \in Threads, wake_up(t) PROVE WakeInv'
  <2>1. wakeup_fd_' > 0
    BY <1>8, WrittenPositive DEF wake_up, TypeOK, DataTypeOK
  <2>. QED  BY <2>1
<1>9. CASE UNCHANGED vars
  BY <1>9 DEF vars
<1>. QED
  BY <1>1, <1>2, <1>3, <1>4, <1>5, <1>6, <1>7, <1>8, <1>9
     DEF Next, CallbackCall, ThreadCall

(***************************************************************************)
(* The strengthened invariant holds in every reachable state of the loop.  *)
(***************************************************************************)
THEOREM InductiveInvariant == Spec => []IInv
<1>1. Init => IInv
  BY TypeOKInit
     DEF Init, IInv, WakeInv, PendingAnnounced, QuitAnnounced,
         BatchOnlyWhileRunning
<1>2. IInv /\ [Next]_vars => IInv'
  BY ControlStep, DataStep, WakeStep, BatchStep DEF IInv, TypeOK
<1>. QED  BY <1>1, <1>2, PTL DEF Spec

(***************************************************************************)
(* The loop never sleeps in poll() on a queued functor or a stored quit_   *)
(* with nobody about to wake it.                                           *)
(***************************************************************************)
THEOREM NoWakeupIsLost == Spec => []NoLostWakeup
<1>1. IInv => NoLostWakeup
  BY DEF IInv, WakeInv, PendingAnnounced, QuitAnnounced, NoLostWakeup
<1>. QED  BY <1>1, InductiveInvariant, PTL

-----------------------------------------------------------------------------
(* EventLoop implements FunctorQueue.                                      *)

(***************************************************************************)
(* How the three operations on the two halves of the queue look from       *)
(* outside, where the halves are one sequence.                             *)
(***************************************************************************)

(***************************************************************************)
(* queue_in_loop() pushes to the second half: the whole grows at its end.  *)
(***************************************************************************)
LEMMA AppendToSecondHalf ==
  ASSUME NEW S, NEW a \in Seq(S), NEW b \in Seq(S), NEW x \in S
  PROVE  a \o Append(b, x) = Append(a \o b, x)
  OBVIOUS

(***************************************************************************)
(* Running the first functor of the batch takes the whole's first one.     *)
(***************************************************************************)
LEMMA TakeFromFirstHalf ==
  ASSUME NEW S, NEW a \in Seq(S), NEW b \in Seq(S), a # << >>
  PROVE  /\ a \o b # << >>
         /\ Head(a \o b) = Head(a)
         /\ Tail(a \o b) = Tail(a) \o b
  OBVIOUS

(***************************************************************************)
(* The swap of do_pending_functors() leaves the whole as it is.            *)
(***************************************************************************)
LEMMA SwapHalves ==
  ASSUME NEW S, NEW b \in Seq(S)
  PROVE  b \o << >> = << >> \o b
  OBVIOUS

(***************************************************************************)
(* A call that is new to the detailed queue is new to the abstract one.    *)
(***************************************************************************)
LEMMA FreshMapped ==
  ASSUME TypeOK, NEW f \in Functors, Fresh(f)
  PROVE  FQ!Fresh(f)
<1> DEFINE q == functors \o pending_functors_
<1>1. ASSUME NEW i \in DOMAIN q PROVE q[i] # f
  BY <1>1, ConcatProperties DEF Fresh, TypeOK, DataTypeOK
<1>. QED  BY <1>1 DEF FQ!Fresh, Fresh

(***************************************************************************)
(* Every step of the loop or of a caller is a step of FunctorQueue or      *)
(* leaves its state alone.                                                 *)
(***************************************************************************)
LEMMA StepRefines ==
  TypeOK /\ BatchOnlyWhileRunning /\ [Next]_vars => [FQ!Next]_(FQ!vars)
<1> SUFFICES ASSUME TypeOK, BatchOnlyWhileRunning, [Next]_vars
             PROVE  [FQ!Next]_(FQ!vars)
  OBVIOUS
<1> USE DEF TypeOK, DataTypeOK
<1>1. CASE do_pending_functors
  <2>1. functors = << >>
    BY <1>1 DEF do_pending_functors, BatchOnlyWhileRunning
  <2>2. functors' \o pending_functors_' = functors \o pending_functors_
    BY <1>1, <2>1, SwapHalves DEF do_pending_functors
  <2>. QED  BY <1>1, <2>2 DEF FQ!vars, do_pending_functors
<1>2. CASE RunFunctor
  <2>1. /\ functors \o pending_functors_ # << >>
        /\ Head(functors \o pending_functors_) = Head(functors)
        /\ Tail(functors \o pending_functors_) = Tail(functors) \o pending_functors_
    BY <1>2, TakeFromFirstHalf DEF RunFunctor
  <2>2. FQ!RunOldest
    BY <1>2, <2>1 DEF RunFunctor, FQ!RunOldest
  <2>. QED  BY <2>2 DEF FQ!Next
<1>3. ASSUME NEW f \in Functors, Fresh(f),
             pending_functors_' = Append(pending_functors_, f),
             UNCHANGED <<functors, ran>>
      PROVE  FQ!Next
  <2>1. (functors \o pending_functors_)' = Append(functors \o pending_functors_, f)
    BY <1>3, AppendToSecondHalf
  <2>2. FQ!Submit(f)
    BY <1>3, <2>1, FreshMapped DEF FQ!Submit
  <2>. QED  BY <2>2 DEF FQ!Next
<1>4. ASSUME NEW f \in Functors, LoopQueue(f) PROVE FQ!Next
  BY <1>3, <1>4 DEF LoopQueue
<1>5. ASSUME NEW t \in Threads, NEW f \in Functors, queue_in_loop(t, f)
      PROVE  FQ!Next
  BY <1>3, <1>5 DEF queue_in_loop
<1>6. ASSUME NEW f \in Functors, run_in_loop(f) PROVE FQ!Next
  <2>1. FQ!RunNow(f)
    BY <1>6, FreshMapped DEF run_in_loop, FQ!RunNow
  <2>. QED  BY <2>1 DEF FQ!Next
<1>7. CASE UNCHANGED <<functors, pending_functors_, ran>>
  BY <1>7 DEF FQ!vars
<1>8. CASE UNCHANGED vars
  BY <1>7, <1>8 DEF vars
<1>9. CASE Poll
  BY <1>7, <1>9 DEF Poll, PollEvents, PollTimeout, PollError
<1>10. CASE LoopProgress
  BY <1>1, <1>2, <1>7, <1>10
     DEF LoopProgress, loop, check_quit, process_expired_timers,
         handle_wake_up, IoCallback, EventsDone, BatchDone
<1>11. CASE LoopQuit
  BY <1>7, <1>11 DEF LoopQuit
<1>12. ASSUME NEW t \in Threads, quit(t) \/ wake_up(t)
       PROVE  UNCHANGED <<functors, pending_functors_, ran>>
  BY <1>12 DEF quit, wake_up
<1>. QED
  BY <1>4, <1>5, <1>6, <1>7, <1>8, <1>9, <1>10, <1>11, <1>12
     DEF Next, CallbackCall, ThreadCall

(***************************************************************************)
(* queue_in_loop(), run_in_loop() and do_pending_functors() implement the  *)
(* abstract queue: every functor runs once, in the order of the pushes.    *)
(***************************************************************************)
THEOREM LoopImplementsFunctorQueue == Spec => ImplementsFunctorQueue
<1>1. Init => FQ!Init
  BY DEF Init, FQ!Init
<1>2. IInv /\ [Next]_vars => [FQ!Next]_(FQ!vars)
  BY StepRefines DEF IInv
<1>. QED
  BY <1>1, <1>2, InductiveInvariant, PTL
     DEF Spec, ImplementsFunctorQueue, FQ!Spec
=============================================================================
