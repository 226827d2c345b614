---------------------------- MODULE FunctorQueue ----------------------------
(***************************************************************************)
(* What EventLoop promises to its callers: a functor handed over with      *)
(* queue_in_loop() runs exactly once, in the order of the hand-overs, and  *)
(* run_in_loop() called on the loop's own thread runs its functor at once. *)
(* ThreadPool promises the same of submit(), as far as the start of a task *)
(* goes.  A functor stands for one call: it is submitted at most once.     *)
(***************************************************************************)
EXTENDS Naturals, Sequences

CONSTANT Functors

VARIABLES queue,   \* submitted functors that have not run, oldest first
          ran      \* functors in the order in which their calls completed

vars == <<queue, ran>>

(***************************************************************************)
(* No call has been made with f yet.                                       *)
(***************************************************************************)
Fresh(f) == /\ \A i \in DOMAIN queue : queue[i] # f
            /\ \A i \in DOMAIN ran : ran[i] # f

Init == queue = << >> /\ ran = << >>

Submit(f) == /\ Fresh(f)
             /\ queue' = Append(queue, f)
             /\ ran' = ran

RunNow(f) == /\ Fresh(f)
             /\ ran' = Append(ran, f)
             /\ queue' = queue

RunOldest == /\ queue # << >>
             /\ ran' = Append(ran, Head(queue))
             /\ queue' = Tail(queue)

Next == \/ RunOldest
        \/ \E f \in Functors : Submit(f) \/ RunNow(f)

Spec == Init /\ [][Next]_vars
=============================================================================
