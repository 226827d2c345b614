----------------------------- MODULE ThreadPool -----------------------------
(***************************************************************************)
(* ThreadPool (utils/thread_pool.cpp, utils/thread_pool.h): workers take   *)
(* tasks from one queue under queue_mutex_ and sleep on condition_ while   *)
(* there is none; submit() and stop() change the queue and stop_flag_      *)
(* under the mutex and notify after they have released it.  Clients call   *)
(* submit(), and so do tasks; the pool's owner calls stop(), and its       *)
(* destructor calls it once more.                                          *)
(***************************************************************************)
EXTENDS Naturals, Sequences

CONSTANTS Workers, Clients, Tasks

ASSUME WorkersAssumption == Workers # {} /\ Workers \cap Clients = {}

VARIABLES
  tasks_,
  stop_flag_,
  worker,     \* where each worker is in its loop
  task,       \* task[w]: the task w runs
  caller,     \* caller[c] = "notify": c is between push and notify_one()
  owner,      \* where the owner is in stop()
  started,    \* history: tasks in the order they were taken
  finished    \* history: tasks that have returned

vars == <<tasks_, stop_flag_, worker, task, caller, owner, started, finished>>

None == "none"
Elements(s) == {s[i] : i \in DOMAIN s}

ControlTypeOK ==
  /\ stop_flag_ \in BOOLEAN
  /\ worker \in [Workers -> {"lock", "waiting", "running", "returned"}]
  /\ caller \in [Workers \cup Clients -> {"idle", "notify"}]
  /\ owner \in {"idle", "notify", "join", "stopped"}

DataTypeOK ==
  /\ tasks_ \in Seq(Tasks) /\ started \in Seq(Tasks)
  /\ task \in [Workers -> Tasks \cup {None}]
  /\ \A w \in Workers : worker[w] = "running" => task[w] \in Tasks
  /\ finished \subseteq Tasks

(***************************************************************************)
(* Types of the pool's state.                                              *)
(***************************************************************************)
TypeOK == ControlTypeOK /\ DataTypeOK

Init ==
  /\ tasks_ = << >> /\ stop_flag_ = FALSE
  /\ worker = [w \in Workers |-> "lock"]
  /\ task = [w \in Workers |-> None]
  /\ caller = [c \in Workers \cup Clients |-> "idle"]
  /\ owner = "idle"
  /\ started = << >> /\ finished = {}

-----------------------------------------------------------------------------
(* A worker's loop.                                                        *)

(***************************************************************************)
(* With queue_mutex_ held the worker waits, returns or takes a task.       *)
(***************************************************************************)
Wait(w) ==
  /\ worker[w] = "lock"
  /\ ~stop_flag_ /\ tasks_ = << >>
  /\ worker' = [worker EXCEPT ![w] = "waiting"]
  /\ UNCHANGED <<tasks_, stop_flag_, task, caller, owner, started, finished>>

BAD_Return(w) ==
  /\ worker[w] = "lock"
  /\ stop_flag_
  /\ worker' = [worker EXCEPT ![w] = "returned"]
  /\ UNCHANGED <<tasks_, stop_flag_, task, caller, owner, started, finished>>

Return(w) ==
  /\ worker[w] = "lock"
  /\ stop_flag_ /\ tasks_ = << >>
  /\ worker' = [worker EXCEPT ![w] = "returned"]
  /\ UNCHANGED <<tasks_, stop_flag_, task, caller, owner, started, finished>>

BAD_Take(w) ==
  /\ worker[w] = "lock"
  /\ tasks_ # << >>
  /\ worker' = [worker EXCEPT ![w] = "running"]
  /\ task' = [task EXCEPT ![w] = Head(tasks_)]
  /\ started' = Append(started, Head(tasks_))
  /\ UNCHANGED <<tasks_, stop_flag_, caller, owner, finished>>

Take(w) ==
  /\ worker[w] = "lock"
  /\ tasks_ # << >>
  /\ worker' = [worker EXCEPT ![w] = "running"]
  /\ task' = [task EXCEPT ![w] = Head(tasks_)]
  /\ tasks_' = Tail(tasks_)
  /\ started' = Append(started, Head(tasks_))
  /\ UNCHANGED <<stop_flag_, caller, owner, finished>>

(***************************************************************************)
(* task() returns.                                                         *)
(***************************************************************************)
Finish(w) ==
  /\ worker[w] = "running" /\ caller[w] = "idle"
  /\ worker' = [worker EXCEPT ![w] = "lock"]
  /\ task' = [task EXCEPT ![w] = None]
  /\ finished' = finished \cup {task[w]}
  /\ UNCHANGED <<tasks_, stop_flag_, caller, owner, started>>

(***************************************************************************)
(* condition_.wait() returns without a notification.                       *)
(***************************************************************************)
SpuriousWakeup(w) ==
  /\ worker[w] = "waiting"
  /\ worker' = [worker EXCEPT ![w] = "lock"]
  /\ UNCHANGED <<tasks_, stop_flag_, task, caller, owner, started, finished>>

-----------------------------------------------------------------------------
(* submit() by a client, or by a worker inside a task.                     *)

(***************************************************************************)
(* The push, under the mutex.  A stopped pool throws instead, and nothing  *)
(* changes.                                                                *)
(***************************************************************************)
submit(c, t) ==
  /\ caller[c] = "idle" /\ (c \in Workers => worker[c] = "running")
  /\ t \notin Elements(tasks_) \cup Elements(started)
  /\ ~stop_flag_
  /\ tasks_' = Append(tasks_, t)
  /\ caller' = [caller EXCEPT ![c] = "notify"]
  /\ UNCHANGED <<stop_flag_, worker, task, owner, started, finished>>

(***************************************************************************)
(* notify_one() wakes one of the waiting workers, if there are any.        *)
(***************************************************************************)
BAD_notify_one(c) ==
  /\ caller[c] = "notify"
  /\ caller' = [caller EXCEPT ![c] = "idle"]
  /\ UNCHANGED <<tasks_, stop_flag_, worker, task, owner, started, finished>>

notify_one(c) ==
  /\ caller[c] = "notify"
  /\ caller' = [caller EXCEPT ![c] = "idle"]
  /\ \/ /\ \A w \in Workers : worker[w] # "waiting"
        /\ worker' = worker
     \/ \E w \in Workers : /\ worker[w] = "waiting"
                           /\ worker' = [worker EXCEPT ![w] = "lock"]
  /\ UNCHANGED <<tasks_, stop_flag_, task, owner, started, finished>>

-----------------------------------------------------------------------------
(* stop().                                                                 *)

stop ==
  /\ owner \in {"idle", "stopped"}
  /\ stop_flag_' = TRUE
  /\ owner' = "notify"
  /\ UNCHANGED <<tasks_, worker, task, caller, started, finished>>

BAD_notify_all ==
  /\ owner = "notify"
  /\ owner' = "join"
  /\ \/ /\ \A w \in Workers : worker[w] # "waiting"
        /\ worker' = worker
     \/ \E w \in Workers : /\ worker[w] = "waiting"
                           /\ worker' = [worker EXCEPT ![w] = "lock"]
  /\ UNCHANGED <<tasks_, stop_flag_, task, caller, started, finished>>

notify_all ==
  /\ owner = "notify"
  /\ owner' = "join"
  /\ worker' = [w \in Workers |-> IF worker[w] = "waiting" THEN "lock" ELSE worker[w]]
  /\ UNCHANGED <<tasks_, stop_flag_, task, caller, started, finished>>

(***************************************************************************)
(* join() on every worker.  The second stop() finds them joined.           *)
(***************************************************************************)
JoinAll ==
  /\ owner = "join"
  /\ \A w \in Workers : worker[w] = "returned"
  /\ owner' = "stopped"
  /\ UNCHANGED <<tasks_, stop_flag_, worker, task, caller, started, finished>>

-----------------------------------------------------------------------------
WorkerStep(w) == Wait(w) \/ Return(w) \/ Take(w) \/ Finish(w)
OwnerStep == notify_all \/ JoinAll

Next == \/ \E w \in Workers : WorkerStep(w) \/ SpuriousWakeup(w)
        \/ \E c \in Workers \cup Clients :
             notify_one(c) \/ \E t \in Tasks : submit(c, t)
        \/ stop
        \/ OwnerStep

Spec == Init /\ [][Next]_vars

(***************************************************************************)
(* Threads that can run do run, and tasks return.  No spurious wake-up is  *)
(* relied on.                                                              *)
(***************************************************************************)
FairSpec == /\ Spec
            /\ \A w \in Workers : WF_vars(WorkerStep(w))
            /\ \A c \in Workers \cup Clients : WF_vars(notify_one(c))
            /\ WF_vars(OwnerStep)

-----------------------------------------------------------------------------
(* Properties.                                                             *)

FQ == INSTANCE FunctorQueue WITH Functors <- Tasks, queue <- tasks_, ran <- started

(***************************************************************************)
(* Tasks are taken in the order of submit(), each once, by any number of   *)
(* workers (submit, the worker's loop).                                    *)
(***************************************************************************)
ImplementsFunctorQueue == FQ!Spec

(***************************************************************************)
(* Never does every worker sleep, or has left, with a task in the queue    *)
(* and nobody about to notify: a notification sent after the mutex was     *)
(* released is not lost (submit, the predicate of condition_.wait()).      *)
(***************************************************************************)
NoTaskIsStranded ==
  tasks_ # << >> /\ (\A w \in Workers : worker[w] \in {"waiting", "returned"})
    => \/ \E c \in Workers \cup Clients : caller[c] = "notify"
       \/ owner = "notify"

(***************************************************************************)
(* When stop() returns every task that submit() accepted has run to its    *)
(* end, the ones submitted by tasks included (stop, the worker's return).  *)
(***************************************************************************)
StopDrains ==
  owner = "stopped" => tasks_ = << >> /\ finished = Elements(started)

(***************************************************************************)
(* stop() returns: each worker is told, wherever it is between the test of *)
(* the predicate and the sleep (stop, notify_all).                         *)
(***************************************************************************)
StopReturns == (owner = "notify") ~> (owner = "stopped")

(***************************************************************************)
(* A task that submit() accepted runs (submit, notify_one, stop).          *)
(***************************************************************************)
AcceptedTaskRuns ==
  \A t \in Tasks : (t \in Elements(tasks_)) ~> (t \in finished)
=============================================================================
