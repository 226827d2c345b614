-------------------------- MODULE ThreadPoolProofs --------------------------
(***************************************************************************)
(* Proofs about ThreadPool for any sets of workers, clients and tasks.     *)
(***************************************************************************)
EXTENDS ThreadPool, SequenceTheorems, TLAPS

(***************************************************************************)
(* Type correctness is shown in two halves, one for the control state and  *)
(* one for the queue and the histories.                                    *)
(***************************************************************************)

(***************************************************************************)
(* No step of a worker, caller or owner leaves the control types.          *)
(***************************************************************************)
LEMMA ControlStep == ControlTypeOK /\ [Next]_vars => ControlTypeOK'
<1> SUFFICES ASSUME ControlTypeOK, [Next]_vars PROVE ControlTypeOK'
  OBVIOUS
<1> USE DEF ControlTypeOK
<1>1. ASSUME NEW w \in Workers, Wait(w) PROVE ControlTypeOK'
  BY <1>1 DEF Wait
<1>2. ASSUME NEW w \in Workers, Return(w) PROVE ControlTypeOK'
  BY <1>2 DEF Return
<1>3. ASSUME NEW w \in Workers, Take(w) PROVE ControlTypeOK'
  BY <1>3 DEF Take
<1>4. ASSUME NEW w \in Workers, Finish(w) PROVE ControlTypeOK'
  BY <1>4 DEF Finish
<1>5. ASSUME NEW w \in Workers, SpuriousWakeup(w) PROVE ControlTypeOK'
  BY <1>5 DEF SpuriousWakeup
<1>6. ASSUME NEW c \in Workers \cup Clients, NEW t \in Tasks, submit(c, t)
      PROVE  ControlTypeOK'
  BY <1>6 DEF submit
<1>7. ASSUME NEW c \in Workers \cup Clients, notify_one(c) PROVE ControlTypeOK'
  BY <1>7 DEF notify_one
<1>8. CASE stop
  BY <1>8 DEF stop
<1>9. CASE notify_all
  BY <1>9 DEF notify_all
<1>10. CASE JoinAll
  BY <1>10 DEF JoinAll
<1>11. CASE UNCHANGED vars
  BY <1>11 DEF vars
<1> QED
  BY <1>1, <1>2, <1>3, <1>4, <1>5, <1>6, <1>7, <1>8, <1>9, <1>10, <1>11
  DEF Next, WorkerStep, OwnerStep

(***************************************************************************)
(* No step leaves the types of the queue and of the histories.             *)
(***************************************************************************)
LEMMA DataStep == ControlTypeOK /\ DataTypeOK /\ [Next]_vars => DataTypeOK'
<1> SUFFICES ASSUME ControlTypeOK, DataTypeOK, [Next]_vars PROVE DataTypeOK'
  OBVIOUS
<1>0. worker \in [Workers -> {"lock", "waiting", "running", "returned"}]
  BY DEF ControlTypeOK
<1> USE DEF DataTypeOK
<1>1. ASSUME NEW w \in Workers, Take(w) PROVE DataTypeOK'
  <2>1. Head(tasks_) \in Tasks /\ Tail(tasks_) \in Seq(Tasks)
    BY <1>1, HeadTailProperties DEF Take
  <2>2. task'[w] = Head(tasks_)
    BY <1>1 DEF Take
  <2> QED
    BY <1>0, <1>1, <2>1, <2>2 DEF Take
<1>2. ASSUME NEW w \in Workers, Finish(w) PROVE DataTypeOK'
  BY <1>0, <1>2 DEF Finish
<1>3. ASSUME NEW w \in Workers, Wait(w) \/ Return(w) \/ SpuriousWakeup(w)
      PROVE  DataTypeOK'
  BY <1>0, <1>3 DEF Wait, Return, SpuriousWakeup
<1>4. ASSUME NEW c \in Workers \cup Clients, NEW t \in Tasks, submit(c, t)
      PROVE  DataTypeOK'
  BY <1>4 DEF submit
<1>5. ASSUME NEW c \in Workers \cup Clients, notify_one(c) PROVE DataTypeOK'
  BY <1>0, <1>5 DEF notify_one
<1>6. CASE notify_all
  BY <1>0, <1>6 DEF notify_all
<1>7. CASE stop \/ JoinAll \/ UNCHANGED vars
  BY <1>7 DEF stop, JoinAll, vars
<1> QED
  BY <1>1, <1>2, <1>3, <1>4, <1>5, <1>6, <1>7 DEF Next, WorkerStep, OwnerStep

(***************************************************************************)
(* A new pool is well typed.                                               *)
(***************************************************************************)
LEMMA TypeOKInit == Init => TypeOK
<1> SUFFICES ASSUME Init PROVE ControlTypeOK /\ DataTypeOK
  BY DEF TypeOK
<1>1. ControlTypeOK
  BY DEF Init, ControlTypeOK
<1>2. \A w \in Workers : worker[w] # "running"
  BY DEF Init
<1>3. DataTypeOK
  BY <1>2 DEF Init, DataTypeOK
<1> QED
  BY <1>1, <1>3

(***************************************************************************)
(* The pool's state stays well typed in every behaviour.                   *)
(***************************************************************************)
THEOREM TypeCorrect == Spec => []TypeOK
<1>1. Init => TypeOK
  BY TypeOKInit
<1>2. TypeOK /\ [Next]_vars => TypeOK'
  BY ControlStep, DataStep DEF TypeOK
<1> QED
  BY <1>1, <1>2, PTL DEF Spec

-----------------------------------------------------------------------------
(***************************************************************************)
(* A worker returns from its loop only when the pool is stopped and the    *)
(* queue is empty, and submit() then adds nothing.                         *)
(***************************************************************************)
ReturnedDrained ==
  \A w \in Workers : worker[w] = "returned" => stop_flag_ /\ tasks_ = << >>

(***************************************************************************)
(* The tasks taken are those that have finished and those that are being   *)
(* run; once stop() is over there is no worker left.                       *)
(***************************************************************************)
InHand == {task[w] : w \in {v \in Workers : worker[v] = "running"}}
TakenAccounted == Elements(started) = finished \cup InHand
StoppedJoined == owner = "stopped" => \A w \in Workers : worker[w] = "returned"

(***************************************************************************)
(* The inductive invariant.                                                *)
(***************************************************************************)
IInv == TypeOK /\ ReturnedDrained /\ NoTaskIsStranded /\ TakenAccounted
          /\ StoppedJoined

(***************************************************************************)
(* Every step keeps ReturnedDrained.                                       *)
(***************************************************************************)
LEMMA ReturnedStep ==
  TypeOK /\ ReturnedDrained /\ [Next]_vars => ReturnedDrained'
<1> SUFFICES ASSUME TypeOK, ReturnedDrained, [Next]_vars PROVE ReturnedDrained'
  OBVIOUS
<1>0. worker \in [Workers -> {"lock", "waiting", "running", "returned"}]
  BY DEF TypeOK, ControlTypeOK
<1> USE <1>0 DEF ReturnedDrained
<1>1. ASSUME NEW w \in Workers, Take(w) PROVE ReturnedDrained'
  BY <1>1 DEF Take
<1>2. ASSUME NEW w \in Workers, Return(w) PROVE ReturnedDrained'
  BY <1>2 DEF Return
<1>3. ASSUME NEW w \in Workers, Wait(w) \/ Finish(w) \/ SpuriousWakeup(w)
      PROVE  ReturnedDrained'
  BY <1>3 DEF Wait, Finish, SpuriousWakeup
<1>4. ASSUME NEW c \in Workers \cup Clients, NEW t \in Tasks, submit(c, t)
      PROVE  ReturnedDrained'
  BY <1>4 DEF submit
<1>5. ASSUME NEW c \in Workers \cup Clients, notify_one(c) PROVE ReturnedDrained'
  BY <1>5 DEF notify_one
<1>6. CASE notify_all
  BY <1>6 DEF notify_all
<1>7. CASE stop \/ JoinAll \/ UNCHANGED vars
  BY <1>7 DEF stop, JoinAll, vars
<1> QED
  BY <1>1, <1>2, <1>3, <1>4, <1>5, <1>6, <1>7 DEF Next, WorkerStep, OwnerStep

(***************************************************************************)
(* Every step keeps NoTaskIsStranded: who pushes will notify, a notified   *)
(* worker is awake, and a worker goes to sleep only on an empty queue.     *)
(***************************************************************************)
LEMMA StrandedStep ==
  TypeOK /\ ReturnedDrained /\ NoTaskIsStranded /\ [Next]_vars
    => NoTaskIsStranded'
<1> SUFFICES ASSUME TypeOK, ReturnedDrained, NoTaskIsStranded, [Next]_vars
             PROVE  NoTaskIsStranded'
  OBVIOUS
<1>0. /\ worker \in [Workers -> {"lock", "waiting", "running", "returned"}]
      /\ caller \in [Workers \cup Clients -> {"idle", "notify"}]
  BY DEF TypeOK, ControlTypeOK
<1> USE <1>0 DEF NoTaskIsStranded
<1>1. ASSUME NEW w \in Workers, Take(w) PROVE NoTaskIsStranded'
  BY <1>1 DEF Take
<1>2. ASSUME NEW w \in Workers, Wait(w) \/ Return(w) PROVE NoTaskIsStranded'
  BY <1>2 DEF Wait, Return
<1>3. ASSUME NEW w \in Workers, Finish(w) \/ SpuriousWakeup(w)
      PROVE  NoTaskIsStranded'
  BY <1>3 DEF Finish, SpuriousWakeup
<1>4. ASSUME NEW c \in Workers \cup Clients, NEW t \in Tasks, submit(c, t)
      PROVE  NoTaskIsStranded'
  BY <1>4 DEF submit
<1>5. ASSUME NEW c \in Workers \cup Clients, notify_one(c)
      PROVE  NoTaskIsStranded'
  <2>1. CASE \E w \in Workers : /\ worker[w] = "waiting"
                                /\ worker' = [worker EXCEPT ![w] = "lock"]
    BY <2>1
  <2>2. CASE worker' = worker /\ \A w \in Workers : worker[w] # "waiting"
    BY <1>5, <2>2, WorkersAssumption DEF notify_one, ReturnedDrained
  <2> QED
    BY <1>5, <2>1, <2>2 DEF notify_one
<1>6. CASE notify_all
  BY <1>6, WorkersAssumption DEF notify_all, ReturnedDrained
<1>7. CASE stop \/ UNCHANGED vars
  BY <1>7 DEF stop, vars
<1>8. CASE JoinAll
  BY <1>8 DEF JoinAll
<1> QED
  BY <1>1, <1>2, <1>3, <1>4, <1>5, <1>6, <1>7, <1>8
  DEF Next, WorkerStep, OwnerStep

(***************************************************************************)
(* Appending adds one element.                                             *)
(***************************************************************************)
LEMMA ElementsAppend ==
  ASSUME NEW S, NEW s \in Seq(S), NEW e \in S
  PROVE  Elements(Append(s, e)) = Elements(s) \cup {e}
<1>1. Len(Append(s, e)) = Len(s) + 1 /\ Append(s, e)[Len(s) + 1] = e
  OBVIOUS
<1>2. \A i \in 1..Len(s) : Append(s, e)[i] = s[i]
  OBVIOUS
<1>3. DOMAIN s = 1..Len(s) /\ DOMAIN Append(s, e) = 1..(Len(s) + 1)
  OBVIOUS
<1>4. Len(s) \in Nat
  OBVIOUS
<1> QED
  BY <1>1, <1>2, <1>3, <1>4 DEF Elements

(***************************************************************************)
(* Every step keeps account of the tasks taken.                            *)
(***************************************************************************)
LEMMA TakenStep == TypeOK /\ TakenAccounted /\ [Next]_vars => TakenAccounted'
<1> SUFFICES ASSUME TypeOK, TakenAccounted, [Next]_vars PROVE TakenAccounted'
  OBVIOUS
<1>0. /\ worker \in [Workers -> {"lock", "waiting", "running", "returned"}]
      /\ task \in [Workers -> Tasks \cup {None}]
      /\ tasks_ \in Seq(Tasks) /\ started \in Seq(Tasks)
  BY DEF TypeOK, ControlTypeOK, DataTypeOK
<1> USE <1>0
<1>1. ASSUME NEW w \in Workers, Take(w) PROVE TakenAccounted'
  <2>1. Head(tasks_) \in Tasks
    BY <1>1, HeadTailProperties DEF Take
  <2>2. Elements(started') = Elements(started) \cup {Head(tasks_)}
    BY <1>1, <2>1, ElementsAppend DEF Take
  <2>3. InHand' = InHand \cup {Head(tasks_)}
    BY <1>1 DEF Take, InHand
  <2>4. finished' = finished
    BY <1>1 DEF Take
  <2>5. Elements(started)' = Elements(started')
    BY DEF Elements
  <2> QED
    BY <2>2, <2>3, <2>4, <2>5 DEF TakenAccounted
<1>2. ASSUME NEW w \in Workers, Finish(w) PROVE TakenAccounted'
  <2>1. InHand \cup {task[w]} = InHand' \cup {task[w]}
    BY <1>2 DEF Finish, InHand
  <2>2. task[w] \in InHand
    BY <1>2 DEF Finish, InHand
  <2>3. finished' = finished \cup {task[w]} /\ started' = started
    BY <1>2 DEF Finish
  <2>4. Elements(started)' = Elements(started)
    BY <2>3 DEF Elements
  <2> QED
    BY <2>1, <2>2, <2>3, <2>4 DEF TakenAccounted
<1>3. CASE UNCHANGED <<task, started, finished>> /\ InHand' = InHand
  <2>1. Elements(started)' = Elements(started)
    BY <1>3 DEF Elements
  <2> QED
    BY <1>3, <2>1 DEF TakenAccounted
<1>4. ASSUME NEW w \in Workers, Wait(w) \/ Return(w) \/ SpuriousWakeup(w)
      PROVE  TakenAccounted'
  BY <1>3, <1>4 DEF Wait, Return, SpuriousWakeup, InHand
<1>5. ASSUME NEW c \in Workers \cup Clients, NEW t \in Tasks, submit(c, t)
      PROVE  TakenAccounted'
  BY <1>3, <1>5 DEF submit, InHand
<1>6. ASSUME NEW c \in Workers \cup Clients, notify_one(c) PROVE TakenAccounted'
  <2>1. InHand' = InHand
    BY <1>6 DEF notify_one, InHand
  <2> QED
    BY <1>3, <1>6, <2>1 DEF notify_one
<1>7. CASE notify_all
  <2>1. InHand' = InHand
    BY <1>7 DEF notify_all, InHand
  <2> QED
    BY <1>3, <1>7, <2>1 DEF notify_all
<1>8. CASE stop \/ JoinAll \/ UNCHANGED vars
  BY <1>3, <1>8 DEF stop, JoinAll, vars, InHand
<1> QED
  BY <1>1, <1>2, <1>4, <1>5, <1>6, <1>7, <1>8 DEF Next, WorkerStep, OwnerStep

(***************************************************************************)
(* Every step keeps StoppedJoined: a worker that has returned stays so.    *)
(***************************************************************************)
LEMMA JoinedStep == TypeOK /\ StoppedJoined /\ [Next]_vars => StoppedJoined'
<1> SUFFICES ASSUME TypeOK, StoppedJoined, [Next]_vars PROVE StoppedJoined'
  OBVIOUS
<1>0. worker \in [Workers -> {"lock", "waiting", "running", "returned"}]
  BY DEF TypeOK, ControlTypeOK
<1> USE <1>0 DEF StoppedJoined
<1>1. ASSUME NEW w \in Workers, WorkerStep(w) \/ SpuriousWakeup(w)
      PROVE  StoppedJoined'
  BY <1>1 DEF WorkerStep, Wait, Return, Take, Finish, SpuriousWakeup
<1>2. ASSUME NEW c \in Workers \cup Clients, NEW t \in Tasks, submit(c, t)
      PROVE  StoppedJoined'
  BY <1>2 DEF submit
<1>3. ASSUME NEW c \in Workers \cup Clients, notify_one(c) PROVE StoppedJoined'
  BY <1>3 DEF notify_one
<1>4. CASE stop \/ notify_all \/ JoinAll \/ UNCHANGED vars
  BY <1>4 DEF stop, notify_all, JoinAll, vars
<1> QED
  BY <1>1, <1>2, <1>3, <1>4 DEF Next, OwnerStep

(***************************************************************************)
(* IInv is an invariant.                                                   *)
(***************************************************************************)
THEOREM InductiveInvariant == Spec => []IInv
<1>1. Init => IInv
  <2> SUFFICES ASSUME Init PROVE IInv
    OBVIOUS
  <2>1. TypeOK
    BY TypeOKInit
  <2>2. ReturnedDrained /\ NoTaskIsStranded /\ StoppedJoined
    BY DEF Init, ReturnedDrained, NoTaskIsStranded, StoppedJoined
  <2>3. Elements(started) = {} /\ InHand = {} /\ finished = {}
    BY DEF Init, Elements, InHand
  <2> QED
    BY <2>1, <2>2, <2>3 DEF IInv, TakenAccounted
<1>2. IInv /\ [Next]_vars => IInv'
  BY ControlStep, DataStep, ReturnedStep, StrandedStep, TakenStep, JoinedStep
  DEF IInv, TypeOK
<1> QED
  BY <1>1, <1>2, PTL DEF Spec

(***************************************************************************)
(* The workers never all sleep on a queue that holds a task, whatever the  *)
(* number of workers and callers: submit() may notify after it unlocks.    *)
(***************************************************************************)
THEOREM NoWakeupIsLost == Spec => []NoTaskIsStranded
<1>1. IInv => NoTaskIsStranded
  BY DEF IInv
<1> QED
  BY <1>1, InductiveInvariant, PTL

(***************************************************************************)
(* When stop() has returned every task submit() accepted has finished.     *)
(***************************************************************************)
THEOREM StopRunsEverything == Spec => []StopDrains
<1>1. IInv => StopDrains
  <2> SUFFICES ASSUME IInv, owner = "stopped"
               PROVE  tasks_ = << >> /\ finished = Elements(started)
    BY DEF StopDrains
  <2>1. \A w \in Workers : worker[w] = "returned"
    BY DEF IInv, StoppedJoined
  <2>2. tasks_ = << >>
    BY <2>1, WorkersAssumption DEF IInv, ReturnedDrained
  <2>3. InHand = {}
    BY <2>1 DEF InHand
  <2> QED
    BY <2>2, <2>3 DEF IInv, TakenAccounted
<1> QED
  BY <1>1, InductiveInvariant, PTL

-----------------------------------------------------------------------------
(***************************************************************************)
(* Tasks start in the order of submit(), each once: the pool is a          *)
(* FunctorQueue whose calls happen when a worker takes the task.           *)
(***************************************************************************)
THEOREM PoolImplementsFunctorQueue == Spec => ImplementsFunctorQueue
<1>1. Init => FQ!Init
  BY DEF Init, FQ!Init
<1>2. [Next]_vars => [FQ!Next]_(FQ!vars)
  <2> SUFFICES ASSUME [Next]_vars PROVE [FQ!Next]_(FQ!vars)
    OBVIOUS
  <2>1. ASSUME NEW w \in Workers, Take(w) PROVE FQ!RunOldest
    BY <2>1 DEF Take, FQ!RunOldest
  <2>2. ASSUME NEW c \in Workers \cup Clients, NEW t \in Tasks, submit(c, t)
        PROVE  FQ!Submit(t)
    BY <2>2 DEF submit, Elements, FQ!Submit, FQ!Fresh
  <2>3. CASE UNCHANGED <<tasks_, started>>
    BY <2>3 DEF FQ!vars
  <2> QED
    BY <2>1, <2>2, <2>3
    DEF Next, WorkerStep, OwnerStep, Wait, Return, Finish, SpuriousWakeup,
        notify_one, stop, notify_all, JoinAll, vars, FQ!Next
<1> QED
  BY <1>1, <1>2, PTL DEF Spec, ImplementsFunctorQueue, FQ!Spec
=============================================================================
