-------------------------- MODULE TimerQueueProofs --------------------------
(***************************************************************************)
(* Proofs about TimerQueue for any number of timers, any delays, intervals *)
(* and times, and any rounding of the poll timeout.                        *)
(***************************************************************************)
EXTENDS TimerQueue, FiniteSetTheorems, WellFoundedInduction, TLAPS

Made == 1..created
Entries == [when : Nat, id : Made]

(***************************************************************************)
(* The types of the queue's state.                                         *)
(***************************************************************************)
TypeOK ==
  /\ now \in Nat /\ now_time \in Nat
  /\ pc \in {"poll", "woken", "running", "idle", "destroyed"}
  /\ poll_until \in Int /\ timerfd \in BOOLEAN
  /\ created \in 0..MaxTimers
  /\ timer \in [Made -> [when : Nat, interval : Nat]]
  /\ timers_ \subseteq Entries /\ expired \subseteq Entries /\ left \subseteq expired
  /\ fired \in [Timers -> Nat]
  /\ dropped \subseteq Made

(***************************************************************************)
(* A timer is in the queue or in the batch, not in both; outside           *)
(* process_expired_timers() there is no batch; and an entry of either has  *)
(* its timer's expiration, so there is one entry to a timer.               *)
(***************************************************************************)
OnePlace ==
  /\ Ids(timers_) \cap Ids(expired) = {}
  /\ pc # "running" => expired = {}
  /\ \A e \in timers_ \cup expired : e.when = timer[e.id].when

(***************************************************************************)
(* A timer that does not repeat has not run while it is in the queue or    *)
(* waits in the batch, and no timer has run before it was made.            *)
(***************************************************************************)
OneShot ==
  /\ \A id \in Timers : id > created => fired[id] = 0
  /\ \A id \in Made : timer[id].interval = 0 =>
       /\ fired[id] <= 1
       /\ id \in Ids(timers_) \cup Ids(left) => fired[id] = 0

(***************************************************************************)
(* What cancel_timer() took out is in neither.                             *)
(***************************************************************************)
DroppedGone == dropped \cap (Ids(timers_) \cup Ids(expired)) = {}

SetsSame == active_timers_ = Ids(timers_)
DueInBatch == \A e \in expired : e.when <= now

QueueInv ==
  /\ TypeOK
  /\ OnePlace
  /\ SetsSame
  /\ HeapExact
  /\ DueInBatch
  /\ OneShot
  /\ DroppedGone
  /\ NoOversleep

-----------------------------------------------------------------------------
(***************************************************************************)
(* A set of naturals has a least one, and timers_ an entry that comes      *)
(* first.                                                                  *)
(***************************************************************************)
LEMMA LeastNatural ==
  ASSUME NEW T \in SUBSET Nat, T # {}
  PROVE  \E m \in T : \A n \in T : m <= n
<1>1. \A m, n \in Nat : <<n, m>> \notin OpToRel(<, Nat) => ~(n < m)
  BY Zenon DEF OpToRel
<1>2. \E m \in T : \A n \in T : ~(<<n, m>> \in OpToRel(<, Nat))
  BY NatLessThanWellFounded, WFMin, Zenon
<1>3. PICK m \in T : \A n \in T : ~(n < m)
  BY <1>1, <1>2, Zenon
<1> QED
  BY <1>3

(***************************************************************************)
(* The earliest entry of timers_, begin() of the set, expires no later     *)
(* than any other.                                                         *)
(***************************************************************************)
LEMMA EarliestIsFirst ==
  ASSUME TypeOK, timers_ # {}
  PROVE  /\ Earliest(timers_) \in timers_ /\ Earliest(timers_).when \in Nat
         /\ \A f \in timers_ : Earliest(timers_).when <= f.when
<1> DEFINE Whens == {e.when : e \in timers_}
<1>1. Whens \in SUBSET Nat /\ Whens # {}
  BY DEF TypeOK, Entries
<1>2. \E m \in Whens : \A n \in Whens : m <= n
  <2> HIDE DEF Whens
  <2> QED
    BY <1>1, LeastNatural
<1>3. \E e \in timers_ : \A f \in timers_ : e.when <= f.when
  BY <1>2
<1> QED
  BY <1>3 DEF Earliest, TypeOK, Entries

(***************************************************************************)
(* Rounding down to whole milliseconds.                                    *)
(***************************************************************************)
LEMMA RoundedDown ==
  ASSUME NEW n \in Nat
  PROVE  /\ (n \div TicksPerMs) * TicksPerMs \in Nat
         /\ (n \div TicksPerMs) * TicksPerMs <= n
BY TimeAssumption

-----------------------------------------------------------------------------
(***************************************************************************)
(* The initial state satisfies the invariant.                              *)
(***************************************************************************)
LEMMA QueueInvInit == Init => QueueInv
<1> SUFFICES ASSUME Init PROVE QueueInv
  OBVIOUS
<1>1. TypeOK
  <2>1. Made = {} /\ timer \in [Made -> [when : Nat, interval : Nat]]
    BY DEF Init, Made
  <2>2. /\ created \in 0..MaxTimers /\ fired \in [Timers -> Nat]
        /\ now \in Nat /\ now_time \in Nat /\ poll_until \in Int
    BY TimeAssumption DEF Init, Timers
  <2>3. timerfd \in BOOLEAN
    BY DEF Init
  <2> QED
    BY <2>1, <2>2, <2>3, Zenon DEF Init, TypeOK
<1>2. OnePlace /\ SetsSame /\ HeapExact /\ DueInBatch /\ DroppedGone /\ NoOversleep
  BY DEF Init, OnePlace, SetsSame, HeapExact, DueInBatch, DroppedGone, NoOversleep, Ids
<1>3. OneShot
  BY DEF Init, OneShot, Made, Timers
<1> QED
  BY <1>1, <1>2, <1>3 DEF QueueInv

(***************************************************************************)
(* add_timer() enters the new timer in both sets.                          *)
(***************************************************************************)
LEMMA AddStep ==
  ASSUME QueueInv, NEW delay \in Nat, NEW interval \in Nat, add_timer(delay, interval)
  PROVE  QueueInv'
<1> DEFINE id == created + 1
           e == [when |-> now + delay, id |-> id]
<1> USE DEF QueueInv
<1>1. /\ created' = id /\ id \in Timers /\ created \in Nat
      /\ id \notin Made /\ Made' = Made \cup {id}
      /\ Entries \subseteq Entries' /\ e \in Entries'
  BY TimeAssumption DEF add_timer, TypeOK, Made, Entries, Timers
<1>2. /\ \A i \in Made : timer'[i] = timer[i]
      /\ timer'[id] = [when |-> now + delay, interval |-> interval]
      /\ timer' \in [Made' -> [when : Nat, interval : Nat]]
  BY <1>1 DEF add_timer, TypeOK, Made, NewTimer
<1>3. /\ timers_' = timers_ \cup {e} /\ Ids(timers_)' = Ids(timers_) \cup {id}
      /\ UNCHANGED <<expired, left, Ids(expired), Ids(left)>>
      /\ pc' = pc /\ pc \in {"idle", "running"}
  <2>1. timers_' = timers_ \cup {e} /\ expired' = expired /\ left' = left
    BY DEF add_timer, batchVars
  <2>2. e.id = id
    OBVIOUS
  <2>3. Ids(timers_)' = Ids(timers_) \cup {id}
    <3> HIDE DEF e
    <3> QED
      BY <2>1, <2>2 DEF Ids
  <2> QED
    BY <2>1, <2>3 DEF add_timer, Ids, InUserCode
<1>4. Ids(timers_) \subseteq Made /\ Ids(expired) \subseteq Made /\ Ids(left) \subseteq Made
  BY DEF TypeOK, Ids, Entries
<1>5. TypeOK'
  BY <1>1, <1>2, <1>3 DEF add_timer, TypeOK, batchVars, history, Timers, Made
<1>6. OnePlace'
  <2>1. ASSUME NEW f \in timers_' \cup expired' PROVE f.when = timer'[f.id].when
    BY <1>1, <1>2, <1>3 DEF OnePlace, TypeOK, Entries
  <2> QED
    BY <1>1, <1>3, <1>4, <2>1 DEF OnePlace
<1>7. SetsSame' /\ HeapExact' /\ DueInBatch' /\ NoOversleep'
  BY <1>3 DEF add_timer, SetsSame, HeapExact, DueInBatch, NoOversleep
<1>8. OneShot'
  <2>1. fired' = fired /\ \A i \in Timers : i > created' => fired[i] = 0
    BY <1>1 DEF OneShot, add_timer, history, Timers
  <2>2. ASSUME NEW i \in Made', timer'[i].interval = 0
        PROVE  fired[i] <= 1 /\ (i \in Ids(timers_)' \cup Ids(left)' => fired[i] = 0)
    <3>1. CASE i = id
      <4>1. fired[id] = 0
        BY <1>1 DEF OneShot
      <4> QED
        BY <3>1, <4>1
    <3>2. CASE i # id
      BY <1>1, <1>2, <1>3, <2>2, <3>2 DEF OneShot
    <3> QED
      BY <3>1, <3>2
  <2> QED
    BY <2>1, <2>2 DEF OneShot
<1>9. DroppedGone'
  BY <1>1, <1>3 DEF DroppedGone, add_timer, history, TypeOK
<1> QED
  BY <1>5, <1>6, <1>7, <1>8, <1>9

(***************************************************************************)
(* cancel_timer() erases a queued timer from both sets and frees it, and   *)
(* leaves one of the batch being run alone.                                *)
(***************************************************************************)
LEMMA CancelStep ==
  ASSUME QueueInv, NEW id \in Timers, cancel_timer(id)
  PROVE  QueueInv'
<1> USE DEF QueueInv
<1>1. id \in Made
  BY TimeAssumption DEF cancel_timer, Made, Timers, TypeOK
<1>2. UNCHANGED <<now, pc, poll_until, timerfd, created, timer, expired, now_time, left, fired>>
  BY DEF cancel_timer, batchVars
<1>3. CASE id \in active_timers_
  <2> DEFINE e == [when |-> timer[id].when, id |-> id]
  <2>1. \A f \in timers_ : f.id = id => f = e
    BY DEF TypeOK, Entries, OnePlace
  <2>2. e \in timers_
    BY <1>3, <2>1 DEF SetsSame, Ids
  <2>3. timers_' = timers_ \ {e} /\ Ids(timers_)' = Ids(timers_) \ {id}
    BY <1>3, <2>1 DEF cancel_timer, Ids
  <2>4. TypeOK'
    BY <1>1, <1>2, <2>3 DEF cancel_timer, TypeOK, Made, Entries
  <2>5. OnePlace'
    BY <1>2, <2>3 DEF OnePlace, Ids
  <2>6. SetsSame' /\ DueInBatch' /\ NoOversleep'
    BY <1>2, <1>3, <2>3 DEF cancel_timer, InUserCode, SetsSame, DueInBatch, NoOversleep
  <2>7. id \notin Ids(expired)
    BY <1>3 DEF SetsSame, OnePlace
  <2>8. HeapExact'
    BY <1>2, <1>3, <2>3, <2>7 DEF cancel_timer, InUserCode, HeapExact, Ids
  <2>9. OneShot'
    BY <1>2, <2>3 DEF OneShot, Made, Ids
  <2>10. DroppedGone'
    BY <1>2, <2>3, <2>7 DEF cancel_timer, DroppedGone, Ids
  <2> QED
    BY <2>4, <2>5, <2>6, <2>8, <2>9, <2>10
<1>4. CASE id \notin active_timers_
  <2>1. UNCHANGED vars
    BY <1>2, <1>4 DEF cancel_timer, vars
  <2> QED
    BY <2>1 DEF vars, TypeOK, Made, Entries, Timers, OnePlace, SetsSame, HeapExact, DueInBatch,
       OneShot, DroppedGone, NoOversleep, Ids
<1> QED
  BY <1>3, <1>4

(***************************************************************************)
(* The poll is set to end no later than the earliest timer expires.        *)
(***************************************************************************)
LEMMA PollStep == ASSUME QueueInv, EnterPoll PROVE QueueInv'
<1> USE DEF QueueInv
<1>1. /\ UNCHANGED <<now, timerfd, created, timer, heap, timers_, active_timers_, expired,
                     now_time, left, fired, dropped>>
      /\ pc = "idle" /\ pc' = "poll"
  BY DEF EnterPoll, queueVars, batchVars, history
<1>2. /\ poll_until' \in Int
      /\ timers_ # {} => /\ poll_until' # Forever
                         /\ poll_until' <= (IF Earliest(timers_).when < now
                                            THEN now ELSE Earliest(timers_).when)
  <2>1. CASE timers_ = {}
    BY <2>1 DEF EnterPoll, get_next_timeout, Forever
  <2>2. CASE timers_ # {}
    <3> DEFINE first == Earliest(timers_).when
    <3>1. first \in Nat /\ now \in Nat
      BY <2>2, EarliestIsFirst DEF TypeOK
    <3>2. CASE first <= now
      <4>1. get_next_timeout = 0
        BY <2>2, <3>2 DEF get_next_timeout
      <4> QED
        BY <3>1, <3>2, <4>1 DEF EnterPoll, Forever
    <3>3. CASE first > now
      <4> DEFINE rounded == ((first - now) \div TicksPerMs) * TicksPerMs
      <4>1. get_next_timeout = rounded
        BY <2>2, <3>1, <3>3 DEF get_next_timeout
      <4>2. rounded \in Nat /\ rounded <= first - now
        BY <3>1, <3>3, RoundedDown
      <4> HIDE DEF rounded
      <4> QED
        BY <3>1, <3>3, <4>1, <4>2 DEF EnterPoll, Forever
    <3> QED
      BY <3>1, <3>2, <3>3
  <2> QED
    BY <2>1, <2>2
<1>3. TypeOK'
  BY <1>1, <1>2 DEF TypeOK, Made, Entries
<1>4. NoOversleep'
  BY <1>1, <1>2 DEF NoOversleep
<1> QED
  BY <1>1, <1>3, <1>4 DEF OnePlace, SetsSame, HeapExact, DueInBatch, OneShot, Made, DroppedGone, Ids

(***************************************************************************)
(* get_expired() moves what is due from the queue to an empty batch.       *)
(***************************************************************************)
LEMMA ExpireStep ==
  ASSUME QueueInv, expired = {}, pc # "destroyed", get_expired, pc' = "running",
         now_time' = now, timerfd' \in BOOLEAN,
         UNCHANGED <<now, poll_until, created, timer, heap, fired, dropped>>
  PROVE  QueueInv'
<1> USE DEF QueueInv
<1> DEFINE due == {e \in timers_ : e.when <= now}
<1>1. expired' = due /\ left' = due /\ timers_' = timers_ \ due
  BY DEF get_expired
<1>2. \A e, f \in timers_ : e.id = f.id => e = f
  BY DEF TypeOK, Entries, OnePlace
<1>3. /\ Ids(timers_)' = Ids(timers_) \ Ids(due) /\ Ids(due) \subseteq Ids(timers_)
      /\ Ids(expired)' = Ids(due) /\ Ids(left)' = Ids(due)
  BY <1>1, <1>2 DEF Ids
<1>4. TypeOK'
  BY <1>1 DEF TypeOK, Made, Entries
<1>5. OnePlace'
  BY <1>1, <1>3 DEF OnePlace
<1>6. SetsSame' /\ DueInBatch' /\ NoOversleep'
  BY <1>1, <1>3 DEF get_expired, SetsSame, DueInBatch, NoOversleep
<1>7. HeapExact' /\ DroppedGone'
  BY <1>1, <1>3 DEF HeapExact, DroppedGone, Ids
<1>8. OneShot'
  BY <1>3 DEF OneShot, Made
<1> QED
  BY <1>4, <1>5, <1>6, <1>7, <1>8

(***************************************************************************)
(* A callback of the batch runs once.                                      *)
(***************************************************************************)
LEMMA RunStep ==
  ASSUME QueueInv, NEW e \in left, RunTimer(e)
  PROVE  QueueInv'
<1> USE DEF QueueInv
<1>1. /\ UNCHANGED <<now, pc, poll_until, timerfd, created, timer, heap, timers_,
                     active_timers_, expired, now_time, dropped>>
      /\ pc = "running" /\ left' = left \ {e}
      /\ fired' = [fired EXCEPT ![e.id] = @ + 1]
  BY DEF RunTimer, queueVars
<1>2. e.id \in Made /\ e.id \in Timers /\ e \in Entries /\ e \in expired
  BY TimeAssumption DEF TypeOK, Entries, Made, Timers
<1>3. TypeOK'
  <2>1. fired' \in [Timers -> Nat]
    BY <1>1, <1>2 DEF TypeOK
  <2> QED
    BY <1>1, <2>1 DEF TypeOK, Made, Entries
<1>4. \A f \in left : f.id = e.id => f = e
  BY <1>2 DEF TypeOK, Entries, OnePlace
<1>5. e.id \notin Ids(left)' /\ e.id \in Ids(left) /\ e.id \notin Ids(timers_)
  BY <1>1, <1>2, <1>4 DEF Ids, OnePlace
<1>6. Ids(left)' \subseteq Ids(left)
  BY <1>1 DEF Ids
<1>7. OneShot'
  <2>1. ASSUME NEW i \in Timers PROVE fired'[i] = IF i = e.id THEN fired[i] + 1 ELSE fired[i]
    BY <1>1, <1>2 DEF TypeOK
  <2>2. \A i \in Timers : i > created => fired'[i] = 0
    BY <1>2, <2>1 DEF OneShot, Made, Timers, TypeOK
  <2>3. ASSUME NEW i \in Made, timer[i].interval = 0
        PROVE  fired'[i] <= 1 /\ (i \in Ids(timers_) \cup Ids(left)' => fired'[i] = 0)
    <3>1. i \in Timers
      BY TimeAssumption DEF Made, Timers, TypeOK
    <3>2. CASE i = e.id
      BY <1>5, <2>1, <2>3, <3>1, <3>2 DEF OneShot
    <3>3. CASE i # e.id
      BY <1>6, <2>1, <2>3, <3>1, <3>3 DEF OneShot
    <3> QED
      BY <3>2, <3>3
  <2> QED
    BY <1>1, <2>2, <2>3 DEF OneShot, Made, Ids
<1> QED
  BY <1>1, <1>3, <1>7 DEF OnePlace, SetsSame, HeapExact, DueInBatch, DroppedGone, NoOversleep, Ids

(***************************************************************************)
(* reset() enters the repeating timers of the batch in both sets again,    *)
(* and frees the others.                                                   *)
(***************************************************************************)
LEMMA ResetStep == ASSUME QueueInv, reset PROVE QueueInv'
<1> USE DEF QueueInv
<1> DEFINE repeating == {id \in Ids(expired) : repeat(timer[id])}
<1>1. /\ UNCHANGED <<now, poll_until, timerfd, created, now_time, left, fired, dropped>>
      /\ pc = "running" /\ pc' = "idle" /\ left = {} /\ expired' = {}
  BY DEF reset, history
<1>2. /\ timer' = [id \in Made |-> IF id \in repeating
                     THEN restart(timer[id], now_time) ELSE timer[id]]
      /\ timers_' = timers_ \cup {[when |-> timer'[id].when, id |-> id] : id \in repeating}
      /\ active_timers_' = active_timers_ \cup repeating
      /\ heap' = heap \ (Ids(expired) \ repeating)
  BY DEF reset, Made
<1>3. Ids(expired) \subseteq Made /\ Ids(timers_) \subseteq Made
  BY DEF TypeOK, Entries, Ids
<1>4. /\ \A id \in repeating : /\ timer[id].interval > 0
                               /\ timer'[id].interval = timer[id].interval
                               /\ timer'[id].when \in Nat
      /\ \A id \in Made \ repeating : timer'[id] = timer[id]
      /\ timer' \in [Made -> [when : Nat, interval : Nat]]
  BY <1>2, <1>3 DEF TypeOK, restart, repeat
<1> HIDE DEF repeating
<1>5. repeating \subseteq Ids(expired) /\ repeating \cap Ids(timers_) = {}
  BY DEF repeating, OnePlace
<1>6. /\ Ids(timers_)' = Ids(timers_) \cup repeating
      /\ Ids(expired)' = {} /\ Ids(left)' = {}
  <2> DEFINE Again(id) == [when |-> timer'[id].when, id |-> id]
  <2>1. \A id : Again(id).id = id
    OBVIOUS
  <2>3. timers_' = timers_ \cup {Again(id) : id \in repeating}
    BY <1>2
  <2>4. Ids(timers_)' = Ids(timers_) \cup repeating
    <3> HIDE DEF Again
    <3> QED
      BY <2>1, <2>3 DEF Ids
  <2>2. Ids(expired)' = {} /\ Ids(left)' = {}
    BY <1>1 DEF Ids
  <2> QED
    BY <2>2, <2>4
<1>7. TypeOK'
  <2>1. timers_' \subseteq Entries
    BY <1>2, <1>3, <1>4, <1>5 DEF TypeOK, Entries
  <2> QED
    BY <1>1, <1>4, <2>1 DEF TypeOK, Made, Entries
<1>8. OnePlace'
  <2>1. ASSUME NEW e \in timers_' PROVE e.when = timer'[e.id].when
    <3>1. CASE e \in timers_
      BY <1>3, <1>4, <1>5, <3>1 DEF OnePlace, Ids
    <3>2. CASE e \notin timers_
      BY <1>2, <3>2
    <3> QED
      BY <3>1, <3>2
  <2> QED
    BY <1>1, <1>6, <2>1 DEF OnePlace
<1>9. SetsSame' /\ DueInBatch' /\ NoOversleep'
  BY <1>1, <1>2, <1>6 DEF SetsSame, DueInBatch, NoOversleep
<1>10. HeapExact' /\ DroppedGone'
  <2>1. heap = Ids(timers_) \cup Ids(expired)
    BY <1>1 DEF HeapExact
  <2>2. heap' = Ids(timers_)'
    BY <1>2, <1>5, <1>6, <2>1 DEF OnePlace
  <2> QED
    BY <1>1, <1>5, <1>6, <2>2 DEF HeapExact, DroppedGone
<1>11. OneShot'
  <2>1. ASSUME NEW id \in Made, timer'[id].interval = 0
        PROVE  fired[id] <= 1 /\ (id \in Ids(timers_)' \cup Ids(left)' => fired[id] = 0)
    <3>1. id \notin repeating /\ timer[id].interval = 0
      BY <1>4, <2>1 DEF TypeOK
    <3> QED
      BY <1>6, <3>1 DEF OneShot
  <2> QED
    BY <1>1, <2>1 DEF OneShot, Made
<1> QED
  BY <1>7, <1>8, <1>9, <1>10, <1>11

(***************************************************************************)
(* Every step of the queue and its loop keeps the invariant.               *)
(***************************************************************************)
LEMMA QueueInvStep == QueueInv /\ [Next]_vars => QueueInv'
<1> SUFFICES ASSUME QueueInv, [Next]_vars PROVE QueueInv'
  OBVIOUS
<1> USE DEF QueueInv
<1>1. CASE Tick
  <2>1. /\ now \in Nat /\ now' = now + 1
        /\ UNCHANGED <<pc, poll_until, timerfd, created, timer, heap, timers_, active_timers_,
                       expired, now_time, left, fired, dropped>>
    BY <1>1 DEF Tick, TypeOK, queueVars, batchVars, history
  <2>2. TypeOK' /\ DueInBatch'
    BY <2>1 DEF TypeOK, Made, Entries, DueInBatch
  <2>3. NoOversleep'
    <3>1. timers_ # {} => Earliest(timers_).when \in Nat
      BY EarliestIsFirst
    <3> QED
      BY <2>1, <3>1 DEF NoOversleep, TypeOK, Earliest
  <2> QED
    BY <2>1, <2>2, <2>3 DEF OnePlace, SetsSame, HeapExact, OneShot, Made, DroppedGone, Ids
<1>2. CASE EnterPoll
  BY <1>2, PollStep
<1>3. CASE PollTimeout \/ PollEvent
  <2>1. /\ UNCHANGED <<now, poll_until, created, timer, heap, timers_, active_timers_,
                       expired, now_time, left, fired, dropped>>
        /\ pc = "poll" /\ pc' = "woken" /\ timerfd' = TRUE
    BY <1>3 DEF PollTimeout, PollEvent, Woken, queueVars, batchVars, history
  <2> QED
    BY <2>1 DEF TypeOK, Made, Entries, OnePlace, SetsSame, HeapExact, DueInBatch, OneShot,
       DroppedGone, NoOversleep, Ids
<1>4. CASE process_expired_timers \/ handle_timer_fd
  <2>1. expired = {} /\ pc # "destroyed" /\ timerfd' \in BOOLEAN
    BY <1>4 DEF process_expired_timers, handle_timer_fd, OnePlace, TypeOK
  <2> QED
    BY <1>4, <2>1, ExpireStep DEF process_expired_timers, handle_timer_fd, history
<1>5. CASE \E e \in left : RunTimer(e)
  BY <1>5, RunStep
<1>6. CASE reset
  BY <1>6, ResetStep
<1>7. ASSUME NEW delay \in Delays, run_after(delay) PROVE QueueInv'
  BY <1>7, AddStep, TimeAssumption DEF run_after
<1>8. ASSUME NEW interval \in Intervals, run_every(interval) PROVE QueueInv'
  BY <1>8, AddStep, TimeAssumption DEF run_every
<1>9. ASSUME NEW id \in Timers, cancel_timer(id) PROVE QueueInv'
  BY <1>9, CancelStep
<1>10. CASE DestroyTimerQueue
  <2>1. /\ UNCHANGED <<now, poll_until, timerfd, created, timer, timers_, active_timers_,
                       expired, now_time, left, fired, dropped>>
        /\ pc = "idle" /\ pc' = "destroyed" /\ heap' = heap \ Ids(timers_)
    BY <1>10 DEF DestroyTimerQueue, batchVars, history
  <2>2. HeapExact'
    BY <2>1 DEF HeapExact, OnePlace, Ids
  <2> QED
    BY <2>1, <2>2 DEF TypeOK, Made, Entries, OnePlace, SetsSame, DueInBatch, OneShot,
       DroppedGone, NoOversleep, Ids
<1>11. CASE UNCHANGED vars
  BY <1>11 DEF vars, TypeOK, Made, Entries, OnePlace, SetsSame, HeapExact, DueInBatch,
     OneShot, DroppedGone, NoOversleep, Ids
<1> QED
  BY <1>1, <1>2, <1>3, <1>4, <1>5, <1>6, <1>7, <1>8, <1>9, <1>10, <1>11 DEF Next, LoopStep

(***************************************************************************)
(* QueueInv holds in every reachable state.                                *)
(***************************************************************************)
LEMMA QueueInvariant == Spec => []QueueInv
<1> QED
  BY QueueInvInit, QueueInvStep, PTL DEF Spec

-----------------------------------------------------------------------------
(***************************************************************************)
(* Type correctness of the queue's state.                                  *)
(***************************************************************************)
THEOREM TypeCorrect == Spec => []TypeOK
<1>1. QueueInv => TypeOK
  BY DEF QueueInv
<1> QED
  BY <1>1, QueueInvariant, PTL

(***************************************************************************)
(* timers_ and active_timers_ always describe the same timers, one entry   *)
(* each and under the expiration the timer has.                            *)
(***************************************************************************)
THEOREM SetsAlwaysAgree == Spec => []SetsAgree
<1>1. QueueInv => SetsAgree
  <2> SUFFICES ASSUME QueueInv PROVE SetsAgree
    OBVIOUS
  <2> DEFINE EntryOf == [id \in active_timers_ |-> [when |-> timer[id].when, id |-> id]]
  <2>1. active_timers_ = Ids(timers_) /\ \A e \in timers_ : e.when = timer[e.id].when
    BY DEF QueueInv, SetsSame, OnePlace
  <2>2. IsFiniteSet(active_timers_)
    <3>1. active_timers_ \subseteq Made
      BY <2>1 DEF QueueInv, TypeOK, Entries, Ids
    <3>2. IsFiniteSet(Made)
      BY FS_Interval DEF QueueInv, TypeOK, Made
    <3> QED
      BY <3>1, <3>2, FS_Subset
  <2>3. EntryOf \in Bijection(active_timers_, timers_)
    <3>1. \A id \in active_timers_ : EntryOf[id] \in timers_ /\ EntryOf[id].id = id
      BY <2>1 DEF QueueInv, TypeOK, Entries, Ids
    <3>2. \A e \in timers_ : e.id \in active_timers_ /\ EntryOf[e.id] = e
      BY <2>1 DEF QueueInv, TypeOK, Entries, Ids
    <3>3. EntryOf \in [active_timers_ -> timers_]
      BY <3>1
    <3> HIDE DEF EntryOf
    <3>4. EntryOf \in Injection(active_timers_, timers_)
      BY <3>1, <3>3 DEF Injection, IsInjective
    <3>5. EntryOf \in Surjection(active_timers_, timers_)
      BY <3>2, <3>3 DEF Surjection
    <3> QED
      BY <3>4, <3>5 DEF Bijection
  <2>4. Cardinality(timers_) = Cardinality(active_timers_)
    <3> HIDE DEF EntryOf
    <3>1. ExistsBijection(active_timers_, timers_)
      BY <2>3 DEF ExistsBijection
    <3> QED
      BY <2>2, <3>1, FS_Bijection
  <2> QED
    BY <2>1, <2>4 DEF SetsAgree
<1> QED
  BY <1>1, QueueInvariant, PTL

(***************************************************************************)
(* Every Timer that exists is in the queue or in the batch, and every      *)
(* entry of either points to one that exists.                              *)
(***************************************************************************)
THEOREM NoTimerLeaksOrDangles == Spec => []HeapExact
<1>1. QueueInv => HeapExact
  BY DEF QueueInv
<1> QED
  BY <1>1, QueueInvariant, PTL

(***************************************************************************)
(* No callback runs early, and none of a timer that does not repeat runs   *)
(* twice.                                                                  *)
(***************************************************************************)
THEOREM RunsInTime == Spec => []NeverEarlyNorTwice
<1>1. QueueInv => NeverEarlyNorTwice
  BY DEF QueueInv, NeverEarlyNorTwice, DueInBatch, OneShot, Made
<1> QED
  BY <1>1, QueueInvariant, PTL

(***************************************************************************)
(* poll() comes back before the next timer is due, however its timeout is  *)
(* rounded down.                                                           *)
(***************************************************************************)
THEOREM PollIsShortEnough == Spec => []NoOversleep
<1>1. QueueInv => NoOversleep
  BY DEF QueueInv
<1> QED
  BY <1>1, QueueInvariant, PTL

(***************************************************************************)
(* A timer cancelled while it waited in the queue never runs again.        *)
(***************************************************************************)
THEOREM CancelledStaysCancelled == Spec => DroppedNeverFires
<1>1. QueueInv /\ [Next]_vars => [\A id \in dropped : fired'[id] = fired[id]]_vars
  <2> SUFFICES ASSUME QueueInv, Next, NEW id \in dropped PROVE fired'[id] = fired[id]
    BY DEF vars
  <2>1. ASSUME NEW e \in left, RunTimer(e) PROVE fired'[id] = fired[id]
    <3>1. id # e.id
      BY DEF QueueInv, DroppedGone, TypeOK, Ids
    <3> QED
      BY <2>1, <3>1, TimeAssumption DEF RunTimer, QueueInv, TypeOK, Made, Timers
  <2>2. CASE ~\E e \in left : RunTimer(e)
    BY <2>2 DEF Next, LoopStep, Tick, EnterPoll, PollTimeout, PollEvent, Woken,
       process_expired_timers, reset, handle_timer_fd, run_after, run_every, add_timer,
       cancel_timer, DestroyTimerQueue, history
  <2> QED
    BY <2>1, <2>2
<1> QED
  BY <1>1, QueueInvariant, PTL DEF Spec, DroppedNeverFires
=============================================================================
