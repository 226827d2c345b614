--------------------------- MODULE TcpServerProofs ---------------------------
(***************************************************************************)
(* Proofs about TcpServer for any number of io threads and clients, any    *)
(* limit on descriptors and any number of accepts per pass.                *)
(***************************************************************************)
EXTENDS TcpServer, FiniteSetTheorems, SequenceTheorems, WellFoundedInduction, TLAPS

Functors == {"established", "shutdown", "destroyed", "remove"} \X Clients
LoopPlaces == {"none", "init", "started", "published", "wait", "events", "accept", "functors",
               "destroy", "join", "exited", "left"}
ConnStates == {"away", "backlog", "rejected", "CONNECTING", "CONNECTED", "DISCONNECTING",
               "DISCONNECTED"}

(***************************************************************************)
(* The types of the server's state.                                        *)
(***************************************************************************)
TypeOK ==
  /\ pc \in [Loops -> LoopPlaces] /\ quit_ \in [Loops -> BOOLEAN]
  /\ pending \in [Loops -> Seq(Functors)] /\ batch \in [Loops -> Seq(Functors)]
  /\ active \in [Loops -> SUBSET (Clients \cup {Listener})]
  /\ num_threads_ \in 0..MaxThreads /\ joining \in Loops
  /\ next_ \in Nat /\ (next_ = 0 \/ next_ < num_threads_)
  /\ listening_ \in BOOLEAN /\ turns \in Nat
  /\ state_ \in [Clients -> ConnStates] /\ home \in [Clients -> Loops]
  /\ connections_ \subseteq Clients /\ fin \subseteq Clients
  /\ signal \in {"none", "early", "waiting", "busy"}
  /\ fault \in {"none", "assert", "iterator", "closed twice"}

(***************************************************************************)
(* The functors of loop l that have not run, oldest first.                 *)
(***************************************************************************)
Waiting(l) == batch[l] \o pending[l]

(***************************************************************************)
(* Where a loop is in its pass: functors are run after the events, and no  *)
(* loop runs before start().                                               *)
(***************************************************************************)
PassInv ==
  \A l \in Loops : /\ pc[Base] = "init" => pc[l] \in {"init", "none"}
                   /\ pc[l] # "functors" => batch[l] = << >>
                   /\ pc[l] \notin {"events", "accept"} => active[l] = {}

(***************************************************************************)
(* A functor waits on the loop of its connection, and connection_          *)
(* established() for a CONNECTING one; a removal waits on the base loop,   *)
(* for a closed connection that is still in the map; neither waits twice.  *)
(***************************************************************************)
Allowed(l, x) ==
  /\ x[2] \in Accepted
  /\ x[1] # "remove" => home[x[2]] = l
  /\ x[1] = "established" => state_[x[2]] = "CONNECTING"
  /\ x[1] = "remove" => l = Base /\ state_[x[2]] = "DISCONNECTED" /\ x[2] \in connections_

Unique == {"established", "remove"}

OnceOnly(q) == \A i, j \in DOMAIN q : q[i] = q[j] /\ q[i][1] \in Unique => i = j

FunctorInv ==
  \A l \in Loops : OnceOnly(Waiting(l)) /\ \A x \in Range(Waiting(l)) : Allowed(l, x)

(***************************************************************************)
(* The events a loop has still to serve are those of its open connections. *)
(***************************************************************************)
ActiveInv ==
  \A l \in Loops : \A c \in active[l] : c # Listener => state_[c] \in Open /\ home[c] = l

(***************************************************************************)
(* The map holds the accepted connections that are not closed, and those   *)
(* whose removal waits.                                                    *)
(***************************************************************************)
MapInv ==
  \A c \in Clients :
    c \in connections_ <=> /\ c \in Accepted
                           /\ \/ state_[c] # "DISCONNECTED"
                              \/ <<"remove", c>> \in Range(Waiting(Base))

ServerUp == pc[Base] \notin {"join", "exited"}

ServerInv ==
  ServerUp => FunctorInv /\ ActiveInv /\ MapInv /\ fault \notin {"assert", "iterator"}

(***************************************************************************)
(* The base loop's quit_ is stored by the signal handler alone, and a loop *)
(* that is entered afterwards forgets it.  When the server is destroyed    *)
(* after a signal that interrupted epoll_wait(), or a start() that threw,  *)
(* no connection of the base loop is CONNECTED.                            *)
(***************************************************************************)
SignalInv ==
  /\ quit_[Base] => \/ signal = "busy"
                    \/ signal = "early" /\ pc[Base] = "started"
                    \/ signal = "waiting" /\ pc[Base] \in {"destroy", "join", "exited"}
  /\ pc[Base] = "init" => connections_ = {}
  /\ pc[Base] = "destroy" /\ signal # "busy" => \A c \in Inline : state_[c] # "CONNECTED"
  /\ fault = "iterator" => signal = "busy"

TcpServerInv == TypeOK /\ PassInv /\ ServerInv /\ SignalInv

-----------------------------------------------------------------------------
(* Queues.                                                                 *)

(***************************************************************************)
(* The head of the batch is the head of all that waits.                    *)
(***************************************************************************)
LEMMA TailOfWaiting ==
  ASSUME NEW b \in Seq(Functors), NEW p \in Seq(Functors), b # << >>
  PROVE  Tail(b) \o p = Tail(b \o p) /\ Head(b \o p) = Head(b) /\ b \o p # << >>
<1>1. /\ Tail(b) \o p \in Seq(Functors) /\ b \o p \in Seq(Functors) /\ Len(b \o p) # 0
      /\ Len(Tail(b) \o p) = Len(b) - 1 + Len(p) /\ Len(b \o p) = Len(b) + Len(p)
  OBVIOUS
<1>2. b \o p # << >>
  BY <1>1
<1>3. Tail(b \o p) \in Seq(Functors) /\ Len(Tail(b \o p)) = Len(b) - 1 + Len(p)
  BY <1>1, <1>2
<1>4. ASSUME NEW i \in 1..(Len(b) - 1 + Len(p)) PROVE (Tail(b) \o p)[i] = Tail(b \o p)[i]
  OBVIOUS
<1>5. Tail(b) \o p = Tail(b \o p)
  BY <1>1, <1>3, <1>4, SeqEqual
<1>6. Head(b \o p) = Head(b)
  OBVIOUS
<1> QED
  BY <1>2, <1>5, <1>6

(***************************************************************************)
(* A functor queued comes after all that waits.                            *)
(***************************************************************************)
LEMMA AppendToWaiting ==
  ASSUME NEW b \in Seq(Functors), NEW p \in Seq(Functors), NEW x \in Functors
  PROVE  b \o Append(p, x) = Append(b \o p, x)
<1>1. /\ b \o Append(p, x) \in Seq(Functors) /\ Append(b \o p, x) \in Seq(Functors)
      /\ Len(b \o Append(p, x)) = Len(b) + Len(p) + 1
      /\ Len(Append(b \o p, x)) = Len(b) + Len(p) + 1
  OBVIOUS
<1>2. ASSUME NEW i \in 1..(Len(b) + Len(p) + 1)
      PROVE  (b \o Append(p, x))[i] = Append(b \o p, x)[i]
  OBVIOUS
<1> QED
  BY <1>1, <1>2, SeqEqual

(***************************************************************************)
(* Concatenation of queues is associative.                                 *)
(***************************************************************************)
LEMMA Assoc ==
  ASSUME NEW b \in Seq(Functors), NEW p \in Seq(Functors), NEW r \in Seq(Functors)
  PROVE  b \o (p \o r) = (b \o p) \o r
<1>1. /\ b \o (p \o r) \in Seq(Functors) /\ (b \o p) \o r \in Seq(Functors)
      /\ Len(b \o (p \o r)) = Len(b) + Len(p) + Len(r)
      /\ Len((b \o p) \o r) = Len(b) + Len(p) + Len(r)
  OBVIOUS
<1>2. ASSUME NEW i \in 1..(Len(b) + Len(p) + Len(r))
      PROVE  (b \o (p \o r))[i] = ((b \o p) \o r)[i]
  OBVIOUS
<1> QED
  BY <1>1, <1>2, SeqEqual

(***************************************************************************)
(* A batch and a queue make a queue of functors.                           *)
(***************************************************************************)
LEMMA QueueType ==
  ASSUME NEW b \in Seq(Functors), NEW p \in Seq(Functors)
  PROVE  b \o p \in Seq(Functors) /\ Range(b \o p) \subseteq Functors
BY DEF Range

(***************************************************************************)
(* The functor at the head is taken, and it does not wait again if it may  *)
(* wait only once.                                                         *)
(***************************************************************************)
LEMMA TakeHead ==
  ASSUME NEW q \in Seq(Functors), q # << >>, OnceOnly(q)
  PROVE  /\ Tail(q) \in Seq(Functors) /\ OnceOnly(Tail(q)) /\ Head(q) \in Range(q)
         /\ Range(q) = Range(Tail(q)) \cup {Head(q)}
         /\ Head(q)[1] \in Unique => Head(q) \notin Range(Tail(q))
<1>1. /\ Tail(q) \in Seq(Functors) /\ Len(q) \in Nat \ {0}
      /\ DOMAIN q = 1..Len(q) /\ DOMAIN Tail(q) = 1..(Len(q) - 1)
      /\ \A i \in 1..(Len(q) - 1) : Tail(q)[i] = q[i + 1]
      /\ Head(q) = q[1]
  OBVIOUS
<1>2. \A i \in 1..(Len(q) - 1) : i + 1 \in 1..Len(q) /\ i + 1 # 1
  BY <1>1
<1>3. 1 \in 1..Len(q) /\ \A j \in 1..Len(q) : j # 1 => j - 1 \in 1..(Len(q) - 1) /\ (j - 1) + 1 = j
  BY <1>1
<1>4. OnceOnly(Tail(q))
  <2> SUFFICES ASSUME NEW i \in 1..(Len(q) - 1), NEW j \in 1..(Len(q) - 1),
                      Tail(q)[i] = Tail(q)[j], Tail(q)[i][1] \in Unique
               PROVE  i = j
    BY <1>1 DEF OnceOnly
  <2>1. i + 1 = j + 1
    BY <1>1, <1>2 DEF OnceOnly
  <2> QED
    BY <2>1
<1>5. ASSUME Head(q)[1] \in Unique, Head(q) \in Range(Tail(q)) PROVE FALSE
  <2>1. PICK i \in 1..(Len(q) - 1) : Tail(q)[i] = Head(q)
    BY <1>1, <1>5 DEF Range
  <2>2. q[i + 1] = q[1] /\ q[i + 1][1] \in Unique
    BY <1>1, <1>5, <2>1
  <2> QED
    BY <1>1, <1>2, <1>3, <2>2 DEF OnceOnly
<1>6. ASSUME NEW x PROVE x \in Range(q) <=> x \in Range(Tail(q)) \cup {Head(q)}
  <2>1. ASSUME x \in Range(q) PROVE x \in Range(Tail(q)) \cup {Head(q)}
    <3>1. PICK j \in 1..Len(q) : q[j] = x
      BY <1>1, <2>1 DEF Range
    <3>2. CASE j = 1
      BY <1>1, <3>1, <3>2
    <3>3. CASE j # 1
      <4>1. j - 1 \in DOMAIN Tail(q) /\ Tail(q)[j - 1] = x
        BY <1>1, <1>3, <3>1, <3>3
      <4> QED
        BY <4>1 DEF Range
    <3> QED
      BY <3>2, <3>3
  <2>2. ASSUME x \in Range(Tail(q)) PROVE x \in Range(q)
    <3>1. PICK i \in 1..(Len(q) - 1) : Tail(q)[i] = x
      BY <1>1, <2>2 DEF Range
    <3>2. i + 1 \in DOMAIN q /\ q[i + 1] = x
      BY <1>1, <1>2, <3>1
    <3> QED
      BY <3>2 DEF Range
  <2>3. Head(q) \in Range(q)
    BY <1>1, <1>3 DEF Range
  <2> QED
    BY <2>1, <2>2, <2>3
<1> QED
  BY <1>1, <1>4, <1>5, <1>6

(***************************************************************************)
(* A functor added at the end joins the others, and waits once if it did   *)
(* not wait before.                                                        *)
(***************************************************************************)
LEMMA AddLast ==
  ASSUME NEW q \in Seq(Functors), NEW x \in Functors
  PROVE  /\ Append(q, x) \in Seq(Functors)
         /\ Range(Append(q, x)) = Range(q) \cup {x}
         /\ OnceOnly(q) /\ (x[1] \in Unique => x \notin Range(q)) => OnceOnly(Append(q, x))
<1>1. /\ Append(q, x) \in Seq(Functors) /\ Len(q) \in Nat
      /\ DOMAIN q = 1..Len(q) /\ DOMAIN Append(q, x) = 1..(Len(q) + 1)
      /\ \A i \in 1..Len(q) : Append(q, x)[i] = q[i]
      /\ Append(q, x)[Len(q) + 1] = x
  OBVIOUS
<1>2. /\ \A i \in 1..(Len(q) + 1) : i \in 1..Len(q) \/ i = Len(q) + 1
      /\ \A i \in 1..Len(q) : i \in 1..(Len(q) + 1)
      /\ Len(q) + 1 \in 1..(Len(q) + 1)
  BY <1>1
<1>3. Range(Append(q, x)) = Range(q) \cup {x}
  BY <1>1, <1>2 DEF Range
<1>4. ASSUME OnceOnly(q), x[1] \in Unique => x \notin Range(q) PROVE OnceOnly(Append(q, x))
  <2> SUFFICES ASSUME NEW i \in 1..(Len(q) + 1), NEW j \in 1..(Len(q) + 1),
                      Append(q, x)[i] = Append(q, x)[j], Append(q, x)[i][1] \in Unique
               PROVE  i = j
    BY <1>1 DEF OnceOnly
  <2> QED
    BY <1>1, <1>2, <1>4 DEF OnceOnly, Range
<1> QED
  BY <1>1, <1>3, <1>4

(***************************************************************************)
(* The functors of two queues are those of one and those of the other.     *)
(***************************************************************************)
LEMMA RangeOfBoth ==
  ASSUME NEW q \in Seq(Functors), NEW r \in Seq(Functors)
  PROVE  Range(q \o r) = Range(q) \cup Range(r)
<1>1. /\ Len(q) \in Nat /\ Len(r) \in Nat /\ DOMAIN q = 1..Len(q) /\ DOMAIN r = 1..Len(r)
      /\ DOMAIN (q \o r) = 1..(Len(q) + Len(r))
  OBVIOUS
<1>2. \A i \in 1..Len(q) : (q \o r)[i] = q[i] /\ i \in 1..(Len(q) + Len(r))
  BY <1>1
<1>3. ASSUME NEW i \in 1..Len(r)
      PROVE  (q \o r)[Len(q) + i] = r[i] /\ Len(q) + i \in 1..(Len(q) + Len(r))
  BY <1>1
<1>4. ASSUME NEW i \in 1..(Len(q) + Len(r))
      PROVE  i \in 1..Len(q) \/ (i - Len(q) \in 1..Len(r) /\ (q \o r)[i] = r[i - Len(q)])
  BY <1>1
<1> QED
  BY <1>1, <1>2, <1>3, <1>4 DEF Range

(***************************************************************************)
(* Functors that may wait more than once can be added freely.              *)
(***************************************************************************)
LEMMA AddSeveral ==
  ASSUME NEW q \in Seq(Functors), NEW r \in Seq(Functors), OnceOnly(q),
         \A x \in Range(r) : x[1] \notin Unique
  PROVE  Range(q \o r) = Range(q) \cup Range(r) /\ OnceOnly(q \o r)
<1>1. /\ Len(q) \in Nat /\ Len(r) \in Nat /\ DOMAIN q = 1..Len(q) /\ DOMAIN r = 1..Len(r)
      /\ DOMAIN (q \o r) = 1..(Len(q) + Len(r))
  OBVIOUS
<1>2. \A i \in 1..Len(q) : (q \o r)[i] = q[i] /\ i \in 1..(Len(q) + Len(r))
  BY <1>1
<1>4. ASSUME NEW i \in 1..(Len(q) + Len(r))
      PROVE  i \in 1..Len(q) \/ (i - Len(q) \in 1..Len(r) /\ (q \o r)[i] = r[i - Len(q)])
  BY <1>1
<1>5. Range(q \o r) = Range(q) \cup Range(r)
  BY RangeOfBoth
<1>6. ASSUME NEW i \in 1..(Len(q) + Len(r)), (q \o r)[i][1] \in Unique PROVE i \in 1..Len(q)
  BY <1>1, <1>4, <1>6 DEF Range
<1>7. OnceOnly(q \o r)
  <2> SUFFICES ASSUME NEW i \in 1..(Len(q) + Len(r)), NEW j \in 1..(Len(q) + Len(r)),
                      (q \o r)[i] = (q \o r)[j], (q \o r)[i][1] \in Unique
               PROVE  i = j
    BY <1>1 DEF OnceOnly
  <2>1. i \in 1..Len(q) /\ j \in 1..Len(q)
    BY <1>6
  <2>2. q[i] = q[j] /\ q[i][1] \in Unique
    BY <1>2, <2>1
  <2> QED
    BY <1>1, <2>1, <2>2 DEF OnceOnly
<1> QED
  BY <1>5, <1>7

-----------------------------------------------------------------------------
(* Types.                                                                  *)

(***************************************************************************)
(* Loops and clients are numbers, the listener is no client, and there are *)
(* finitely many clients.                                                  *)
(***************************************************************************)
LEMMA LoopTypes ==
  /\ Base \in Loops /\ Loops \subseteq Nat /\ Clients \subseteq Nat /\ Listener \notin Clients
  /\ IsFiniteSet(Clients)
<1>1. IsFiniteSet(Clients)
  BY ServerAssumption, FS_Interval DEF Clients
<1> QED
  BY <1>1, ServerAssumption DEF Base, Loops, Clients, Listener

(***************************************************************************)
(* A set of naturals that is not empty has a least element.                *)
(***************************************************************************)
LEMMA LeastNatural ==
  ASSUME NEW T \in SUBSET Nat, T # {}
  PROVE  \E m \in T : \A n \in T : m <= n
<1>1. \A m, n \in Nat : <<n, m>> \notin OpToRel(<, Nat) => ~(n < m)
  BY Zenon DEF OpToRel
<1>2. \E m \in T : \A n \in T : ~(<<n, m>> \in OpToRel(<, Nat))
  BY NatLessThanWellFounded, WFMin, Zenon
<1>3. PICK m \in T : \A n \in T : ~(n < m)
  BY <1>1, <1>2, Zenon
<1> QED
  BY <1>3

(***************************************************************************)
(* accept4() takes a client of the backlog.                                *)
(***************************************************************************)
LEMMA OldestWaits == Backlog # {} => Oldest \in Backlog
<1> SUFFICES ASSUME Backlog # {} PROVE Oldest \in Backlog
  OBVIOUS
<1>1. Backlog \in SUBSET Nat
  BY LoopTypes DEF Backlog
<1>2. \E c \in Backlog : \A d \in Backlog : c <= d
  BY <1>1, LeastNatural
<1> QED
  BY <1>2 DEF Oldest

(***************************************************************************)
(* get_next_loop() names a loop of the pool, and next_ stays inside it.    *)
(***************************************************************************)
LEMMA NextLoopType ==
  ASSUME TypeOK
  PROVE  /\ get_next_loop \in Loops
         /\ AdvanceNext => next_' \in Nat /\ (next_' = 0 \/ next_' < num_threads_)
<1>1. /\ MaxThreads \in Nat /\ num_threads_ \in 0..MaxThreads /\ next_ \in Nat
      /\ next_ = 0 \/ next_ < num_threads_
  BY ServerAssumption DEF TypeOK
<1>2. CASE num_threads_ = 0
  BY <1>1, <1>2 DEF get_next_loop, AdvanceNext, Loops, Base
<1>3. CASE num_threads_ # 0
  <2>1. next_ + 1 \in 0..MaxThreads
    BY <1>1, <1>3
  <2>2. ASSUME AdvanceNext PROVE next_' \in Nat /\ (next_' = 0 \/ next_' < num_threads_)
    BY <1>1, <2>2 DEF AdvanceNext
  <2> QED
    BY <1>3, <2>1, <2>2 DEF get_next_loop, Loops
<1> QED
  BY <1>2, <1>3

(***************************************************************************)
(* An empty queue is a queue.                                              *)
(***************************************************************************)
LEMMA EmptyQueue == << >> \in Seq(Functors)
OBVIOUS

(***************************************************************************)
(* The rest of a queue is a queue.                                         *)
(***************************************************************************)
LEMMA RestOfQueue ==
  ASSUME NEW q \in Seq(Functors), q # << >>
  PROVE  Tail(q) \in Seq(Functors)
OBVIOUS

(***************************************************************************)
(* What HandOver() adds to the queue of loop l.                            *)
(***************************************************************************)
Handed(functor, l) ==
  LET mine == SetToSeq({c \in connections_ \ Inline : home[c] = l})
  IN  [i \in DOMAIN mine |-> <<functor, mine[i]>>]

(***************************************************************************)
(* Each loop is handed functors of its own connections.                    *)
(***************************************************************************)
LEMMA HandedType ==
  ASSUME TypeOK, NEW functor \in {"shutdown", "destroyed"}, NEW l \in Loops
  PROVE  /\ Handed(functor, l) \in Seq(Functors)
         /\ \A x \in Range(Handed(functor, l)) :
              x[1] = functor /\ x[2] \in connections_ /\ home[x[2]] = l
<1> DEFINE S == {c \in connections_ \ Inline : home[c] = l}
           mine == SetToSeq(S)
<1>1. S \subseteq Clients /\ IsFiniteSet(S)
  <2>1. S \subseteq Clients
    BY DEF TypeOK
  <2> QED
    BY <2>1, LoopTypes, FS_Subset
<1>2. mine \in [1..Cardinality(S) -> S] /\ Cardinality(S) \in Nat
  <2> HIDE DEF S
  <2>1. Cardinality(S) \in Nat /\ ExistsBijection(1..Cardinality(S), S)
    BY <1>1, FS_CardinalityType
  <2>2. PICK f : f \in Bijection(1..Cardinality(S), S)
    BY <2>1 DEF ExistsBijection
  <2>3. f \in [1..Cardinality(S) -> S] /\ IsInjective(f)
    BY <2>2 DEF Bijection, Injection, IsInjective
  <2> QED
    BY <2>1, <2>3 DEF SetToSeq
<1>3. Handed(functor, l) = [i \in DOMAIN mine |-> <<functor, mine[i]>>]
  BY DEF Handed
<1> HIDE DEF mine
<1>4. \A c \in S : c \in connections_ /\ home[c] = l /\ <<functor, c>> \in Functors
  BY <1>1 DEF Functors
<1> HIDE DEF S
<1>5. Handed(functor, l) \in [1..Cardinality(S) -> Functors]
  BY <1>2, <1>3, <1>4
<1>6. Handed(functor, l) \in Seq(Functors)
  BY <1>2, <1>5
<1> QED
  BY <1>2, <1>3, <1>4, <1>6 DEF Range

(***************************************************************************)
(* HandOver() adds to the end of every queue.                              *)
(***************************************************************************)
LEMMA HandOverType ==
  ASSUME TypeOK, NEW functor \in {"shutdown", "destroyed"}, HandOver(functor)
  PROVE  /\ pending' = [l \in Loops |-> pending[l] \o Handed(functor, l)]
         /\ pending' \in [Loops -> Seq(Functors)]
<1>1. pending' = [l \in Loops |-> pending[l] \o Handed(functor, l)]
  BY DEF HandOver, Handed
<1>2. \A l \in Loops : pending[l] \o Handed(functor, l) \in Seq(Functors)
  BY HandedType, ConcatProperties DEF TypeOK
<1> QED
  BY <1>1, <1>2

(***************************************************************************)
(* Queueing one functor keeps the types.                                   *)
(***************************************************************************)
LEMMA AppendType ==
  ASSUME TypeOK, NEW k \in Loops, NEW x \in Functors,
         pending' = [pending EXCEPT ![k] = Append(@, x)]
  PROVE  pending' \in [Loops -> Seq(Functors)]
<1>1. Append(pending[k], x) \in Seq(Functors)
  BY AddLast DEF TypeOK
<1> QED
  BY <1>1 DEF TypeOK

(***************************************************************************)
(* remove_connection() keeps the types.                                    *)
(***************************************************************************)
LEMMA CloseType ==
  ASSUME TypeOK, NEW l \in Loops, NEW c \in Clients,
         remove_connection(l, c) \/ remove_connection_in_loop(c)
  PROVE  /\ pending' \in [Loops -> Seq(Functors)] /\ connections_' \subseteq Clients
         /\ fault' \in {"none", "assert", "iterator", "closed twice"}
<1>1. home[c] \in Loops /\ Base \in Loops
  BY LoopTypes DEF TypeOK
<1>2. <<"destroyed", c>> \in Functors /\ <<"remove", c>> \in Functors
  BY DEF Functors
<1>3. \/ pending' = [pending EXCEPT ![home[c]] = Append(@, <<"destroyed", c>>)]
      \/ pending' = [pending EXCEPT ![Base] = Append(@, <<"remove", c>>)]
  BY DEF remove_connection, remove_connection_in_loop
<1>4. pending' \in [Loops -> Seq(Functors)]
  BY <1>1, <1>2, <1>3, AppendType
<1> QED
  BY <1>4 DEF TypeOK, remove_connection, remove_connection_in_loop

(***************************************************************************)
(* The initial state has the types.                                        *)
(***************************************************************************)
LEMMA TypeInit == Init => TypeOK
<1> SUFFICES ASSUME Init PROVE TypeOK
  OBVIOUS
<1>1. Base \in Loops /\ 0 \in Loops /\ << >> \in Seq(Functors)
  BY ServerAssumption DEF Loops, Base
<1>2. pc \in [Loops -> LoopPlaces] /\ quit_ \in [Loops -> BOOLEAN]
  BY DEF Init, LoopPlaces
<1>3. pending \in [Loops -> Seq(Functors)] /\ batch \in [Loops -> Seq(Functors)]
  BY <1>1 DEF Init
<1>4. active \in [Loops -> SUBSET (Clients \cup {Listener})]
  BY DEF Init
<1>5. state_ \in [Clients -> ConnStates] /\ home \in [Clients -> Loops]
  BY <1>1 DEF Init, ConnStates
<1>6. /\ num_threads_ \in 0..MaxThreads /\ next_ = 0 /\ joining = 0 /\ listening_ = FALSE
      /\ turns = 0 /\ connections_ = {} /\ fin = {} /\ signal = "none" /\ fault = "none"
  BY DEF Init
<1> QED
  BY <1>1, <1>2, <1>3, <1>4, <1>5, <1>6 DEF TypeOK

(***************************************************************************)
(* Every step keeps the types.                                             *)
(***************************************************************************)
LEMMA TypeStep == TypeOK /\ [Next]_vars => TypeOK'
<1> SUFFICES ASSUME TypeOK, [Next]_vars PROVE TypeOK'
  OBVIOUS
<1> USE DEF TypeOK, loopVars, poolVars, connVars
<1>0. Base \in Loops /\ \A c \in Clients : home[c] \in Loops
  BY LoopTypes
<1>1. CASE start \/ StartThrows
  <2>1. pc' \in [Loops -> LoopPlaces]
    BY <1>1 DEF start, StartThrows, StartPool, LoopPlaces
  <2> QED
    BY <1>1, <2>1 DEF start, StartThrows, listen
<1>2. CASE DestroyServer
  <2>1. pending' \in [Loops -> Seq(Functors)]
    BY <1>2, HandOverType DEF DestroyServer
  <2>2. state_' \in [Clients -> ConnStates]
    BY <1>2 DEF DestroyServer, ConnStates
  <2>3. pc' \in [Loops -> LoopPlaces]
    BY <1>2 DEF DestroyServer, Go, LoopPlaces
  <2> QED
    BY <1>2, <2>1, <2>2, <2>3 DEF DestroyServer
<1>3. CASE Exit
  <2>1. pc' \in [Loops -> LoopPlaces]
    BY <1>3 DEF Exit, Go, LoopPlaces
  <2> QED
    BY <1>3, <2>1 DEF Exit
<1>4. CASE BeginAccept
  <2>1. pc' \in [Loops -> LoopPlaces] /\ turns' \in Nat
    BY <1>4, ServerAssumption DEF BeginAccept, Go, LoopPlaces
  <2>2. active' \in [Loops -> SUBSET (Clients \cup {Listener})]
    BY <1>4 DEF BeginAccept
  <2> QED
    BY <1>4, <2>1, <2>2 DEF BeginAccept
<1>5. CASE new_connection
  <2> DEFINE c == Oldest
             l == get_next_loop
  <2>1. c \in Clients /\ l \in Loops
    BY <1>5, OldestWaits, NextLoopType DEF new_connection, Backlog
  <2>2. <<"established", c>> \in Functors
    BY <2>1 DEF Functors
  <2>3. /\ home' = [home EXCEPT ![c] = l] /\ connections_' = connections_ \cup {c}
        /\ \/ state_' = [state_ EXCEPT ![c] = "CONNECTED"] /\ pending' = pending
           \/ /\ state_' = [state_ EXCEPT ![c] = "CONNECTING"]
              /\ pending' = [pending EXCEPT ![l] = Append(@, <<"established", c>>)]
    BY <1>5 DEF new_connection
  <2>4. next_' \in Nat /\ (next_' = 0 \/ next_' < num_threads_')
    BY <1>5, NextLoopType DEF new_connection
  <2>5. turns' \in Nat
    <3>1. turns \in Nat /\ turns > 0 /\ turns' = turns - 1
      BY <1>5 DEF new_connection
    <3> HIDE DEF TypeOK, loopVars, poolVars, connVars
    <3> QED
      BY <3>1
  <2> HIDE DEF c, l
  <2>6. pending' \in [Loops -> Seq(Functors)]
    BY <2>1, <2>2, <2>3, AppendType
  <2>7. /\ home' \in [Clients -> Loops] /\ connections_' \subseteq Clients
        /\ state_' \in [Clients -> ConnStates]
    BY <2>1, <2>3 DEF ConnStates
  <2> QED
    BY <1>5, <2>4, <2>5, <2>6, <2>7 DEF new_connection
<1>6. CASE AcceptFails
  <2>1. pc' \in [Loops -> LoopPlaces] /\ turns' \in Nat
    BY <1>6 DEF AcceptFails, Go, LoopPlaces
  <2>2. state_' \in [Clients -> ConnStates]
    BY <1>6 DEF AcceptFails, RejectOldest, ConnStates
  <2> QED
    BY <1>6, <2>1, <2>2 DEF AcceptFails
<1>7. CASE EndAccept
  <2>1. pc' \in [Loops -> LoopPlaces] /\ turns' \in Nat
    BY <1>7 DEF EndAccept, Go, LoopPlaces
  <2> QED
    BY <1>7, <2>1 DEF EndAccept
<1>8. ASSUME NEW l \in Loops, DestroyThread(l) PROVE TypeOK'
  BY <1>8 DEF DestroyThread
<1>9. ASSUME NEW l \in Loops, Enter(l) PROVE TypeOK'
  <2>1. pc' \in [Loops -> LoopPlaces]
    BY <1>9 DEF Enter, Go, LoopPlaces
  <2> QED
    BY <1>9, <2>1 DEF Enter
<1>10. ASSUME NEW l \in Loops, Poll(l) PROVE TypeOK'
  <2>1. pc' \in [Loops -> LoopPlaces]
    BY <1>10 DEF Poll, Go, LoopPlaces
  <2>2. Ready(l) \subseteq Clients \cup {Listener}
    BY DEF Ready
  <2>3. active' \in [Loops -> SUBSET (Clients \cup {Listener})]
    BY <1>10, <2>2 DEF Poll
  <2> QED
    BY <1>10, <2>1, <2>3 DEF Poll
<1>11. ASSUME NEW l \in Loops, Swap(l) PROVE TypeOK'
  <2>1. pc' \in [Loops -> LoopPlaces]
    BY <1>11 DEF Swap, Go, LoopPlaces
  <2>2. << >> \in Seq(Functors)
    BY EmptyQueue
  <2>3. pending' \in [Loops -> Seq(Functors)] /\ batch' \in [Loops -> Seq(Functors)]
    BY <1>11, <2>2 DEF Swap
  <2> QED
    BY <1>11, <2>1, <2>3 DEF Swap
<1>12. ASSUME NEW l \in Loops, EndPass(l) PROVE TypeOK'
  <2>1. pc' \in [Loops -> LoopPlaces]
    BY <1>12 DEF EndPass, Go, LoopPlaces
  <2>2. << >> \in Seq(Functors)
    BY EmptyQueue
  <2>3. pending' \in [Loops -> Seq(Functors)]
    BY <1>12, <2>2 DEF EndPass
  <2> QED
    BY <1>12, <2>1, <2>3 DEF EndPass
<1>13. ASSUME NEW l \in Loops, NEW c \in Clients, HandleClosed(l, c) PROVE TypeOK'
  <2>1. active' \in [Loops -> SUBSET (Clients \cup {Listener})]
    BY <1>13 DEF HandleClosed
  <2>2. state_' \in [Clients -> ConnStates]
    BY <1>13 DEF HandleClosed, handle_close, ConnStates
  <2>3. /\ pending' \in [Loops -> Seq(Functors)] /\ connections_' \subseteq Clients
        /\ fault' \in {"none", "assert", "iterator", "closed twice"}
    BY <1>13, CloseType DEF HandleClosed, handle_close
  <2> QED
    BY <1>13, <2>1, <2>2, <2>3 DEF HandleClosed
<1>14. ASSUME NEW l \in Loops, NEW c \in Clients, HandleHungUp(l, c) PROVE TypeOK'
  BY <1>14 DEF HandleHungUp
<1>15. ASSUME NEW l \in Loops, NEW c \in Clients, Functor(l, c) PROVE TypeOK'
  <2>1. batch' \in [Loops -> Seq(Functors)] /\ state_' \in [Clients -> ConnStates]
    <3>1. PICK f : Running(l, f, c)
      BY <1>15 DEF Functor, connection_established, shutdown, connection_destroyed, RunRemove
    <3>2. batch[l] # << >> /\ batch' = [batch EXCEPT ![l] = Tail(@)]
      BY <3>1 DEF Running
    <3>3. Tail(batch[l]) \in Seq(Functors)
      BY <3>2, RestOfQueue
    <3>4. batch' \in [Loops -> Seq(Functors)]
      BY <3>2, <3>3
    <3>5. state_' \in [Clients -> ConnStates]
      BY <1>15 DEF Functor, connection_established, shutdown, connection_destroyed, RunRemove,
         handle_close, Shut, ConnStates
    <3> QED
      BY <3>4, <3>5
  <2>2. /\ pending' \in [Loops -> Seq(Functors)] /\ connections_' \subseteq Clients
        /\ fault' \in {"none", "assert", "iterator", "closed twice"}
    <3>1. CASE remove_connection(l, c) \/ remove_connection_in_loop(c)
      BY <3>1, CloseType
    <3>2. CASE UNCHANGED <<pending, connections_>> /\ fault' \in {fault, "assert"}
      BY <3>2
    <3> QED
      BY <1>15, <3>1, <3>2 DEF Functor, connection_established, shutdown, connection_destroyed,
         RunRemove, handle_close
  <2>3. UNCHANGED <<pc, quit_, active, poolVars, listening_, turns, home, fin, signal>>
    BY <1>15 DEF Functor, connection_established, shutdown, connection_destroyed, RunRemove,
       Running
  <2> QED
    BY <2>1, <2>2, <2>3
<1>16. ASSUME NEW c \in Clients, Client(c) PROVE TypeOK'
  <2>1. state_' \in [Clients -> ConnStates] /\ fin' \subseteq Clients
    BY <1>16 DEF Client, ClientConnects, ClientCloses, ConnStates
  <2> QED
    BY <1>16, <2>1 DEF Client, ClientConnects, ClientCloses
<1>17. CASE signal_handler
  <2>1. pending' \in [Loops -> Seq(Functors)]
    BY <1>17, HandOverType DEF signal_handler, stop
  <2>2. state_' \in [Clients -> ConnStates]
    BY <1>17 DEF signal_handler, stop, Shut, ConnStates
  <2>3. pc' \in [Loops -> LoopPlaces] /\ quit_' \in [Loops -> BOOLEAN]
    BY <1>17 DEF signal_handler, Go, LoopPlaces
  <2> QED
    BY <1>17, <2>1, <2>2, <2>3 DEF signal_handler, stop, disable_listening
<1>18. CASE UNCHANGED vars
  BY <1>18 DEF vars
<1> QED
  BY <1>1, <1>2, <1>3, <1>4, <1>5, <1>6, <1>7, <1>8, <1>9, <1>10, <1>11, <1>12, <1>13, <1>14,
     <1>15, <1>16, <1>17, <1>18 DEF Next, MainStep, LoopStep

-----------------------------------------------------------------------------
(* The pass of a loop.                                                     *)

(***************************************************************************)
(* The initial state satisfies PassInv.                                    *)
(***************************************************************************)
LEMMA PassInit == Init => PassInv
BY LoopTypes DEF Init, PassInv

(***************************************************************************)
(* Every step keeps PassInv.                                               *)
(***************************************************************************)
LEMMA PassStep == TypeOK /\ PassInv /\ [Next]_vars => PassInv'
<1> SUFFICES ASSUME TypeOK, PassInv, [Next]_vars, NEW k \in Loops
             PROVE  /\ pc'[Base] = "init" => pc'[k] \in {"init", "none"}
                    /\ pc'[k] # "functors" => batch'[k] = << >>
                    /\ pc'[k] \notin {"events", "accept"} => active'[k] = {}
  BY DEF PassInv
<1>0. /\ pc[Base] = "init" => pc[k] \in {"init", "none"}
      /\ pc[k] # "functors" => batch[k] = << >>
      /\ pc[k] \notin {"events", "accept"} => active[k] = {}
      /\ Base \in Loops
      /\ pc \in [Loops -> LoopPlaces] /\ batch \in [Loops -> Seq(Functors)]
      /\ active \in [Loops -> SUBSET (Clients \cup {Listener})]
  BY LoopTypes DEF PassInv, TypeOK
<1> USE DEF loopVars, At, Go
<1>1. CASE start \/ StartThrows
  BY <1>0, <1>1 DEF start, StartThrows, StartPool
<1>2. CASE DestroyServer \/ Exit \/ new_connection \/ AcceptFails \/ EndAccept
  BY <1>0, <1>2 DEF DestroyServer, Exit, new_connection, AcceptFails, EndAccept
<1>3. CASE BeginAccept
  BY <1>0, <1>3 DEF BeginAccept
<1>4. ASSUME NEW l \in Loops, DestroyThread(l) \/ Enter(l) \/ Poll(l)
      PROVE  /\ pc'[Base] = "init" => pc'[k] \in {"init", "none"}
             /\ pc'[k] # "functors" => batch'[k] = << >>
             /\ pc'[k] \notin {"events", "accept"} => active'[k] = {}
  BY <1>0, <1>4 DEF DestroyThread, Enter, Poll
<1>5. ASSUME NEW l \in Loops, Swap(l) \/ EndPass(l)
      PROVE  /\ pc'[Base] = "init" => pc'[k] \in {"init", "none"}
             /\ pc'[k] # "functors" => batch'[k] = << >>
             /\ pc'[k] \notin {"events", "accept"} => active'[k] = {}
  BY <1>0, <1>5 DEF Swap, EndPass
<1>6. ASSUME NEW l \in Loops, NEW c \in Clients, HandleClosed(l, c) \/ HandleHungUp(l, c)
      PROVE  /\ pc'[Base] = "init" => pc'[k] \in {"init", "none"}
             /\ pc'[k] # "functors" => batch'[k] = << >>
             /\ pc'[k] \notin {"events", "accept"} => active'[k] = {}
  BY <1>0, <1>6 DEF HandleClosed, HandleHungUp
<1>7. ASSUME NEW l \in Loops, NEW c \in Clients, Functor(l, c)
      PROVE  /\ pc'[Base] = "init" => pc'[k] \in {"init", "none"}
             /\ pc'[k] # "functors" => batch'[k] = << >>
             /\ pc'[k] \notin {"events", "accept"} => active'[k] = {}
  BY <1>0, <1>7 DEF Functor, connection_established, shutdown, connection_destroyed, RunRemove,
     Running
<1>8. ASSUME NEW c \in Clients, Client(c)
      PROVE  /\ pc'[Base] = "init" => pc'[k] \in {"init", "none"}
             /\ pc'[k] # "functors" => batch'[k] = << >>
             /\ pc'[k] \notin {"events", "accept"} => active'[k] = {}
  BY <1>0, <1>8 DEF Client, ClientConnects, ClientCloses
<1>9. CASE signal_handler
  BY <1>0, <1>9 DEF signal_handler
<1>10. CASE UNCHANGED vars
  BY <1>0, <1>10 DEF vars
<1> QED
  BY <1>1, <1>2, <1>3, <1>4, <1>5, <1>6, <1>7, <1>8, <1>9, <1>10 DEF Next, MainStep, LoopStep

(***************************************************************************)
(* Once the server is destroyed it does not come up again.                 *)
(***************************************************************************)
LEMMA StaysDown == TypeOK /\ [Next]_vars /\ ServerUp' => ServerUp
<1> SUFFICES ASSUME TypeOK, [Next]_vars, ServerUp' PROVE ServerUp
  OBVIOUS
<1>0. Base \in Loops /\ pc \in [Loops -> LoopPlaces]
  BY LoopTypes DEF TypeOK
<1> USE DEF ServerUp, At, Go
<1>1. CASE MainStep
  BY <1>0, <1>1 DEF MainStep, start, StartThrows, DestroyServer, Exit, BeginAccept,
     new_connection, AcceptFails, EndAccept, DestroyThread
<1>2. ASSUME NEW l \in Loops, Enter(l) \/ Poll(l) \/ Swap(l) \/ EndPass(l) PROVE ServerUp
  BY <1>0, <1>2 DEF Enter, Poll, Swap, EndPass
<1>3. ASSUME NEW l \in Loops, NEW c \in Clients,
             HandleClosed(l, c) \/ HandleHungUp(l, c) \/ Functor(l, c)
      PROVE  ServerUp
  BY <1>3 DEF HandleClosed, HandleHungUp, Functor, connection_established, shutdown,
     connection_destroyed, RunRemove, Running
<1>4. ASSUME NEW c \in Clients, Client(c) PROVE ServerUp
  BY <1>4 DEF Client, ClientConnects, ClientCloses
<1>5. CASE signal_handler
  BY <1>0, <1>5 DEF signal_handler
<1>6. CASE UNCHANGED vars
  BY <1>6 DEF vars
<1> QED
  BY <1>1, <1>2, <1>3, <1>4, <1>5, <1>6 DEF Next, LoopStep

-----------------------------------------------------------------------------
(* What a step does to the waiting functors.                               *)

(***************************************************************************)
(* The functors of loop l that wait once the step has taken what it runs,  *)
(* before it queues anything.                                              *)
(***************************************************************************)
Mid(l) == batch'[l] \o pending[l]

(***************************************************************************)
(* What waits on a loop is a queue of functors.                            *)
(***************************************************************************)
LEMMA WaitingType ==
  ASSUME TypeOK, NEW l \in Loops
  PROVE  /\ Waiting(l) \in Seq(Functors) /\ Range(Waiting(l)) \subseteq Functors
         /\ batch[l] \in Seq(Functors) /\ pending[l] \in Seq(Functors)
<1>1. batch[l] \in Seq(Functors) /\ pending[l] \in Seq(Functors)
  BY DEF TypeOK
<1> QED
  BY <1>1, QueueType DEF Waiting

(***************************************************************************)
(* Running a functor takes it from what waits on its loop, and changes no  *)
(* other loop.                                                             *)
(***************************************************************************)
LEMMA TakeFunctor ==
  ASSUME TypeOK, FunctorInv, NEW l \in Loops, NEW f, NEW c, Running(l, f, c)
  PROVE  /\ \A k \in Loops : /\ Mid(k) \in Seq(Functors) /\ OnceOnly(Mid(k))
                             /\ k # l => Mid(k) = Waiting(k)
         /\ <<f, c>> \in Range(Waiting(l))
         /\ Range(Waiting(l)) = Range(Mid(l)) \cup {<<f, c>>}
         /\ f \in Unique => <<f, c>> \notin Range(Mid(l))
<1>1. /\ batch[l] # << >> /\ Head(batch[l]) = <<f, c>>
      /\ batch' = [batch EXCEPT ![l] = Tail(@)]
  BY DEF Running
<1>2. batch[l] \in Seq(Functors) /\ pending[l] \in Seq(Functors) /\ Waiting(l) \in Seq(Functors)
  BY WaitingType
<1>3. batch'[l] = Tail(batch[l]) /\ \A k \in Loops : k # l => batch'[k] = batch[k]
  BY <1>1 DEF TypeOK
<1>4. Mid(l) = Tail(Waiting(l)) /\ Head(Waiting(l)) = <<f, c>> /\ Waiting(l) # << >>
  BY <1>1, <1>2, <1>3, TailOfWaiting DEF Mid, Waiting
<1>5. OnceOnly(Waiting(l))
  BY DEF FunctorInv
<1>6. /\ Mid(l) \in Seq(Functors) /\ OnceOnly(Mid(l)) /\ <<f, c>> \in Range(Waiting(l))
      /\ Range(Waiting(l)) = Range(Mid(l)) \cup {<<f, c>>}
      /\ f \in Unique => <<f, c>> \notin Range(Mid(l))
  BY <1>2, <1>4, <1>5, TakeHead
<1>7. ASSUME NEW k \in Loops, k # l
      PROVE  Mid(k) = Waiting(k) /\ Mid(k) \in Seq(Functors) /\ OnceOnly(Mid(k))
  <2>1. Mid(k) = Waiting(k)
    BY <1>3, <1>7 DEF Mid, Waiting
  <2> QED
    BY <2>1, WaitingType DEF FunctorInv
<1> QED
  BY <1>6, <1>7

(***************************************************************************)
(* Queueing a functor adds it to what waits on its loop, and changes no    *)
(* other.                                                                  *)
(***************************************************************************)
LEMMA AddFunctor ==
  ASSUME TypeOK, TypeOK', NEW k \in Loops, NEW x \in Functors,
         pending' = [pending EXCEPT ![k] = Append(@, x)],
         \A l \in Loops : Mid(l) \in Seq(Functors) /\ OnceOnly(Mid(l)),
         x[1] \in Unique => x \notin Range(Mid(k))
  PROVE  /\ \A l \in Loops : OnceOnly(Waiting(l)') /\ (l # k => Waiting(l)' = Mid(l))
         /\ Range(Waiting(k)') = Range(Mid(k)) \cup {x}
<1>1. pending'[k] = Append(pending[k], x) /\ \A l \in Loops : l # k => pending'[l] = pending[l]
  BY DEF TypeOK
<1>2. batch'[k] \in Seq(Functors) /\ pending[k] \in Seq(Functors)
  BY DEF TypeOK
<1>3. Waiting(k)' = Append(Mid(k), x)
  BY <1>1, <1>2, AppendToWaiting DEF Mid, Waiting
<1>4. Range(Waiting(k)') = Range(Mid(k)) \cup {x} /\ OnceOnly(Waiting(k)')
  BY <1>3, AddLast
<1>5. ASSUME NEW l \in Loops, l # k PROVE Waiting(l)' = Mid(l)
  BY <1>1, <1>5 DEF Mid, Waiting
<1> QED
  BY <1>4, <1>5

(***************************************************************************)
(* A step that runs no functor leaves what waits.                          *)
(***************************************************************************)
LEMMA NothingTaken ==
  ASSUME TypeOK, FunctorInv, batch' = batch
  PROVE  \A l \in Loops : /\ Mid(l) = Waiting(l) /\ Mid(l) \in Seq(Functors)
                          /\ OnceOnly(Mid(l))
<1>1. \A l \in Loops : Mid(l) = Waiting(l)
  BY DEF Mid, Waiting
<1> QED
  BY <1>1, WaitingType DEF FunctorInv

(***************************************************************************)
(* A step that queues nothing adds nothing.                                *)
(***************************************************************************)
LEMMA NothingAdded ==
  ASSUME pending' = pending, NEW l \in Loops
  PROVE  Waiting(l)' = Mid(l)
BY DEF Mid, Waiting

-----------------------------------------------------------------------------
(* The functors, the events and the map.                                   *)

QueuesInv == FunctorInv /\ ActiveInv /\ MapInv

(***************************************************************************)
(* A step that opens or closes no connection, and queues no functor.       *)
(***************************************************************************)
SameLife ==
  \A c \in Clients :
    /\ c \in Accepted' <=> c \in Accepted
    /\ state_'[c] \in Open <=> state_[c] \in Open
    /\ state_'[c] = "CONNECTING" <=> state_[c] = "CONNECTING"
    /\ state_'[c] = "DISCONNECTED" <=> state_[c] = "DISCONNECTED"

Shrinks ==
  \A l \in Loops : /\ OnceOnly(Waiting(l)')
                   /\ Range(Waiting(l)') \subseteq Range(Waiting(l))

RemovalsKept ==
  \A c \in Clients : <<"remove", c>> \in Range(Waiting(Base)') <=>
                     <<"remove", c>> \in Range(Waiting(Base))

(***************************************************************************)
(* A functor is its name and its connection.                               *)
(***************************************************************************)
LEMMA FunctorParts ==
  ASSUME NEW x \in Functors
  PROVE  x[2] \in Clients /\ x = <<x[1], x[2]>>
BY DEF Functors

(***************************************************************************)
(* Such a step keeps the invariant, if the events it adds are those of     *)
(* open connections.                                                       *)
(***************************************************************************)
LEMMA QuietStep ==
  ASSUME TypeOK, TypeOK', QueuesInv, SameLife, Shrinks, RemovalsKept,
         UNCHANGED <<home, connections_>>,
         \A l \in Loops : \A c \in active'[l] :
           c # Listener => c \in active[l] \/ (state_[c] \in Open /\ home[c] = l)
  PROVE  QueuesInv'
<1>1. FunctorInv'
  <2> SUFFICES ASSUME NEW l \in Loops, NEW x \in Range(Waiting(l)') PROVE Allowed(l, x)'
    BY DEF FunctorInv, Shrinks
  <2>1. x \in Range(Waiting(l)) /\ x \in Functors
    BY WaitingType DEF Shrinks
  <2>2. Allowed(l, x) /\ x[2] \in Clients
    BY <2>1, FunctorParts DEF QueuesInv, FunctorInv
  <2> QED
    BY <2>2 DEF Allowed, SameLife
<1>2. ActiveInv'
  <2> SUFFICES ASSUME NEW l \in Loops, NEW c \in active'[l], c # Listener
               PROVE  state_'[c] \in Open /\ home'[c] = l
    BY DEF ActiveInv, Open
  <2>1. c \in Clients
    <3>1. active'[l] \in SUBSET (Clients \cup {Listener})
      BY DEF TypeOK
    <3> QED
      BY <3>1
  <2>2. state_[c] \in Open /\ home[c] = l
    BY DEF QueuesInv, ActiveInv
  <2> QED
    BY <2>1, <2>2 DEF SameLife
<1>3. MapInv'
  BY DEF QueuesInv, MapInv, SameLife, RemovalsKept
<1> QED
  BY <1>1, <1>2, <1>3 DEF QueuesInv

(***************************************************************************)
(* A step that leaves the queues alone keeps what waits.                   *)
(***************************************************************************)
LEMMA SameQueues ==
  ASSUME TypeOK, QueuesInv, UNCHANGED <<pending, batch>>
  PROVE  Shrinks /\ RemovalsKept
<1>1. \A l \in Loops : Waiting(l)' = Waiting(l)
  BY DEF Waiting
<1> QED
  BY <1>1, LoopTypes DEF Shrinks, RemovalsKept, QueuesInv, FunctorInv

(***************************************************************************)
(* A step that leaves state_ alone opens and closes nothing.               *)
(***************************************************************************)
LEMMA SameStates == state_' = state_ => SameLife
BY DEF SameLife, Accepted, Open

(***************************************************************************)
(* Another order of the same queue: do_pending_functors() swaps.           *)
(***************************************************************************)
LEMMA SwapQueues ==
  ASSUME TypeOK, PassInv, QueuesInv, NEW l \in Loops, Swap(l)
  PROVE  Shrinks /\ RemovalsKept
<1>1. batch[l] = << >> /\ batch'[l] = pending[l] /\ pending'[l] = << >>
  BY DEF Swap, PassInv, TypeOK, At
<1>2. \A k \in Loops : k # l => batch'[k] = batch[k] /\ pending'[k] = pending[k]
  BY DEF Swap, TypeOK
<1>3. pending[l] \in Seq(Functors)
  BY WaitingType
<1>4. pending[l] \o << >> = pending[l] /\ << >> \o pending[l] = pending[l]
  BY <1>3, ConcatEmptySeq
<1>5. \A k \in Loops : Waiting(k)' = Waiting(k)
  BY <1>1, <1>2, <1>4 DEF Waiting
<1> QED
  BY <1>5, LoopTypes DEF Shrinks, RemovalsKept, QueuesInv, FunctorInv

(***************************************************************************)
(* Nothing waits in two empty queues.                                      *)
(***************************************************************************)
LEMMA EmptyRange == Range(<< >> \o << >>) = {} /\ OnceOnly(<< >> \o << >>)
<1>1. << >> \o << >> = << >>
  OBVIOUS
<1>2. DOMAIN << >> = {}
  OBVIOUS
<1> QED
  BY <1>1, <1>2 DEF Range, OnceOnly

(***************************************************************************)
(* An io thread that leaves drops its functors.                            *)
(***************************************************************************)
LEMMA DropQueues ==
  ASSUME TypeOK, QueuesInv, NEW l \in Loops, EndPass(l)
  PROVE  Shrinks /\ RemovalsKept
<1>1. CASE quit_[l] /\ l # Base
  <2>1. batch[l] = << >> /\ batch' = batch /\ pending' = [pending EXCEPT ![l] = << >>]
    BY <1>1 DEF EndPass, loopVars
  <2>2. Waiting(l)' = << >> \o << >> /\ \A k \in Loops : k # l => Waiting(k)' = Waiting(k)
    BY <2>1 DEF Waiting, TypeOK
  <2>3. Range(Waiting(l)') = {} /\ OnceOnly(Waiting(l)')
    BY <2>2, EmptyRange
  <2> QED
    BY <1>1, <2>2, <2>3, LoopTypes DEF Shrinks, RemovalsKept, QueuesInv, FunctorInv
<1>2. CASE ~(quit_[l] /\ l # Base)
  BY <1>2, SameQueues DEF EndPass, loopVars
<1> QED
  BY <1>1, <1>2

(***************************************************************************)
(* A functor that is not the only one to close or open a connection runs.  *)
(***************************************************************************)
LEMMA RunQueues ==
  ASSUME TypeOK, QueuesInv, NEW l \in Loops, NEW f, NEW c, Running(l, f, c), f # "remove",
         pending' = pending
  PROVE  Shrinks /\ RemovalsKept
<1>1. \A k \in Loops : Waiting(k)' = Mid(k)
  BY NothingAdded
<1>2. FunctorInv
  BY DEF QueuesInv
<1>3. /\ \A k \in Loops : OnceOnly(Mid(k)) /\ (k # l => Mid(k) = Waiting(k))
      /\ Range(Waiting(l)) = Range(Mid(l)) \cup {<<f, c>>}
  BY <1>2, TakeFunctor
<1>4. \A d : <<"remove", d>> # <<f, c>>
  OBVIOUS
<1>5. Range(Mid(l)) \subseteq Range(Waiting(l))
      /\ \A d : <<"remove", d>> \in Range(Mid(l)) <=> <<"remove", d>> \in Range(Waiting(l))
  BY <1>3, <1>4
<1>6. Shrinks
  BY <1>1, <1>3, <1>5 DEF Shrinks
<1>7. RemovalsKept
  BY <1>1, <1>3, <1>5, LoopTypes DEF RemovalsKept
<1> QED
  BY <1>6, <1>7

(***************************************************************************)
(* handle_close() of an open connection of loop l.                         *)
(***************************************************************************)
LEMMA ClosingStep ==
  ASSUME TypeOK, TypeOK', QueuesInv, NEW l \in Loops, NEW c \in Clients,
         state_[c] \in Open, home[c] = l, handle_close(l, c), home' = home,
         \A k \in Loops : /\ Mid(k) \in Seq(Functors) /\ OnceOnly(Mid(k))
                          /\ Range(Mid(k)) \subseteq Range(Waiting(k)),
         \A d \in Clients : <<"remove", d>> \in Range(Waiting(Base)) =>
                            <<"remove", d>> \in Range(Mid(Base)),
         \A k \in Loops : active'[k] \subseteq active[k] \ {c}
  PROVE  QueuesInv' /\ fault' = fault
<1> DEFINE x == IF l = Base THEN <<"destroyed", c>> ELSE <<"remove", c>>
<1>1. /\ Base \in Loops /\ x \in Functors
      /\ l = Base => x = <<"destroyed", c>>
      /\ l # Base => x = <<"remove", c>>
  BY LoopTypes DEF Functors
<1>2. c \in Accepted /\ state_[c] \notin {"DISCONNECTED", "CONNECTING"}
  BY DEF Accepted, Open
<1>3. c \in connections_
  BY <1>2 DEF QueuesInv, MapInv
<1>4. \A k \in Loops : \A y \in Range(Waiting(k)) :
         Allowed(k, y) /\ y \in Functors /\ y[2] \in Clients /\ y = <<y[1], y[2]>>
  BY WaitingType, FunctorParts DEF QueuesInv, FunctorInv
<1>5. <<"remove", c>> \notin Range(Waiting(Base))
  BY <1>1, <1>2, <1>4 DEF Allowed
<1>6. /\ state_' = [state_ EXCEPT ![c] = "DISCONNECTED"]
      /\ pending' = [pending EXCEPT ![Base] = Append(@, x)]
      /\ connections_' = IF l = Base THEN connections_ \ {c} ELSE connections_
      /\ fault' = fault
  BY <1>1, <1>3 DEF handle_close, remove_connection, remove_connection_in_loop
<1>7. /\ state_'[c] = "DISCONNECTED"
      /\ \A d \in Clients : d # c => state_'[d] = state_[d]
      /\ \A d \in Clients : d \in Accepted' <=> d \in Accepted
  <2>1. /\ state_'[c] = "DISCONNECTED"
        /\ \A d \in Clients : d # c => state_'[d] = state_[d]
    BY <1>6 DEF TypeOK
  <2> QED
    BY <1>2, <2>1 DEF Accepted
<1>8. x[1] \in Unique => x \notin Range(Mid(Base))
  BY <1>1, <1>5 DEF Unique
<1> HIDE DEF x
<1>9. /\ \A k \in Loops : OnceOnly(Waiting(k)') /\ (k # Base => Waiting(k)' = Mid(k))
      /\ Range(Waiting(Base)') = Range(Mid(Base)) \cup {x}
  BY <1>1, <1>6, <1>8, AddFunctor
<1>10. FunctorInv'
  <2> SUFFICES ASSUME NEW k \in Loops, NEW y \in Range(Waiting(k)') PROVE Allowed(k, y)'
    BY <1>9 DEF FunctorInv
  <2>1. y \in Range(Waiting(k)) \/ (k = Base /\ y = x)
    BY <1>9
  <2>2. CASE y \in Range(Waiting(k))
    <3>1. Allowed(k, y) /\ y[2] \in Clients /\ y = <<y[1], y[2]>>
      BY <1>4, <2>2
    <3>2. y[1] = "remove" => k = Base /\ y[2] # c
      BY <1>2, <3>1 DEF Allowed
    <3>3. y[1] = "established" => y[2] # c
      BY <1>2, <3>1 DEF Allowed
    <3> QED
      BY <1>6, <1>7, <3>1, <3>2, <3>3 DEF Allowed
  <2>3. CASE k = Base /\ y = x
    <3>1. CASE l = Base
      <4>1. y[1] = "destroyed" /\ y[2] = c
        BY <1>1, <2>3, <3>1
      <4> QED
        BY <1>2, <1>7, <2>3, <3>1, <4>1 DEF Allowed
    <3>2. CASE l # Base
      <4>1. y[1] = "remove" /\ y[2] = c
        BY <1>1, <2>3, <3>2
      <4> QED
        BY <1>2, <1>3, <1>6, <1>7, <2>3, <3>2, <4>1 DEF Allowed
    <3> QED
      BY <3>1, <3>2
  <2> QED
    BY <2>1, <2>2, <2>3
<1>11. ActiveInv'
  <2> SUFFICES ASSUME NEW k \in Loops, NEW d \in active'[k], d # Listener
               PROVE  state_'[d] \in Open /\ home'[d] = k
    BY DEF ActiveInv, Open
  <2>1. d \in active[k] /\ d # c
    OBVIOUS
  <2>2. active[k] \in SUBSET (Clients \cup {Listener})
    BY DEF TypeOK
  <2> QED
    BY <1>7, <2>1, <2>2 DEF QueuesInv, ActiveInv
<1>12. MapInv'
  <2> SUFFICES ASSUME NEW d \in Clients
               PROVE  d \in connections_' <=>
                        /\ d \in Accepted'
                        /\ \/ state_'[d] # "DISCONNECTED"
                           \/ <<"remove", d>> \in Range(Waiting(Base)')
    BY DEF MapInv
  <2>1. d \in connections_ <=> /\ d \in Accepted
                               /\ \/ state_[d] # "DISCONNECTED"
                                  \/ <<"remove", d>> \in Range(Waiting(Base))
    BY DEF QueuesInv, MapInv
  <2>2. CASE d # c
    <3>1. <<"remove", d>> # x
      BY <1>1, <2>2
    <3>2. <<"remove", d>> \in Range(Waiting(Base)') <=> <<"remove", d>> \in Range(Waiting(Base))
      BY <1>1, <1>9, <3>1
    <3> QED
      BY <1>6, <1>7, <2>1, <2>2, <3>2
  <2>3. CASE d = c /\ l = Base
    <3>1. <<"remove", c>> # x
      BY <1>1, <2>3
    <3>2. <<"remove", c>> \notin Range(Waiting(Base)')
      BY <1>1, <1>5, <1>9, <3>1
    <3> QED
      BY <1>6, <1>7, <2>3, <3>2
  <2>4. CASE d = c /\ l # Base
    BY <1>1, <1>2, <1>3, <1>6, <1>7, <1>9, <2>4
  <2> QED
    BY <2>2, <2>3, <2>4
<1> QED
  BY <1>6, <1>10, <1>11, <1>12 DEF QueuesInv

(***************************************************************************)
(* connection_established() finds its connection CONNECTING and keeps the  *)
(* invariant.                                                              *)
(***************************************************************************)
LEMMA EstablishedStep ==
  ASSUME TypeOK, TypeOK', QueuesInv, NEW l \in Loops, NEW c \in Clients,
         connection_established(l, c)
  PROVE  QueuesInv' /\ fault' = fault
<1>1. /\ Running(l, "established", c)
      /\ UNCHANGED <<pending, connections_, active, home>>
      /\ state_' = [state_ EXCEPT ![c] = "CONNECTED"]
      /\ fault' = IF state_[c] = "CONNECTING" THEN fault ELSE "assert"
  BY DEF connection_established, Running
<1>2. /\ \A k \in Loops : OnceOnly(Mid(k)) /\ (k # l => Mid(k) = Waiting(k))
      /\ <<"established", c>> \in Range(Waiting(l))
      /\ Range(Waiting(l)) = Range(Mid(l)) \cup {<<"established", c>>}
      /\ <<"established", c>> \notin Range(Mid(l))
  BY <1>1, TakeFunctor DEF QueuesInv, Unique
<1>3. \A k \in Loops : Waiting(k)' = Mid(k)
  BY <1>1, NothingAdded
<1>4. \A k \in Loops : \A y \in Range(Waiting(k)) :
         Allowed(k, y) /\ y[2] \in Clients /\ y = <<y[1], y[2]>>
  BY WaitingType, FunctorParts DEF QueuesInv, FunctorInv
<1>5. state_[c] = "CONNECTING" /\ home[c] = l
  <2>1. Allowed(l, <<"established", c>>)
    BY <1>2, <1>4
  <2> QED
    BY <2>1 DEF Allowed
<1>6. /\ state_'[c] = "CONNECTED"
      /\ \A d \in Clients : d # c => state_'[d] = state_[d]
  BY <1>1 DEF TypeOK
<1>7. \A d \in Clients : d \in Accepted' <=> d \in Accepted
  BY <1>5, <1>6 DEF Accepted, Open
<1>8. FunctorInv'
  <2> SUFFICES ASSUME NEW k \in Loops, NEW y \in Range(Waiting(k)') PROVE Allowed(k, y)'
    BY <1>2, <1>3 DEF FunctorInv
  <2>1. y \in Range(Waiting(k)) /\ (k = l => y # <<"established", c>>)
    BY <1>2, <1>3
  <2>2. Allowed(k, y) /\ y[2] \in Clients /\ y = <<y[1], y[2]>>
    BY <1>4, <2>1
  <2>3. y[1] = "established" => y[2] # c
    BY <1>5, <2>1, <2>2 DEF Allowed
  <2>4. y[1] = "remove" => y[2] # c
    BY <1>5, <2>2 DEF Allowed
  <2> QED
    BY <1>1, <1>6, <1>7, <2>2, <2>3, <2>4 DEF Allowed
<1>9. ActiveInv'
  <2> SUFFICES ASSUME NEW k \in Loops, NEW d \in active[k], d # Listener
               PROVE  state_'[d] \in Open /\ home[d] = k
    BY <1>1 DEF ActiveInv, Open
  <2>1. active[k] \in SUBSET (Clients \cup {Listener})
    BY DEF TypeOK
  <2>2. state_[d] \in Open /\ home[d] = k
    BY DEF QueuesInv, ActiveInv
  <2>3. d # c
    BY <1>5, <2>2 DEF Open
  <2> QED
    BY <1>6, <2>1, <2>2, <2>3
<1>10. MapInv'
  <2>1. \A d : <<"remove", d>> # <<"established", c>>
    OBVIOUS
  <2>2. \A d \in Clients : <<"remove", d>> \in Range(Waiting(Base)') <=>
                           <<"remove", d>> \in Range(Waiting(Base))
    BY <1>2, <1>3, <2>1, LoopTypes
  <2> QED
    BY <1>1, <1>5, <1>6, <1>7, <2>2 DEF QueuesInv, MapInv
<1> QED
  BY <1>1, <1>5, <1>8, <1>9, <1>10 DEF QueuesInv

(***************************************************************************)
(* remove_connection_in_loop(), run as a functor, finds its connection in  *)
(* the map and keeps the invariant.                                        *)
(***************************************************************************)
LEMMA RemoveStep ==
  ASSUME TypeOK, TypeOK', QueuesInv, NEW c \in Clients, RunRemove(c)
  PROVE  QueuesInv' /\ fault' = fault
<1>0. PICK h \in Loops : h = home[c]
  BY DEF TypeOK
<1> DEFINE x == <<"destroyed", c>>
<1>1. /\ Running(Base, "remove", c) /\ UNCHANGED <<active, home, state_>>
      /\ connections_' = connections_ \ {c}
      /\ pending' = [pending EXCEPT ![h] = Append(@, x)]
      /\ fault' = IF c \in connections_ THEN fault ELSE "assert"
  BY <1>0 DEF RunRemove, Running, remove_connection_in_loop
<1>2. /\ \A k \in Loops : Mid(k) \in Seq(Functors) /\ OnceOnly(Mid(k))
      /\ \A k \in Loops : k # Base => Mid(k) = Waiting(k)
      /\ <<"remove", c>> \in Range(Waiting(Base))
      /\ Range(Waiting(Base)) = Range(Mid(Base)) \cup {<<"remove", c>>}
      /\ <<"remove", c>> \notin Range(Mid(Base))
  BY <1>1, TakeFunctor, LoopTypes DEF QueuesInv, Unique
<1>3. x \in Functors /\ x[1] \notin Unique
  BY DEF Functors, Unique
<1>4. /\ \A k \in Loops : OnceOnly(Waiting(k)') /\ (k # h => Waiting(k)' = Mid(k))
      /\ Range(Waiting(h)') = Range(Mid(h)) \cup {x}
  BY <1>1, <1>2, <1>3, AddFunctor
<1>5. \A k \in Loops : \A y \in Range(Waiting(k)) :
         Allowed(k, y) /\ y[2] \in Clients /\ y = <<y[1], y[2]>>
  BY WaitingType, FunctorParts DEF QueuesInv, FunctorInv
<1>6. c \in Accepted /\ state_[c] = "DISCONNECTED" /\ c \in connections_
  <2>1. Allowed(Base, <<"remove", c>>)
    BY <1>2, <1>5, LoopTypes
  <2> QED
    BY <2>1 DEF Allowed
<1>7. Accepted' = Accepted
  BY <1>1 DEF Accepted
<1>8. FunctorInv'
  <2> SUFFICES ASSUME NEW k \in Loops, NEW y \in Range(Waiting(k)') PROVE Allowed(k, y)'
    BY <1>4 DEF FunctorInv
  <2>1. CASE y \in Range(Mid(k))
    <3>1. y \in Range(Waiting(k)) /\ (k = Base => y # <<"remove", c>>)
      BY <1>2, <2>1
    <3>2. Allowed(k, y) /\ y = <<y[1], y[2]>>
      BY <1>5, <3>1
    <3>3. y[1] = "remove" => y[2] # c
      BY <3>1, <3>2 DEF Allowed
    <3> QED
      BY <1>1, <1>7, <3>2, <3>3 DEF Allowed
  <2>2. CASE y = x /\ k = h
    <3>1. y[1] = "destroyed" /\ y[2] = c
      BY <2>2
    <3> QED
      BY <1>0, <1>1, <1>6, <1>7, <2>2, <3>1 DEF Allowed
  <2> QED
    BY <1>4, <2>1, <2>2
<1>9. ActiveInv'
  BY <1>1 DEF QueuesInv, ActiveInv
<1>10. MapInv'
  <2> SUFFICES ASSUME NEW d \in Clients
               PROVE  d \in connections_' <=>
                        /\ d \in Accepted'
                        /\ \/ state_'[d] # "DISCONNECTED"
                           \/ <<"remove", d>> \in Range(Waiting(Base)')
    BY DEF MapInv
  <2>1. d \in connections_ <=> /\ d \in Accepted
                               /\ \/ state_[d] # "DISCONNECTED"
                                  \/ <<"remove", d>> \in Range(Waiting(Base))
    BY DEF QueuesInv, MapInv
  <2>2. <<"remove", d>> # x
    OBVIOUS
  <2>3. <<"remove", d>> \in Range(Waiting(Base)') <=> <<"remove", d>> \in Range(Mid(Base))
    BY <1>4, <2>2, LoopTypes
  <2>4. d # c => <<"remove", d>> # <<"remove", c>>
    OBVIOUS
  <2> QED
    BY <1>1, <1>2, <1>6, <1>7, <2>1, <2>3, <2>4
<1> QED
  BY <1>1, <1>6, <1>8, <1>9, <1>10 DEF QueuesInv

(***************************************************************************)
(* new_connection() keeps the invariant: nothing refers to the new         *)
(* connection yet.                                                         *)
(***************************************************************************)
LEMMA AcceptStep ==
  ASSUME TypeOK, TypeOK', QueuesInv, new_connection
  PROVE  QueuesInv' /\ fault' = fault
<1>1. PICK c \in Clients : c = Oldest /\ state_[c] = "backlog"
  BY OldestWaits DEF new_connection, Backlog
<1>2. PICK l \in Loops : l = get_next_loop
  BY NextLoopType
<1> DEFINE x == <<"established", c>>
<1>3. /\ home' = [home EXCEPT ![c] = l] /\ connections_' = connections_ \cup {c}
      /\ UNCHANGED <<batch, active, fault>>
      /\ \/ state_' = [state_ EXCEPT ![c] = "CONNECTED"] /\ pending' = pending
         \/ /\ state_' = [state_ EXCEPT ![c] = "CONNECTING"]
            /\ pending' = [pending EXCEPT ![l] = Append(@, x)]
  BY <1>1, <1>2 DEF new_connection, loopVars
<1>4. /\ home'[c] = l /\ state_'[c] \in {"CONNECTED", "CONNECTING"}
      /\ \A d \in Clients : d # c => home'[d] = home[d] /\ state_'[d] = state_[d]
  BY <1>3 DEF TypeOK
<1>5. /\ c \notin Accepted /\ c \in Accepted'
      /\ \A d \in Clients : d # c => (d \in Accepted' <=> d \in Accepted)
  BY <1>1, <1>4 DEF Accepted, Open
<1>6. \A k \in Loops : \A y \in Range(Waiting(k)) :
         Allowed(k, y) /\ y[2] \in Clients /\ y[2] # c
  BY <1>5, WaitingType, FunctorParts DEF QueuesInv, FunctorInv, Allowed
<1>7. x \in Functors /\ x[2] = c /\ x[1] = "established"
  BY DEF Functors
<1>8. \A k \in Loops : Mid(k) = Waiting(k) /\ Mid(k) \in Seq(Functors) /\ OnceOnly(Mid(k))
  BY <1>3, NothingTaken DEF QueuesInv
<1> HIDE DEF x
<1>9. \A k \in Loops : /\ OnceOnly(Waiting(k)')
                       /\ \/ Range(Waiting(k)') = Range(Waiting(k))
                          \/ /\ k = l /\ state_'[c] = "CONNECTING"
                             /\ Range(Waiting(k)') = Range(Waiting(k)) \cup {x}
  <2>1. CASE pending' = pending
    BY <1>8, <2>1, NothingAdded
  <2>2. CASE /\ state_' = [state_ EXCEPT ![c] = "CONNECTING"]
             /\ pending' = [pending EXCEPT ![l] = Append(@, x)]
    <3>1. x \notin Range(Mid(l))
      BY <1>6, <1>7, <1>8
    <3>2. /\ \A k \in Loops : OnceOnly(Waiting(k)') /\ (k # l => Waiting(k)' = Mid(k))
          /\ Range(Waiting(l)') = Range(Mid(l)) \cup {x}
      BY <1>7, <1>8, <2>2, <3>1, AddFunctor
    <3>3. state_'[c] = "CONNECTING"
      BY <2>2 DEF TypeOK
    <3> QED
      BY <1>8, <3>2, <3>3
  <2> QED
    BY <1>3, <2>1, <2>2
<1>10. FunctorInv'
  <2> SUFFICES ASSUME NEW k \in Loops, NEW y \in Range(Waiting(k)') PROVE Allowed(k, y)'
    BY <1>9 DEF FunctorInv
  <2>1. CASE y \in Range(Waiting(k))
    <3>1. Allowed(k, y) /\ y[2] \in Clients /\ y[2] # c
      BY <1>6, <2>1
    <3> QED
      BY <1>3, <1>4, <1>5, <3>1 DEF Allowed
  <2>2. CASE k = l /\ y = x /\ state_'[c] = "CONNECTING"
    BY <1>4, <1>5, <1>7, <2>2 DEF Allowed
  <2> QED
    BY <1>9, <2>1, <2>2
<1>11. ActiveInv'
  <2> SUFFICES ASSUME NEW k \in Loops, NEW d \in active[k], d # Listener
               PROVE  state_'[d] \in Open /\ home'[d] = k
    BY <1>3 DEF ActiveInv, Open
  <2>1. active[k] \in SUBSET (Clients \cup {Listener})
    BY DEF TypeOK
  <2>2. state_[d] \in Open /\ home[d] = k
    BY DEF QueuesInv, ActiveInv
  <2>3. d # c
    BY <1>1, <2>2 DEF Open
  <2> QED
    BY <1>4, <2>1, <2>2, <2>3
<1>12. MapInv'
  <2>1. \A d : <<"remove", d>> # x
    BY <1>7
  <2>2. \A d \in Clients : <<"remove", d>> \in Range(Waiting(Base)') <=>
                           <<"remove", d>> \in Range(Waiting(Base))
    BY <1>9, <2>1, LoopTypes
  <2> QED
    BY <1>3, <1>4, <1>5, <2>2 DEF QueuesInv, MapInv
<1> QED
  BY <1>3, <1>10, <1>11, <1>12 DEF QueuesInv

(***************************************************************************)
(* stop() opens and closes no connection: it shuts down the CONNECTED ones *)
(* of the base loop and queues shutdown() for those of the io loops.       *)
(***************************************************************************)
LEMMA StopStep ==
  ASSUME TypeOK, TypeOK', QueuesInv, stop, UNCHANGED <<batch, active, home, connections_>>
  PROVE  QueuesInv'
<1>1. \A l \in Loops : pending'[l] = pending[l] \o Handed("shutdown", l)
  BY HandOverType DEF stop
<1>2. \A c \in Clients : \/ state_'[c] = state_[c]
                         \/ state_[c] = "CONNECTED" /\ state_'[c] = "DISCONNECTING"
  BY DEF stop, Shut
<1>3. SameLife
  BY <1>2 DEF SameLife, Accepted, Open
<1>4. ASSUME NEW l \in Loops
      PROVE  /\ OnceOnly(Waiting(l)')
             /\ Range(Waiting(l)') = Range(Waiting(l)) \cup Range(Handed("shutdown", l))
  <2>1. /\ batch[l] \in Seq(Functors) /\ pending[l] \in Seq(Functors)
        /\ Waiting(l) \in Seq(Functors) /\ OnceOnly(Waiting(l))
    BY WaitingType DEF QueuesInv, FunctorInv
  <2>2. /\ Handed("shutdown", l) \in Seq(Functors)
        /\ \A x \in Range(Handed("shutdown", l)) : x[1] \notin Unique
    BY HandedType DEF Unique
  <2>3. Waiting(l)' = Waiting(l) \o Handed("shutdown", l)
    <3>1. Waiting(l)' = batch[l] \o (pending[l] \o Handed("shutdown", l))
      BY <1>1 DEF Waiting
    <3>2. batch[l] \o (pending[l] \o Handed("shutdown", l))
            = (batch[l] \o pending[l]) \o Handed("shutdown", l)
      BY <2>1, <2>2, Assoc
    <3> QED
      BY <3>1, <3>2 DEF Waiting
  <2> QED
    BY <2>1, <2>2, <2>3, AddSeveral
<1>5. \A l \in Loops : \A x \in Range(Handed("shutdown", l)) :
         x[1] = "shutdown" /\ x[2] \in connections_ /\ home[x[2]] = l
  BY HandedType
<1>6. FunctorInv'
  <2> SUFFICES ASSUME NEW l \in Loops, NEW x \in Range(Waiting(l)') PROVE Allowed(l, x)'
    BY <1>4 DEF FunctorInv
  <2>1. CASE x \in Range(Waiting(l))
    <3>1. Allowed(l, x) /\ x[2] \in Clients
      BY <2>1, WaitingType, FunctorParts DEF QueuesInv, FunctorInv
    <3> QED
      BY <1>3, <3>1 DEF Allowed, SameLife
  <2>2. CASE x \in Range(Handed("shutdown", l))
    <3>1. x[1] = "shutdown" /\ x[2] \in connections_ /\ home[x[2]] = l
      BY <1>5, <2>2
    <3>2. x[2] \in Clients /\ x[2] \in Accepted
      BY <3>1 DEF QueuesInv, MapInv, TypeOK
    <3> QED
      BY <1>3, <3>1, <3>2 DEF Allowed, SameLife
  <2> QED
    BY <1>4, <2>1, <2>2
<1>7. ActiveInv'
  <2> SUFFICES ASSUME NEW k \in Loops, NEW d \in active[k], d # Listener
               PROVE  state_'[d] \in Open /\ home[d] = k
    BY DEF ActiveInv, Open
  <2>1. active[k] \in SUBSET (Clients \cup {Listener})
    BY DEF TypeOK
  <2> QED
    BY <1>3, <2>1 DEF QueuesInv, ActiveInv, SameLife
<1>8. MapInv'
  <2>1. \A d \in Clients : <<"remove", d>> \in Range(Waiting(Base)') <=>
                           <<"remove", d>> \in Range(Waiting(Base))
    BY <1>4, <1>5, LoopTypes
  <2> QED
    BY <1>3, <2>1 DEF QueuesInv, MapInv, SameLife
<1> QED
  BY <1>6, <1>7, <1>8 DEF QueuesInv

(***************************************************************************)
(* The initial state satisfies ServerInv.                                  *)
(***************************************************************************)
LEMMA ServerInit == Init => ServerInv
<1> SUFFICES ASSUME Init PROVE QueuesInv /\ fault \notin {"assert", "iterator"}
  BY DEF ServerInv, QueuesInv
<1>1. \A l \in Loops : Waiting(l) = << >> \o << >> /\ active[l] = {}
  BY DEF Init, Waiting
<1>2. Accepted = {} /\ connections_ = {} /\ fault = "none"
  BY DEF Init, Accepted, Open
<1> QED
  BY <1>1, <1>2, EmptyRange DEF QueuesInv, FunctorInv, ActiveInv, MapInv

(***************************************************************************)
(* Every step keeps ServerInv.                                             *)
(***************************************************************************)
LEMMA ServerStep ==
  ASSUME TypeOK, TypeOK', PassInv, ServerInv, [Next]_vars
  PROVE  ServerInv'
<1> SUFFICES ASSUME ServerUp' PROVE QueuesInv' /\ fault' \notin {"assert", "iterator"}
  BY DEF ServerInv, QueuesInv
<1>0. /\ ServerUp /\ QueuesInv /\ fault \notin {"assert", "iterator"} /\ Base \in Loops
  BY StaysDown, LoopTypes DEF ServerInv, QueuesInv
<1> SUFFICES QueuesInv' /\ (fault' = fault \/ fault' = "closed twice")
  BY <1>0
<1> DEFINE Kept == \A l \in Loops : \A c \in active'[l] :
                     c # Listener => c \in active[l] \/ (state_[c] \in Open /\ home[c] = l)
<1> USE DEF loopVars, poolVars, connVars
<1>1. CASE start \/ StartThrows \/ EndAccept
  <2>1. UNCHANGED <<pending, batch, active, state_, home, connections_, fault>>
    BY <1>1 DEF start, StartThrows, EndAccept
  <2> QED
    BY <1>0, <2>1, SameQueues, SameStates, QuietStep
<1>2. CASE DestroyServer \/ Exit
  <2>1. pc \in [Loops -> LoopPlaces]
    BY DEF TypeOK
  <2>2. pc'[Base] \in {"join", "exited"}
    BY <1>0, <1>2, <2>1 DEF DestroyServer, Exit, Go
  <2> QED
    BY <2>2 DEF ServerUp
<1>3. CASE BeginAccept
  <2>1. UNCHANGED <<pending, batch, state_, home, connections_, fault>> /\ Kept
    BY <1>3, <1>0 DEF BeginAccept, TypeOK
  <2> QED
    BY <1>0, <2>1, SameQueues, SameStates, QuietStep
<1>4. CASE new_connection
  BY <1>0, <1>4, AcceptStep
<1>5. CASE AcceptFails
  <2>1. UNCHANGED <<pending, batch, active, home, connections_, fault>>
    BY <1>5 DEF AcceptFails
  <2>2. PICK c \in Clients : /\ state_[c] = "backlog"
                            /\ state_' = [state_ EXCEPT ![c] = "rejected"]
    BY <1>5, OldestWaits DEF AcceptFails, RejectOldest, Backlog
  <2>3. SameLife
    BY <2>2 DEF SameLife, Accepted, Open, TypeOK
  <2> QED
    BY <1>0, <2>1, <2>3, SameQueues, QuietStep
<1>6. ASSUME NEW l \in Loops, DestroyThread(l) \/ Enter(l)
      PROVE  QueuesInv' /\ fault' = fault
  <2>1. UNCHANGED <<pending, batch, active, state_, home, connections_, fault>>
    BY <1>6 DEF DestroyThread, Enter
  <2> QED
    BY <1>0, <2>1, SameQueues, SameStates, QuietStep
<1>7. ASSUME NEW l \in Loops, Poll(l)
      PROVE  QueuesInv' /\ fault' = fault
  <2>1. UNCHANGED <<pending, batch, state_, home, connections_, fault>>
    BY <1>7 DEF Poll
  <2>2. Kept
    <3>1. \A c \in Ready(l) : c # Listener => state_[c] \in Open /\ home[c] = l
      BY DEF Ready
    <3>2. active'[l] = Ready(l) /\ \A k \in Loops : k # l => active'[k] = active[k]
      BY <1>7 DEF Poll, TypeOK
    <3> QED
      BY <3>1, <3>2
  <2> QED
    BY <1>0, <2>1, <2>2, SameQueues, SameStates, QuietStep
<1>8. ASSUME NEW l \in Loops, Swap(l)
      PROVE  QueuesInv' /\ fault' = fault
  <2>1. UNCHANGED <<active, state_, home, connections_, fault>>
    BY <1>8 DEF Swap
  <2> QED
    BY <1>0, <1>8, <2>1, SwapQueues, SameStates, QuietStep
<1>9. ASSUME NEW l \in Loops, EndPass(l)
      PROVE  QueuesInv' /\ fault' = fault
  <2>1. UNCHANGED <<active, state_, home, connections_, fault>>
    BY <1>9 DEF EndPass
  <2> QED
    BY <1>0, <1>9, <2>1, DropQueues, SameStates, QuietStep
<1>10. ASSUME NEW l \in Loops, NEW c \in Clients, HandleClosed(l, c)
       PROVE  QueuesInv' /\ fault' = fault
  <2>1. /\ c \in active[l] /\ c # Listener /\ handle_close(l, c)
        /\ active' = [active EXCEPT ![l] = @ \ {c}] /\ UNCHANGED <<batch, home>>
    BY <1>10, LoopTypes DEF HandleClosed
  <2>2. state_[c] \in Open /\ home[c] = l
    BY <1>0, <2>1 DEF QueuesInv, ActiveInv
  <2>3. \A k \in Loops : Mid(k) = Waiting(k) /\ Mid(k) \in Seq(Functors) /\ OnceOnly(Mid(k))
    BY <1>0, <2>1, NothingTaken DEF QueuesInv
  <2>4. ASSUME NEW k \in Loops PROVE active'[k] \subseteq active[k] \ {c}
    <3>1. CASE k = l
      BY <2>1, <3>1 DEF TypeOK
    <3>2. CASE k # l
      <4>1. active'[k] = active[k]
        BY <2>1, <3>2 DEF TypeOK
      <4>2. c \notin active[k]
        BY <1>0, <2>1, <2>2, <3>2 DEF QueuesInv, ActiveInv
      <4> QED
        BY <4>1, <4>2
    <3> QED
      BY <3>1, <3>2
  <2>5. /\ \A k \in Loops : /\ Mid(k) \in Seq(Functors) /\ OnceOnly(Mid(k))
                            /\ Range(Mid(k)) \subseteq Range(Waiting(k))
        /\ \A d \in Clients : <<"remove", d>> \in Range(Waiting(Base)) =>
                              <<"remove", d>> \in Range(Mid(Base))
    BY <1>0, <2>3
  <2> QED
    BY <1>0, <2>1, <2>2, <2>4, <2>5, ClosingStep
<1>11. ASSUME NEW l \in Loops, NEW c \in Clients, HandleHungUp(l, c)
       PROVE  QueuesInv' /\ fault' = "closed twice"
  <2>1. /\ UNCHANGED <<pending, batch, active, state_, home, connections_>>
        /\ fault' = "closed twice"
    BY <1>11 DEF HandleHungUp
  <2> QED
    BY <1>0, <2>1, SameQueues, SameStates, QuietStep
<1>12. ASSUME NEW l \in Loops, NEW c \in Clients, shutdown(l, c)
       PROVE  QueuesInv' /\ fault' = fault
  <2>1. /\ Running(l, "shutdown", c)
        /\ UNCHANGED <<pending, active, home, connections_, fault>>
        /\ state_' = [state_ EXCEPT ![c] = Shut(@)]
    BY <1>12 DEF shutdown, Running
  <2>2. SameLife
    BY <2>1 DEF SameLife, Accepted, Open, Shut, TypeOK
  <2>3. Shrinks /\ RemovalsKept
    BY <1>0, <2>1, RunQueues
  <2> QED
    BY <1>0, <2>1, <2>2, <2>3, QuietStep
<1>13. ASSUME NEW l \in Loops, NEW c \in Clients, connection_destroyed(l, c)
       PROVE  QueuesInv' /\ fault' = fault
  <2>1. Running(l, "destroyed", c) /\ UNCHANGED <<active, home>>
    BY <1>13 DEF connection_destroyed, Running
  <2>2. CASE ~DestroyCloses(c)
    <3>1. UNCHANGED <<state_, pending, connections_, fault>>
      BY <1>13, <2>2 DEF connection_destroyed
    <3>2. Shrinks /\ RemovalsKept
      BY <1>0, <2>1, <3>1, RunQueues
    <3> QED
      BY <1>0, <2>1, <3>1, <3>2, SameStates, QuietStep
  <2>3. CASE DestroyCloses(c)
    <3>1. handle_close(l, c) /\ state_[c] \in Open
      BY <1>13, <2>3 DEF connection_destroyed, DestroyCloses, Open
    <3>2. FunctorInv
      BY <1>0 DEF QueuesInv
    <3>3. /\ \A k \in Loops : /\ Mid(k) \in Seq(Functors) /\ OnceOnly(Mid(k))
                              /\ k # l => Mid(k) = Waiting(k)
          /\ <<"destroyed", c>> \in Range(Waiting(l))
          /\ Range(Waiting(l)) = Range(Mid(l)) \cup {<<"destroyed", c>>}
      BY <2>1, <3>2, TakeFunctor
    <3>4. home[c] = l
      <4>1. Allowed(l, <<"destroyed", c>>)
        BY <3>2, <3>3 DEF FunctorInv
      <4> QED
        BY <4>1 DEF Allowed
    <3>5. \A d : <<"remove", d>> # <<"destroyed", c>>
      OBVIOUS
    <3>6. /\ \A k \in Loops : /\ Mid(k) \in Seq(Functors) /\ OnceOnly(Mid(k))
                              /\ Range(Mid(k)) \subseteq Range(Waiting(k))
          /\ \A d \in Clients : <<"remove", d>> \in Range(Waiting(Base)) =>
                                <<"remove", d>> \in Range(Mid(Base))
      BY <1>0, <3>3, <3>5
    <3>7. active[l] = {}
      BY <2>1 DEF Running, At, PassInv
    <3>8. \A k \in Loops : active'[k] \subseteq active[k] \ {c}
      <4>1. c # Listener
        BY LoopTypes
      <4> QED
        BY <1>0, <2>1, <3>4, <3>7, <4>1 DEF QueuesInv, ActiveInv
    <3> QED
      BY <1>0, <2>1, <3>1, <3>4, <3>6, <3>8, ClosingStep
  <2> QED
    BY <2>2, <2>3
<1>14. ASSUME NEW l \in Loops, NEW c \in Clients, Functor(l, c)
       PROVE  QueuesInv' /\ fault' = fault
  BY <1>0, <1>12, <1>13, <1>14, EstablishedStep, RemoveStep DEF Functor
<1>15. ASSUME NEW c \in Clients, ClientConnects(c)
       PROVE  QueuesInv' /\ fault' = fault
  <2>1. /\ UNCHANGED <<pending, batch, active, home, connections_, fault>>
        /\ state_[c] = "away" /\ state_' = [state_ EXCEPT ![c] = "backlog"]
    BY <1>15 DEF ClientConnects
  <2>2. SameLife
    BY <2>1 DEF SameLife, Accepted, Open, TypeOK
  <2> QED
    BY <1>0, <2>1, <2>2, SameQueues, QuietStep
<1>16. ASSUME NEW c \in Clients, ClientCloses(c)
       PROVE  QueuesInv' /\ fault' = fault
  <2>1. UNCHANGED <<pending, batch, active, state_, home, connections_, fault>>
    BY <1>16 DEF ClientCloses
  <2> QED
    BY <1>0, <2>1, SameQueues, SameStates, QuietStep
<1>17. CASE signal_handler
  BY <1>0, <1>17, StopStep DEF signal_handler
<1>18. CASE UNCHANGED vars
  <2>1. UNCHANGED <<pending, batch, active, state_, home, connections_, fault>>
    BY <1>18 DEF vars
  <2> QED
    BY <1>0, <2>1, SameQueues, SameStates, QuietStep
<1> QED
  BY <1>1, <1>2, <1>3, <1>4, <1>5, <1>6, <1>7, <1>8, <1>9, <1>10, <1>11, <1>14, <1>15, <1>16,
     <1>17, <1>18 DEF Next, MainStep, LoopStep, Client

-----------------------------------------------------------------------------
(* The signal and the destructor of the server.                            *)

(***************************************************************************)
(* The initial state satisfies SignalInv.                                  *)
(***************************************************************************)
LEMMA SignalInit == Init => SignalInv
BY LoopTypes DEF Init, SignalInv

(***************************************************************************)
(* The base thread and the signal stand still, no connection is added to   *)
(* the map, and none of the base loop's becomes CONNECTED.                 *)
(***************************************************************************)
LEMMA SignalQuiet ==
  ASSUME SignalInv, UNCHANGED signal, pc'[Base] = pc[Base], quit_'[Base] = quit_[Base],
         home' = home, connections_' \subseteq connections_,
         fault' = "iterator" => fault = "iterator",
         pc[Base] = "destroy" =>
           \A c \in Inline : state_'[c] = "CONNECTED" => state_[c] = "CONNECTED"
  PROVE  SignalInv'
<1>1. Inline' \subseteq Inline
  BY DEF Inline
<1> QED
  BY <1>1 DEF SignalInv

(***************************************************************************)
(* Every step keeps SignalInv.                                             *)
(***************************************************************************)
LEMMA SignalStep ==
  ASSUME TypeOK, TypeOK', ServerInv, SignalInv, [Next]_vars
  PROVE  SignalInv'
<1>0. /\ Base \in Loops /\ pc \in [Loops -> LoopPlaces] /\ quit_ \in [Loops -> BOOLEAN]
      /\ state_ \in [Clients -> ConnStates] /\ connections_ \subseteq Clients
      /\ Inline \subseteq Clients
  BY LoopTypes DEF TypeOK, Inline
<1> USE DEF loopVars, poolVars, connVars, At, Go, Alive
<1>1. CASE start \/ StartThrows
  <2>1. /\ pc[Base] = "init" /\ pc'[Base] \in {"started", "destroy"} /\ fault = "none"
        /\ UNCHANGED <<quit_, signal, connections_, fault>>
    <3>1. Base \notin IoLoops
      BY DEF Base, IoLoops
    <3> QED
      BY <1>0, <1>1, <3>1 DEF start, StartThrows, StartPool
  <2>2. Inline' = {}
    BY <2>1 DEF SignalInv, Inline
  <2> QED
    BY <2>1, <2>2 DEF SignalInv
<1>2. CASE DestroyServer
  <2>1. /\ pc[Base] = "destroy" /\ pc'[Base] = "join" /\ UNCHANGED <<quit_, signal>>
        /\ fault = "none"
        /\ fault' = IF \E c \in Inline : DestroyCloses(c) THEN "iterator" ELSE fault
    BY <1>0, <1>2 DEF DestroyServer
  <2>2. fault' = "iterator" => signal = "busy"
    BY <2>1 DEF SignalInv, DestroyCloses
  <2> QED
    BY <2>1, <2>2 DEF SignalInv
<1>3. CASE Exit
  <2>1. /\ pc[Base] = "join" /\ pc'[Base] = "exited" /\ UNCHANGED <<quit_, signal, fault>>
    BY <1>0, <1>3 DEF Exit
  <2> QED
    BY <2>1 DEF SignalInv
<1>4. CASE BeginAccept \/ new_connection \/ AcceptFails \/ EndAccept
  <2>1. /\ pc[Base] \in {"events", "accept"} /\ pc'[Base] \in {"events", "accept"}
        /\ UNCHANGED <<quit_, signal, fault>>
    BY <1>0, <1>4 DEF BeginAccept, new_connection, AcceptFails, EndAccept
  <2> QED
    BY <2>1 DEF SignalInv
<1>5. ASSUME NEW l \in Loops, DestroyThread(l) PROVE SignalInv'
  <2>1. l # Base
    BY <1>5 DEF DestroyThread, IoLoops, Base
  <2>2. /\ quit_'[Base] = quit_[Base]
        /\ UNCHANGED <<pc, signal, fault, state_, home, connections_>>
    BY <1>0, <1>5, <2>1 DEF DestroyThread
  <2> QED
    BY <2>2, SignalQuiet
<1>6. ASSUME NEW l \in Loops, Enter(l) PROVE SignalInv'
  <2>1. UNCHANGED <<signal, fault, state_, home, connections_>>
    BY <1>6 DEF Enter
  <2>2. CASE l = Base
    <3>1. pc'[Base] = "wait" /\ quit_'[Base] = FALSE
      BY <1>0, <1>6, <2>2 DEF Enter
    <3> QED
      BY <2>1, <3>1 DEF SignalInv
  <2>3. CASE l # Base
    <3>1. pc'[Base] = pc[Base] /\ quit_'[Base] = quit_[Base]
      BY <1>0, <1>6, <2>3 DEF Enter
    <3> QED
      BY <2>1, <3>1, SignalQuiet
  <2> QED
    BY <2>2, <2>3
<1>7. ASSUME NEW l \in Loops, Poll(l) \/ Swap(l) \/ EndPass(l) PROVE SignalInv'
  <2>1. UNCHANGED <<signal, fault, quit_, state_, home, connections_>>
    BY <1>7 DEF Poll, Swap, EndPass
  <2>2. CASE l = Base
    <3>1. /\ pc[Base] \in {"wait", "events", "functors"}
          /\ \/ pc'[Base] \in {"wait", "events", "functors"}
             \/ pc'[Base] = "destroy" /\ quit_[Base]
      BY <1>0, <1>7, <2>2 DEF Poll, Swap, EndPass
    <3> QED
      BY <2>1, <3>1 DEF SignalInv
  <2>3. CASE l # Base
    <3>1. pc'[Base] = pc[Base]
      BY <1>0, <1>7, <2>3 DEF Poll, Swap, EndPass
    <3> QED
      BY <2>1, <3>1, SignalQuiet
  <2> QED
    BY <2>2, <2>3
<1>8. ASSUME NEW l \in Loops, NEW c \in Clients,
             HandleClosed(l, c) \/ HandleHungUp(l, c) \/ shutdown(l, c)
               \/ connection_destroyed(l, c) \/ RunRemove(c)
      PROVE  SignalInv'
  <2>1. UNCHANGED <<pc, quit_, signal, home>> /\ connections_' \subseteq connections_
    BY <1>8 DEF HandleClosed, HandleHungUp, shutdown, connection_destroyed, RunRemove, Running,
       handle_close, remove_connection, remove_connection_in_loop
  <2>2. fault' = "iterator" => fault = "iterator"
    BY <1>8 DEF HandleClosed, HandleHungUp, shutdown, connection_destroyed, RunRemove,
       handle_close, remove_connection, remove_connection_in_loop
  <2>3. \A d \in Clients : state_'[d] = "CONNECTED" => state_[d] = "CONNECTED"
    BY <1>0, <1>8 DEF HandleClosed, HandleHungUp, shutdown, connection_destroyed, RunRemove,
       handle_close, Shut
  <2> QED
    BY <1>0, <2>1, <2>2, <2>3, SignalQuiet
<1>9. ASSUME NEW l \in Loops, NEW c \in Clients, connection_established(l, c) PROVE SignalInv'
  <2>1. /\ Running(l, "established", c) /\ pc[l] = "functors"
        /\ UNCHANGED <<pc, quit_, signal, home, connections_>>
        /\ state_' = [state_ EXCEPT ![c] = "CONNECTED"]
        /\ fault' = "iterator" => fault = "iterator"
    BY <1>9 DEF connection_established, Running
  <2>2. ASSUME pc[Base] = "destroy", NEW d \in Inline, state_'[d] = "CONNECTED"
        PROVE  state_[d] = "CONNECTED"
    <3>1. FunctorInv
      BY <2>2 DEF ServerInv, ServerUp
    <3>2. <<"established", c>> \in Range(Waiting(l))
      BY <2>1, <3>1, TakeFunctor
    <3>3. Allowed(l, <<"established", c>>)
      BY <3>1, <3>2 DEF FunctorInv
    <3>4. home[c] = l
      BY <3>3 DEF Allowed
    <3>5. d # c
      BY <2>1, <2>2, <3>4 DEF Inline
    <3> QED
      BY <1>0, <2>1, <2>2, <3>5
  <2> QED
    BY <2>1, <2>2, SignalQuiet
<1>10. ASSUME NEW c \in Clients, Client(c) PROVE SignalInv'
  <2>1. UNCHANGED <<pc, quit_, signal, home, connections_, fault>>
    BY <1>10 DEF Client, ClientConnects, ClientCloses
  <2>2. \A d \in Clients : state_'[d] = "CONNECTED" => state_[d] = "CONNECTED"
    BY <1>0, <1>10 DEF Client, ClientConnects, ClientCloses
  <2> QED
    BY <1>0, <2>1, <2>2, SignalQuiet
<1>11. CASE signal_handler
  <2>1. /\ fault = "none" /\ UNCHANGED <<fault, home, connections_>>
        /\ \/ signal' = "early" /\ pc'[Base] = "started"
           \/ signal' = "busy" /\ pc'[Base] \in {"wait", "events", "accept", "functors"}
           \/ signal' = "waiting" /\ pc'[Base] = "destroy"
    BY <1>0, <1>11 DEF signal_handler
  <2>2. \A c \in Inline : state_'[c] # "CONNECTED"
    BY <1>0, <1>11 DEF signal_handler, stop, Shut
  <2>3. Inline' = Inline
    BY <2>1 DEF Inline
  <2> QED
    BY <2>1, <2>2, <2>3 DEF SignalInv
<1>12. CASE UNCHANGED vars
  BY <1>12 DEF vars, SignalInv, Inline
<1> QED
  BY <1>1, <1>2, <1>3, <1>4, <1>5, <1>6, <1>7, <1>8, <1>9, <1>10, <1>11, <1>12
     DEF Next, MainStep, LoopStep, Functor

-----------------------------------------------------------------------------
(* The theorems.                                                           *)

(***************************************************************************)
(* The inductive invariant: in every reachable state the loops are where   *)
(* their passes allow, the functors that wait are ones their connections   *)
(* allow, and the map and the signal agree with them.                      *)
(***************************************************************************)
THEOREM TcpServerInvariant == Spec => []TcpServerInv
<1>1. Init => TcpServerInv
  BY TypeInit, PassInit, ServerInit, SignalInit DEF TcpServerInv
<1>2. TcpServerInv /\ [Next]_vars => TcpServerInv'
  BY TypeStep, PassStep, ServerStep, SignalStep DEF TcpServerInv
<1> QED
  BY <1>1, <1>2, PTL DEF Spec

(***************************************************************************)
(* Type correctness.                                                       *)
(***************************************************************************)
THEOREM TypeCorrect == Spec => []TypeOK
<1>1. TcpServerInv => TypeOK
  BY DEF TcpServerInv
<1> QED
  BY <1>1, TcpServerInvariant, PTL

(***************************************************************************)
(* A functor is queued when it waits in the batch or behind it.            *)
(***************************************************************************)
LEMMA QueuedIsWaiting ==
  ASSUME TypeOK, NEW l \in Loops, NEW f, NEW c
  PROVE  Queued(l, f, c) <=> <<f, c>> \in Range(Waiting(l))
<1>1. batch[l] \in Seq(Functors) /\ pending[l] \in Seq(Functors)
  BY WaitingType
<1>2. Range(Waiting(l)) = Range(batch[l]) \cup Range(pending[l])
  BY <1>1, RangeOfBoth DEF Waiting
<1> QED
  BY <1>2 DEF Queued, Range

(***************************************************************************)
(* The property MapExact: connections_ is exactly the open connections and *)
(* those whose removal is on its way, and remove_connection_in_loop()      *)
(* always finds the connection it erases.                                  *)
(***************************************************************************)
THEOREM MapIsExact == Spec => []MapExact
<1>1. TcpServerInv => MapExact
  <2> SUFFICES ASSUME TcpServerInv, ServerUp
               PROVE  /\ \A c \in Clients :
                           c \in connections_ <=> /\ c \in Accepted
                                                  /\ \/ state_[c] # "DISCONNECTED"
                                                     \/ Queued(Base, "remove", c)
                      /\ fault # "assert"
    BY DEF MapExact, ServerUp
  <2>1. TypeOK /\ MapInv /\ fault # "assert"
    BY DEF TcpServerInv, ServerInv
  <2>2. \A c \in Clients : Queued(Base, "remove", c) <=>
                           <<"remove", c>> \in Range(Waiting(Base))
    BY <2>1, QueuedIsWaiting, LoopTypes
  <2> QED
    BY <2>1, <2>2 DEF MapInv
<1> QED
  BY <1>1, TcpServerInvariant, PTL

(***************************************************************************)
(* The property IterationSafe: ~TcpServer() erases from the map it runs    *)
(* over only after a signal that came in the middle of a pass.             *)
(***************************************************************************)
THEOREM DestructorIterates == Spec => []IterationSafe
<1>1. TcpServerInv => IterationSafe
  BY DEF TcpServerInv, SignalInv, IterationSafe
<1> QED
  BY <1>1, TcpServerInvariant, PTL

=============================================================================
