------------------------ MODULE TcpConnectionProofs -------------------------
(***************************************************************************)
(* Proofs about TcpConnection for any threads that use the connection, any *)
(* number and size of messages, and any behaviour of the peer.             *)
(***************************************************************************)
EXTENDS TcpConnection, SequenceTheorems, TLAPS

Functors == OwningFunctors \cup RawFunctors
Faults == {"none", "assert", "throw", "dangling", "iterator"}

(***************************************************************************)
(* The types of the connection's state.                                    *)
(***************************************************************************)
TypeOK ==
  /\ state_ \in {"CONNECTING", "CONNECTED", "DISCONNECTING", "DISCONNECTED"}
  /\ reg \in {"none", "read", "readwrite"}
  /\ output_buffer_ \in Seq(Nat) /\ wire \in Seq(Nat) /\ sent \in Nat
  /\ wr_shut \in BOOLEAN
  /\ peer \in [in : Nat, left : Nat, fin : BOOLEAN, rst : BOOLEAN]
  /\ dispatch \in Seq({"read", "write", "error"})
  /\ phase \in {"none", "user", "wrote"}
  /\ queue \in Seq(Functors) /\ main_queue \in Seq({"remove"})
  /\ in_map \in BOOLEAN /\ same_loop \in BOOLEAN /\ closes \in Nat
  /\ server \in {"up", "gone", "ended"}
  /\ caller \in [Callers -> Holding \cup {"none", "gone"}]
  /\ fault \in Faults

(***************************************************************************)
(* Nothing has happened to a connection that is CONNECTING, and            *)
(* connection_established() is queued once, and for no other.              *)
(***************************************************************************)
NoEstablished(q) == \A i \in DOMAIN q : q[i] # "established"

Fresh ==
  /\ state_ = "CONNECTING" =>
       /\ reg = "none" /\ output_buffer_ = << >> /\ dispatch = << >> /\ phase = "none"
       /\ closes = 0 /\ Unshared
       /\ server # "ended" => /\ queue # << >> /\ Head(queue) = "established"
                              /\ NoEstablished(Tail(queue))
  /\ state_ # "CONNECTING" => NoEstablished(queue)

(***************************************************************************)
(* A CONNECTED socket is in the poller of its loop, a DISCONNECTED one is  *)
(* not; the removal of a connection that was not closed is not on its way, *)
(* and it is in the map as long as there is a server.                      *)
(***************************************************************************)
Registered ==
  /\ state_ = "CONNECTED" /\ server # "ended" => reg # "none"
  /\ state_ = "DISCONNECTED" => reg = "none"
NotRemoved == closes = 0 => main_queue = << >> /\ (server = "up" => in_map)

LifeInv == Fresh /\ Registered /\ WriteInterest /\ ClosedOnce /\ NotRemoved

(***************************************************************************)
(* A closed connection that is still in the map is about to be removed.    *)
(* The map goes with the server, which leaves connection_destroyed()       *)
(* queued for a connection it found open, and a loop that has ended leaves *)
(* nothing.                                                                *)
(***************************************************************************)
Leaving ==
  /\ state_ = "DISCONNECTED" /\ fault = "none" => closes = 1
  /\ closes = 1 /\ in_map => main_queue # << >>

Destroyed(q) == \E i \in DOMAIN q : q[i] = "destroyed"

LastCall ==
  /\ server # "up" => ~in_map
  /\ server = "gone" /\ state_ \in {"CONNECTING", "CONNECTED"} => Destroyed(queue)

Ended ==
  server = "ended" => /\ queue = << >> /\ main_queue = << >>
                      /\ dispatch = << >> /\ phase = "none" /\ reg = "none"

ServerInv == Leaving /\ LastCall /\ Ended

(***************************************************************************)
(* While no other thread has the connection, none of its functors is       *)
(* queued, an open connection stays in the poller and a closed one stays   *)
(* DISCONNECTED.  Once the map and the main loop have let go of a closed   *)
(* connection the last pointer waits, in connection_destroyed(), behind    *)
(* every functor with a bare this.                                         *)
(***************************************************************************)
NoCallers(q) == \A i \in DOMAIN q : q[i] \notin {"send", "shutdown", "force_close"}

Guarded(q) ==
  \A i \in DOMAIN q : q[i] \in RawFunctors
    => \E j \in DOMAIN q : j > i /\ q[j] = "destroyed"

AloneInv ==
  Unshared => /\ NoCallers(queue)
              /\ closes = 1 => state_ = "DISCONNECTED"
              /\ state_ \in Open /\ server # "ended" => reg # "none"
              /\ state_ = "DISCONNECTED" /\ ~in_map /\ main_queue = << >> => Guarded(queue)

ConnInv == TypeOK /\ StreamInOrder /\ LifeInv /\ ServerInv /\ AloneInv

-----------------------------------------------------------------------------
(* What the handlers keep of the types.                                    *)

(***************************************************************************)
(* A queue with a functor added is a queue.                                *)
(***************************************************************************)
LEMMA QueueType ==
  ASSUME NEW q \in Seq(Functors), NEW f \in Functors
  PROVE  Append(q, f) \in Seq(Functors) /\ q \o <<f>> \in Seq(Functors)
BY Functors # {}

(***************************************************************************)
(* remove_connection() keeps the types.                                    *)
(***************************************************************************)
LEMMA RemoveType ==
  ASSUME TypeOK, NEW q \in Seq(Functors), remove_connection(q)
  PROVE  /\ queue' \in Seq(Functors) /\ main_queue' \in Seq({"remove"})
         /\ in_map' \in BOOLEAN /\ same_loop' \in BOOLEAN /\ closes' \in Nat
         /\ server' = server /\ fault' \in Faults
<1>1. Append(q, "destroyed") \in Seq(Functors)
  BY QueueType DEF Functors, OwningFunctors
<1>2. same_loop' \in BOOLEAN /\ closes' \in Nat /\ server' = server
  BY DEF TypeOK, remove_connection
<1>3. CASE same_loop
  BY <1>1, <1>2, <1>3 DEF TypeOK, Faults, remove_connection, remove_connection_in_loop
<1>4. CASE ~same_loop
  <2>1. Append(main_queue, "remove") \in Seq({"remove"})
    BY DEF TypeOK
  <2> QED
    BY <1>2, <1>4, <2>1 DEF TypeOK, remove_connection
<1> QED
  BY <1>3, <1>4

(***************************************************************************)
(* handle_close() keeps the types.                                         *)
(***************************************************************************)
LEMMA CloseType ==
  ASSUME TypeOK, NEW q \in Seq(Functors), handle_close(q)
  PROVE  /\ state_' \in {"CONNECTING", "CONNECTED", "DISCONNECTING", "DISCONNECTED"}
         /\ reg' \in {"none", "read", "readwrite"}
         /\ queue' \in Seq(Functors) /\ main_queue' \in Seq({"remove"})
         /\ in_map' \in BOOLEAN /\ same_loop' \in BOOLEAN /\ closes' \in Nat
         /\ server' = server /\ fault' \in Faults
<1>1. CASE state_ \notin Open \/ PollerThrows
  BY <1>1 DEF TypeOK, Faults, handle_close, Abort, ownerVars, remove_fd
<1>2. CASE state_ \in Open /\ ~PollerThrows
  BY <1>2, RemoveType DEF TypeOK, handle_close, remove_fd
<1> QED
  BY <1>1, <1>2

(***************************************************************************)
(* Units(m, n) is the numbers after m up to n, in order.                   *)
(***************************************************************************)
LEMMA UnitsType ==
  ASSUME NEW m \in Nat, NEW n \in Nat, m <= n
  PROVE  /\ Units(m, n) \in Seq(Nat) /\ Len(Units(m, n)) = n - m
         /\ \A i \in 1..(n - m) : Units(m, n)[i] = m + i
BY DEF Units

(***************************************************************************)
(* send_in_loop() keeps the types.                                         *)
(***************************************************************************)
LEMMA SendType ==
  ASSUME TypeOK, NEW n \in Nat, NEW k \in Nat, NEW q \in Seq(Functors), send_in_loop(n, k, q)
  PROVE  /\ output_buffer_' \in Seq(Nat) /\ wire' \in Seq(Nat) /\ sent' \in Nat
         /\ reg' \in {"none", "read", "readwrite"}
         /\ queue' \in Seq(Functors)
         /\ fault' \in Faults
<1>1. k <= n
  BY DEF send_in_loop
<1>2. Units(sent, sent + k) \in Seq(Nat) /\ Units(sent + k, sent + n) \in Seq(Nat)
  <2>1. /\ sent \in Nat /\ sent + k \in Nat /\ sent + n \in Nat
        /\ sent <= sent + k /\ sent + k <= sent + n
    BY <1>1 DEF TypeOK
  <2> QED
    BY <2>1, UnitsType
<1>3. output_buffer_' \in Seq(Nat) /\ wire' \in Seq(Nat) /\ sent' \in Nat
  <2>1. CASE UNCHANGED <<output_buffer_, sent, wire>>
    BY <2>1 DEF TypeOK
  <2>2. CASE /\ sent' = sent + n
             /\ wire' = wire \o Units(sent, sent + k)
             /\ output_buffer_' = output_buffer_ \o Units(sent + k, sent + n)
    BY <1>2, <2>2, ConcatProperties DEF TypeOK
  <2> QED
    BY <2>1, <2>2 DEF send_in_loop, sendVars
<1>4. queue' \in Seq(Functors)
  <2>1. "write_complete" \in Functors /\ "high_water" \in Functors
    BY DEF Functors, RawFunctors
  <2>2. /\ q \o <<"write_complete">> \in Seq(Functors)
        /\ q \o <<"high_water">> \in Seq(Functors)
        /\ q \o << >> = q
    BY <2>1, QueueType
  <2>3. \/ queue' = q \/ queue' = q \o <<"write_complete">>
        \/ queue' = q \o <<"high_water">> \/ queue' = q \o << >>
    BY DEF send_in_loop
  <2> QED
    BY <2>2, <2>3
<1>5. reg' \in {"none", "read", "readwrite"} /\ fault' \in Faults
  BY DEF TypeOK, Faults, send_in_loop, sendVars, modify_fd
<1> QED
  BY <1>3, <1>4, <1>5

(***************************************************************************)
(* What holds of the functors of a queue holds of the rest of it.          *)
(***************************************************************************)
LEMMA RestOfQueue ==
  ASSUME TypeOK, queue # << >>
  PROVE  /\ Tail(queue) \in Seq(Functors)
         /\ NoEstablished(queue) => NoEstablished(Tail(queue))
         /\ NoCallers(queue) => NoCallers(Tail(queue))
         /\ Guarded(queue) => Guarded(Tail(queue))
         /\ Destroyed(queue) /\ Head(queue) # "destroyed" => Destroyed(Tail(queue))
<1>1. /\ Tail(queue) \in Seq(Functors) /\ Len(queue) \in Nat \ {0}
      /\ DOMAIN queue = 1..Len(queue) /\ DOMAIN Tail(queue) = 1..(Len(queue) - 1)
      /\ \A i \in DOMAIN Tail(queue) : Tail(queue)[i] = queue[i + 1]
  BY DEF TypeOK
<1>2. \A i \in DOMAIN Tail(queue) : i + 1 \in DOMAIN queue
  BY <1>1
<1>3. Guarded(queue) => Guarded(Tail(queue))
  <2> SUFFICES ASSUME Guarded(queue), NEW i \in DOMAIN Tail(queue),
                      Tail(queue)[i] \in RawFunctors
               PROVE  \E j \in DOMAIN Tail(queue) : j > i /\ Tail(queue)[j] = "destroyed"
    BY DEF Guarded
  <2>1. PICK j \in DOMAIN queue : j > i + 1 /\ queue[j] = "destroyed"
    BY <1>1, <1>2 DEF Guarded
  <2>2. j - 1 \in DOMAIN Tail(queue) /\ j - 1 > i /\ Tail(queue)[j - 1] = "destroyed"
    BY <1>1, <2>1
  <2> QED
    BY <2>2
<1>4. ASSUME Destroyed(queue), Head(queue) # "destroyed" PROVE Destroyed(Tail(queue))
  <2>1. PICK j \in DOMAIN queue : queue[j] = "destroyed"
    BY <1>4 DEF Destroyed
  <2>2. j # 1
    BY <1>1, <1>4, <2>1
  <2>3. j - 1 \in DOMAIN Tail(queue) /\ Tail(queue)[j - 1] = "destroyed"
    BY <1>1, <2>1, <2>2
  <2> QED
    BY <2>3 DEF Destroyed
<1> QED
  BY <1>1, <1>2, <1>3, <1>4 DEF NoEstablished, NoCallers

(***************************************************************************)
(* A functor is added at the end of a queue.                               *)
(***************************************************************************)
LEMMA OneMore ==
  ASSUME NEW q \in Seq(Functors), NEW f \in Functors \ {"established"}
  PROVE  /\ NoEstablished(q) => NoEstablished(Append(q, f))
         /\ Destroyed(q) \/ f = "destroyed" => Destroyed(Append(q, f))
         /\ q # << >> => /\ Append(q, f) # << >> /\ Head(Append(q, f)) = Head(q)
                         /\ Tail(Append(q, f)) = Append(Tail(q), f)
                         /\ Tail(q) \in Seq(Functors)
<1>1. /\ Len(q) \in Nat /\ DOMAIN q = 1..Len(q) /\ DOMAIN Append(q, f) = 1..(Len(q) + 1)
      /\ \A i \in 1..Len(q) : Append(q, f)[i] = q[i]
      /\ Append(q, f)[Len(q) + 1] = f
  OBVIOUS
<1>2. NoEstablished(q) => NoEstablished(Append(q, f))
  BY <1>1 DEF NoEstablished
<1>3. Destroyed(q) \/ f = "destroyed" => Destroyed(Append(q, f))
  BY <1>1 DEF Destroyed
<1>4. ASSUME q # << >>
      PROVE  /\ Append(q, f) # << >> /\ Head(Append(q, f)) = Head(q)
             /\ Tail(Append(q, f)) = Append(Tail(q), f)
             /\ Tail(q) \in Seq(Functors)
  BY <1>4
<1> QED
  BY <1>2, <1>3, <1>4

-----------------------------------------------------------------------------
(* Types.                                                                  *)

(***************************************************************************)
(* The initial state has the types.                                        *)
(***************************************************************************)
LEMMA TypeInit == Init => TypeOK
<1> SUFFICES ASSUME Init PROVE TypeOK
  OBVIOUS
<1>1. peer \in [in : Nat, left : Nat, fin : BOOLEAN, rst : BOOLEAN]
  BY BoundsAssumption DEF Init
<1>2. queue \in Seq(Functors) /\ main_queue \in Seq({"remove"})
  BY DEF Init, Functors, OwningFunctors, RawFunctors
<1>3. caller \in [Callers -> Holding \cup {"none", "gone"}]
  BY DEF Init
<1>4. /\ output_buffer_ \in Seq(Nat) /\ wire \in Seq(Nat) /\ sent \in Nat /\ closes \in Nat
      /\ dispatch \in Seq({"read", "write", "error"})
  BY DEF Init
<1>5. wr_shut \in BOOLEAN /\ in_map \in BOOLEAN /\ same_loop \in BOOLEAN
  BY DEF Init
<1>6. /\ state_ = "CONNECTING" /\ reg = "none" /\ phase = "none" /\ server = "up"
      /\ fault \in Faults
  BY DEF Init, Faults
<1> QED
  BY <1>1, <1>2, <1>3, <1>4, <1>5, <1>6, Zenon DEF TypeOK

(***************************************************************************)
(* Every step keeps the types.                                             *)
(***************************************************************************)
LEMMA TypeStep == TypeOK /\ [Next]_vars => TypeOK'
<1> SUFFICES ASSUME TypeOK, [Next]_vars PROVE TypeOK'
  OBVIOUS
<1> USE DEF TypeOK
<1>1. CASE PeerSends
  <2>1. peer' \in [in : Nat, left : Nat, fin : BOOLEAN, rst : BOOLEAN]
    <3>1. peer.left - 1 \in Nat /\ peer.in + 1 \in Nat
      BY <1>1 DEF PeerSends
    <3>2. peer' = [peer EXCEPT !.in = peer.in + 1, !.left = peer.left - 1]
      BY <1>1 DEF PeerSends
    <3> QED
      BY <3>1, <3>2
  <2> QED
    BY <1>1, <2>1 DEF PeerSends, sendVars, ownerVars
<1>2. ASSUME NEW how \in {"fin", "rst"}, PeerCloses(how) PROVE TypeOK'
  <2>1. peer' \in [in : Nat, left : Nat, fin : BOOLEAN, rst : BOOLEAN]
    BY <1>2 DEF PeerCloses
  <2> QED
    BY <1>2, <2>1 DEF PeerCloses, sendVars, ownerVars
<1>3. ASSUME NEW writable \in BOOLEAN, Event(writable) PROVE TypeOK'
  <2>1. dispatch' \in Seq({"read", "write", "error"})
    <3> DEFINE S == {"read", "write", "error"}
               a == IF Readable THEN <<"read">> ELSE << >>
               b == IF writable THEN <<"write">> ELSE << >>
               c == IF HungUp THEN <<"error">> ELSE << >>
    <3>1. a \in Seq(S) /\ b \in Seq(S) /\ c \in Seq(S)
      <4>1. /\ <<"read">> \in Seq(S) /\ <<"write">> \in Seq(S) /\ <<"error">> \in Seq(S)
            /\ << >> \in Seq(S)
        OBVIOUS
      <4> QED
        BY <4>1, Zenon
    <3>2. dispatch' = a \o b \o c
      BY <1>3 DEF Event
    <3> HIDE DEF a, b, c, S
    <3>3. dispatch' \in Seq(S)
      BY <3>1, <3>2, ConcatProperties
    <3> QED
      BY <3>3 DEF S
  <2> QED
    BY <1>3, <2>1 DEF Event, sendVars, sockVars, ownerVars
<1>4. ASSUME NEW handler, Handling(handler) PROVE dispatch' \in Seq({"read", "write", "error"})
  BY <1>4 DEF Handling
<1>5. ASSUME NEW k \in 1..MaxIn, handle_read_data(k) PROVE TypeOK'
  <2>1. peer' \in [in : Nat, left : Nat, fin : BOOLEAN, rst : BOOLEAN]
    <3>1. peer.in - k \in Nat
      BY <1>5, BoundsAssumption DEF handle_read_data
    <3>2. peer' = [peer EXCEPT !.in = peer.in - k]
      BY <1>5 DEF handle_read_data
    <3> QED
      BY <3>1, <3>2
  <2> QED
    BY <1>4, <1>5, <2>1 DEF handle_read_data, sendVars, ownerVars
<1>6. CASE handle_read_end \/ handle_error
  <2>1. handle_close(queue) /\ dispatch' \in Seq({"read", "write", "error"})
    BY <1>4, <1>6 DEF handle_read_end, handle_error
  <2> QED
    BY <1>6, <2>1, CloseType DEF handle_read_end, handle_error, sendVars, sockVars
<1>7. ASSUME NEW k \in 1..Limit, handle_write(k) PROVE TypeOK'
  <2>1. k \in 1..Len(output_buffer_)
    BY <1>7 DEF handle_write, Limit
  <2>2. wire' \in Seq(Nat) /\ output_buffer_' \in Seq(Nat)
    <3>1. /\ SubSeq(output_buffer_, 1, k) \in Seq(Nat)
          /\ SubSeq(output_buffer_, k + 1, Len(output_buffer_)) \in Seq(Nat)
      BY <2>1, SubSeqProperties
    <3> QED
      BY <1>7, <3>1, ConcatProperties DEF handle_write
  <2>3. queue' \in Seq(Functors)
    <3>1. Append(queue, "write_complete") \in Seq(Functors)
      BY QueueType DEF Functors, RawFunctors
    <3> QED
      BY <1>7, <3>1 DEF handle_write
  <2> QED
    BY <1>4, <1>7, <2>2, <2>3 DEF handle_write, modify_fd, sockVars, ownerVars
<1>8. CASE handle_write_drained
  BY <1>8 DEF handle_write_drained, shutdown_in_loop, sendVars, ownerVars
<1>9. CASE handle_write_nothing
  BY <1>4, <1>9 DEF handle_write_nothing, sendVars, sockVars, ownerVars
<1>10. CASE UserReturn
  BY <1>10 DEF UserReturn, sendVars, sockVars, ownerVars
<1>11. CASE connection_established
  BY <1>11 DEF Faults, connection_established, Running, add_fd, sendVars, sockVars, ownerVars
<1>12. CASE connection_destroyed
  <2>1. Tail(queue) \in Seq(Functors)
    BY <1>12 DEF connection_destroyed, Running
  <2>2. CASE state_ = "CONNECTED"
    BY <1>12, <2>1, <2>2, RemoveType DEF connection_destroyed, remove_fd, sendVars, sockVars
  <2>3. CASE state_ # "CONNECTED"
    <3>1. queue' = Tail(queue) /\ UNCHANGED <<state_, reg, ownerVars, fault>>
      BY <1>12, <2>3 DEF connection_destroyed
    <3>2. UNCHANGED <<sendVars, sockVars, dispatch, phase, caller>>
      BY <1>12 DEF connection_destroyed
    <3> QED
      BY <2>1, <3>1, <3>2 DEF sendVars, sockVars, ownerVars
  <2> QED
    BY <2>2, <2>3
<1>13. CASE RunUserCallback
  <2>1. Tail(queue) \in Seq(Functors)
    BY <1>13 DEF RunUserCallback, Following, Running
  <2> QED
    BY <1>13, <2>1 DEF RunUserCallback, sendVars, sockVars, ownerVars
<1>14. ASSUME NEW n \in 1..MaxMessage, NEW k \in 0..MaxMessage, QueuedSend(n, k) PROVE TypeOK'
  <2>1. Tail(queue) \in Seq(Functors) /\ n \in Nat /\ k \in Nat
    BY <1>14, BoundsAssumption DEF QueuedSend, Following, Running
  <2> QED
    BY <1>14, <2>1, SendType DEF QueuedSend, sockVars, ownerVars
<1>15. CASE QueuedShutdown
  <2>1. Tail(queue) \in Seq(Functors)
    BY <1>15 DEF QueuedShutdown, Following, Running
  <2> QED
    BY <1>15, <2>1 DEF QueuedShutdown, shutdown_in_loop, sendVars, ownerVars
<1>16. CASE force_close_in_loop
  <2>1. Tail(queue) \in Seq(Functors)
    BY <1>16 DEF force_close_in_loop, Following, Running
  <2>2. CASE state_ \in Open
    BY <1>16, <2>1, <2>2, CloseType DEF force_close_in_loop, sendVars, sockVars
  <2>3. CASE state_ \notin Open
    <3>1. queue' = Tail(queue) /\ UNCHANGED <<state_, reg, ownerVars, fault>>
      BY <1>16, <2>3 DEF force_close_in_loop
    <3>2. UNCHANGED <<sendVars, sockVars, dispatch, phase, caller>>
      BY <1>16 DEF force_close_in_loop
    <3> QED
      BY <2>1, <3>1, <3>2 DEF sendVars, sockVars, ownerVars
  <2> QED
    BY <2>2, <2>3
<1>17. CASE RunDangling \/ EventDangling
  BY <1>17 DEF Faults, RunDangling, EventDangling, Abort, sendVars, sockVars, ownerVars
<1>18. ASSUME NEW n \in 1..MaxMessage, NEW k \in 0..MaxMessage, UserSend(n, k) PROVE TypeOK'
  <2>1. n \in Nat /\ k \in Nat
    BY BoundsAssumption
  <2> QED
    BY <1>18, <2>1, SendType DEF UserSend, sockVars, ownerVars
<1>19. CASE UserShutdown
  BY <1>19 DEF UserShutdown, shutdown_in_loop, sendVars, ownerVars
<1>20. CASE UserForceClose
  BY <1>20, CloseType DEF UserForceClose, sendVars, sockVars
<1>21. ASSUME NEW c \in Callers, UserShares(c) PROVE TypeOK'
  BY <1>21 DEF UserShares, Holding, sendVars, sockVars, ownerVars
<1>22. CASE MainRemoves
  <2>1. Append(queue, "destroyed") \in Seq(Functors) /\ Tail(main_queue) \in Seq({"remove"})
    BY <1>22, QueueType DEF MainRemoves, Functors, OwningFunctors
  <2> QED
    BY <1>22, <2>1 DEF Faults, MainRemoves, remove_connection_in_loop, sendVars, sockVars
<1>23. ASSUME NEW c \in Callers, ThreadCall(c) PROVE TypeOK'
  <2>1. ASSUME NEW call \in {"send", "shutdown", "force_close"}, CallerChecks(c, call)
        PROVE  TypeOK'
    BY <2>1 DEF CallerChecks, Holding, sendVars, sockVars, ownerVars
  <2>2. ASSUME NEW call \in {"send", "shutdown", "force_close"}, CallerQueues(c, call)
        PROVE  TypeOK'
    <3>1. queue' \in Seq(Functors)
      BY <2>2 DEF CallerQueues, Functors, RawFunctors
    <3> QED
      BY <2>2, <3>1 DEF CallerQueues, Holding, sendVars, sockVars, ownerVars
  <2>3. CASE CallerStores(c)
    BY <2>3 DEF CallerStores, Stored, Holding, sendVars, sockVars, ownerVars
  <2>4. CASE CallerDrops(c)
    BY <2>4 DEF CallerDrops, sendVars, sockVars, ownerVars
  <2> QED
    BY <1>23, <2>1, <2>2, <2>3, <2>4 DEF ThreadCall
<1>24. CASE UNCHANGED vars
  BY <1>24 DEF vars, sendVars, sockVars, ownerVars
<1>25. Shutdown => /\ wr_shut' \in BOOLEAN
                   /\ state_' \in {"CONNECTING", "CONNECTED", "DISCONNECTING", "DISCONNECTED"}
  BY DEF Shutdown, shutdown_in_loop
<1>26. CASE stop
  <2>1. Append(queue, "server_stop") \in Seq(Functors)
    BY QueueType DEF Functors, OwningFunctors
  <2> QED
    BY <1>25, <1>26, <2>1 DEF stop, sendVars, ownerVars
<1>27. CASE QueuedStop
  <2>1. Tail(queue) \in Seq(Functors)
    BY <1>27 DEF QueuedStop, Running
  <2> QED
    BY <1>25, <1>27, <2>1 DEF QueuedStop, sendVars, ownerVars
<1>28. CASE DestroyServer
  <2>1. Append(queue, "destroyed") \in Seq(Functors)
    BY QueueType DEF Functors, OwningFunctors
  <2>2. queue' \in Seq(Functors) /\ server' = "gone" /\ in_map' = FALSE
    BY <1>28, <2>1 DEF DestroyServer
  <2>3. /\ state_' \in {"CONNECTING", "CONNECTED", "DISCONNECTING", "DISCONNECTED"}
        /\ reg' \in {"none", "read", "readwrite"} /\ closes' \in Nat /\ fault' \in Faults
    <3>1. CASE Erases
      BY <1>28, <3>1 DEF DestroyServer, remove_fd, Faults
    <3>2. CASE ~Erases
      BY <1>28, <3>2 DEF DestroyServer
    <3> QED
      BY <3>1, <3>2
  <2>4. /\ UNCHANGED <<output_buffer_, sent, wire, wr_shut, peer, dispatch, phase>>
        /\ UNCHANGED <<main_queue, same_loop, caller>>
    BY <1>28 DEF DestroyServer, sendVars, sockVars
  <2> QED
    BY <2>2, <2>3, <2>4
<1>29. CASE Exit
  BY <1>29 DEF Exit, sendVars, sockVars
<1> QED
  BY <1>1, <1>2, <1>3, <1>5, <1>6, <1>7, <1>8, <1>9, <1>10, <1>11, <1>12, <1>13, <1>14,
     <1>15, <1>16, <1>17, <1>18, <1>19, <1>20, <1>21, <1>22, <1>23, <1>24, <1>26, <1>27,
     <1>28, <1>29
     DEF Next, Handler, Functor, UserCall

-----------------------------------------------------------------------------
(* The output stream.                                                      *)

(***************************************************************************)
(* Consecutive stretches of the stream join without a gap.                 *)
(***************************************************************************)
LEMMA UnitsConcat ==
  ASSUME NEW l \in Nat, NEW m \in Nat, NEW n \in Nat, l <= m, m <= n
  PROVE  Units(l, m) \o Units(m, n) = Units(l, n)
<1> DEFINE s == Units(l, m) \o Units(m, n)
<1>1. /\ Units(l, m) \in Seq(Nat) /\ Len(Units(l, m)) = m - l
      /\ \A i \in 1..(m - l) : Units(l, m)[i] = l + i
  BY UnitsType
<1>2. /\ Units(m, n) \in Seq(Nat) /\ Len(Units(m, n)) = n - m
      /\ \A i \in 1..(n - m) : Units(m, n)[i] = m + i
  BY UnitsType
<1>3. l <= n
  OBVIOUS
<1>4. /\ Units(l, n) \in Seq(Nat) /\ Len(Units(l, n)) = n - l
      /\ \A i \in 1..(n - l) : Units(l, n)[i] = l + i
  BY <1>3, UnitsType
<1>5. /\ s \in Seq(Nat) /\ Len(s) = n - l
      /\ \A i \in 1..(n - l) : s[i] = IF i <= m - l THEN Units(l, m)[i]
                                      ELSE Units(m, n)[i - (m - l)]
  <2>1. /\ s \in Seq(Nat) /\ Len(s) = Len(Units(l, m)) + Len(Units(m, n))
        /\ \A i \in 1..(Len(Units(l, m)) + Len(Units(m, n))) :
             s[i] = IF i <= Len(Units(l, m)) THEN Units(l, m)[i]
                    ELSE Units(m, n)[i - Len(Units(l, m))]
    BY <1>1, <1>2, ConcatProperties
  <2>2. Len(Units(l, m)) + Len(Units(m, n)) = n - l
    BY <1>1, <1>2
  <2> HIDE DEF s
  <2> QED
    BY <1>1, <2>1, <2>2
<1> HIDE DEF s
<1>6. ASSUME NEW i \in 1..(n - l) PROVE s[i] = Units(l, n)[i]
  <2>1. CASE i <= m - l
    BY <1>1, <1>4, <1>5, <2>1
  <2>2. CASE i > m - l
    <3>1. i - (m - l) \in 1..(n - m)
      BY <2>2
    <3> QED
      BY <1>2, <1>4, <1>5, <2>2, <3>1
  <2> QED
    BY <2>1, <2>2
<1>7. s = Units(l, n)
  BY <1>4, <1>5, <1>6, SeqEqual
<1> QED
  BY <1>7 DEF s

(***************************************************************************)
(* Concatenation is associative.                                           *)
(***************************************************************************)
LEMMA Assoc ==
  ASSUME NEW a \in Seq(Nat), NEW b \in Seq(Nat), NEW c \in Seq(Nat)
  PROVE  (a \o b) \o c = a \o (b \o c)
<1>1. /\ a \o b \in Seq(Nat) /\ b \o c \in Seq(Nat)
      /\ Len(a) \in Nat /\ Len(b) \in Nat /\ Len(c) \in Nat
      /\ Len(a \o b) = Len(a) + Len(b) /\ Len(b \o c) = Len(b) + Len(c)
  BY ConcatProperties, LenProperties
<1>2. /\ (a \o b) \o c \in Seq(Nat) /\ a \o (b \o c) \in Seq(Nat)
      /\ Len((a \o b) \o c) = Len(a) + Len(b) + Len(c)
      /\ Len(a \o (b \o c)) = Len(a) + Len(b) + Len(c)
  BY <1>1, ConcatProperties
<1>3. ASSUME NEW i \in 1..(Len(a) + Len(b) + Len(c))
      PROVE  ((a \o b) \o c)[i] = (a \o (b \o c))[i]
  OBVIOUS
<1> QED
  BY <1>2, <1>3, SeqEqual

(***************************************************************************)
(* send_in_loop() keeps the stream in order: what the socket takes goes    *)
(* out directly only when nothing is buffered before it.                   *)
(***************************************************************************)
LEMMA SendStream ==
  ASSUME TypeOK, StreamInOrder, NEW n \in Nat, NEW k \in Nat, NEW q, send_in_loop(n, k, q)
  PROVE  StreamInOrder'
<1>1. CASE UNCHANGED sendVars
  BY <1>1 DEF sendVars, StreamInOrder, Units
<1>2. CASE ~UNCHANGED sendVars
  <2> DEFINE direct == Units(sent, sent + k)
             waits == Units(sent + k, sent + n)
  <2>1. /\ sent' = sent + n /\ wire' = wire \o direct
        /\ output_buffer_' = output_buffer_ \o waits
        /\ k <= n /\ (output_buffer_ # << >> => k = 0)
    BY <1>2 DEF send_in_loop
  <2>2. /\ sent \in Nat /\ sent + k \in Nat /\ sent + n \in Nat /\ 0 <= sent
        /\ sent <= sent + k /\ sent + k <= sent + n /\ sent <= sent + n
    BY <2>1 DEF TypeOK
  <2>3. direct \in Seq(Nat) /\ waits \in Seq(Nat) /\ Len(direct) = k
    <3>1. Len(direct) = (sent + k) - sent
      BY <2>2, UnitsType
    <3>2. direct \in Seq(Nat) /\ waits \in Seq(Nat)
      BY <2>2, UnitsType
    <3> HIDE DEF direct, waits
    <3> QED
      BY <2>2, <3>1, <3>2
  <2>4. direct \o waits = Units(sent, sent + n) /\ Units(sent, sent + n) \in Seq(Nat)
    BY <2>2, UnitsConcat, UnitsType
  <2>5. Units(0, sent) \o Units(sent, sent + n) = Units(0, sent + n)
    BY <2>2, UnitsConcat
  <2> HIDE DEF direct, waits
  <2>6. wire \in Seq(Nat) /\ output_buffer_ \in Seq(Nat)
    BY DEF TypeOK
  <2>7. (wire \o direct) \o (output_buffer_ \o waits)
          = (wire \o output_buffer_) \o (direct \o waits)
    <3>1. CASE output_buffer_ = << >>
      <4>1. wire \o output_buffer_ = wire /\ output_buffer_ \o waits = waits
        BY <2>3, <2>6, <3>1, ConcatEmptySeq
      <4>2. (wire \o direct) \o waits = wire \o (direct \o waits)
        BY <2>3, <2>6, Assoc
      <4> QED
        BY <4>1, <4>2
    <3>2. CASE direct = << >>
      <4>1. wire \o direct = wire /\ direct \o waits = waits
        BY <2>3, <2>6, <3>2, ConcatEmptySeq
      <4>2. (wire \o output_buffer_) \o waits = wire \o (output_buffer_ \o waits)
        BY <2>3, <2>6, Assoc
      <4> QED
        BY <4>1, <4>2
    <3>3. output_buffer_ = << >> \/ direct = << >>
      BY <2>1, <2>3
    <3> QED
      BY <3>1, <3>2, <3>3
  <2> QED
    BY <2>1, <2>4, <2>5, <2>7 DEF StreamInOrder
<1> QED
  BY <1>1, <1>2

(***************************************************************************)
(* handle_write() moves the front of the buffer to the wire.               *)
(***************************************************************************)
LEMMA WriteStream ==
  ASSUME TypeOK, StreamInOrder, NEW k \in 1..Limit, handle_write(k)
  PROVE  StreamInOrder'
<1> DEFINE written == SubSeq(output_buffer_, 1, k)
           rest == SubSeq(output_buffer_, k + 1, Len(output_buffer_))
<1>1. /\ k \in 1..Len(output_buffer_) /\ output_buffer_ \in Seq(Nat) /\ wire \in Seq(Nat)
      /\ Len(output_buffer_) \in Nat /\ sent' = sent
      /\ wire' = wire \o written /\ output_buffer_' = rest
  BY DEF handle_write, TypeOK
<1>2. written \in Seq(Nat) /\ rest \in Seq(Nat)
  BY <1>1, SubSeqProperties
<1>3. written \o rest = output_buffer_
  <2>1. /\ 1 \in 1..(Len(output_buffer_) + 1) /\ k \in 0..Len(output_buffer_)
        /\ Len(output_buffer_) \in k..Len(output_buffer_) /\ 1 - 1 = 0
    BY <1>1
  <2>2. written \o rest = SubSeq(output_buffer_, 1, Len(output_buffer_))
    BY <1>1, <2>1, ConcatAdjacentSubSeq
  <2> QED
    BY <1>1, <2>2, SubSeqFull
<1> HIDE DEF written, rest
<1>4. (wire \o written) \o rest = wire \o output_buffer_
  <2>1. (wire \o written) \o rest = wire \o (written \o rest)
    BY <1>1, <1>2, Assoc
  <2> QED
    BY <1>3, <2>1
<1> QED
  BY <1>1, <1>4 DEF StreamInOrder, Units

(***************************************************************************)
(* Every step keeps the stream in order.                                   *)
(***************************************************************************)
LEMMA StreamStep == TypeOK /\ StreamInOrder /\ [Next]_vars => StreamInOrder'
<1> SUFFICES ASSUME TypeOK, StreamInOrder, [Next]_vars PROVE StreamInOrder'
  OBVIOUS
<1>1. CASE UNCHANGED sendVars
  BY <1>1 DEF sendVars, StreamInOrder, Units
<1>2. ASSUME NEW n \in 1..MaxMessage, NEW k \in 0..MaxMessage, UserSend(n, k) \/ QueuedSend(n, k)
      PROVE  StreamInOrder'
  <2>1. n \in Nat /\ k \in Nat
    BY BoundsAssumption
  <2> QED
    BY <1>2, <2>1, SendStream DEF UserSend, QueuedSend
<1>3. ASSUME NEW k \in 1..Limit, handle_write(k) PROVE StreamInOrder'
  BY <1>3, WriteStream
<1>4. CASE UNCHANGED vars
  BY <1>1, <1>4 DEF vars
<1>5. ASSUME NEW c \in Callers, ThreadCall(c) PROVE UNCHANGED sendVars
  BY <1>5 DEF ThreadCall, CallerChecks, CallerQueues, CallerStores, CallerDrops
<1>6. CASE Handler
  BY <1>1, <1>3, <1>6 DEF Handler, handle_read_data, handle_read_end, handle_error,
     handle_write_drained, handle_write_nothing, UserReturn
<1>7. CASE Functor
  BY <1>1, <1>2, <1>7 DEF Functor, connection_established, connection_destroyed,
     QueuedStop, RunUserCallback, QueuedShutdown, force_close_in_loop, RunDangling
<1>8. CASE UserCall
  BY <1>1, <1>2, <1>8 DEF UserCall, UserShutdown, UserForceClose, UserShares
<1> QED
  BY <1>1, <1>4, <1>5, <1>6, <1>7, <1>8 DEF Next, PeerSends, PeerCloses, Event, EventDangling,
     MainRemoves, stop, DestroyServer, Exit

-----------------------------------------------------------------------------
(* The life of the connection.                                             *)

(***************************************************************************)
(* The initial state satisfies LifeInv.                                    *)
(***************************************************************************)
LEMMA LifeInit == Init => LifeInv
<1> SUFFICES ASSUME Init PROVE LifeInv
  OBVIOUS
<1>1. Fresh
  <2>1. /\ queue # << >> /\ Head(queue) = "established" /\ Tail(queue) = << >>
    BY DEF Init
  <2>2. NoEstablished(Tail(queue))
    BY <2>1 DEF NoEstablished
  <2> QED
    BY <2>1, <2>2 DEF Init, Fresh, Unshared
<1> QED
  BY <1>1 DEF Init, LifeInv, Registered, WriteInterest, ClosedOnce, NotRemoved

(***************************************************************************)
(* While it is CONNECTING only the peer and the server act, and the io     *)
(* loop's first functor.                                                   *)
(***************************************************************************)
LEMMA OnlyEstablished ==
  ASSUME LifeInv, state_ = "CONNECTING", Next
  PROVE  \/ PeerSends
         \/ \E how \in {"fin", "rst"} : PeerCloses(how)
         \/ connection_established
         \/ stop \/ DestroyServer \/ Exit
<1>1. /\ reg = "none" /\ dispatch = << >> /\ phase = "none"
      /\ main_queue = << >> /\ \A c \in Callers : caller[c] = "none"
      /\ server # "ended" => Head(queue) = "established"
  BY DEF LifeInv, Fresh, NotRemoved, Unshared
<1>2. /\ \A writable \in BOOLEAN : ~Event(writable)
      /\ ~EventDangling
  BY <1>1 DEF Event, EventDangling, Ready
<1>3. ~Handler
  BY <1>1 DEF Handler, Handling, handle_read_data, handle_read_end, handle_error,
     handle_write, handle_write_drained, handle_write_nothing, UserReturn, InUser
<1>4. ~UserCall
  BY <1>1 DEF UserCall, UserSend, UserShutdown, UserForceClose, UserShares, InUser
<1>5. ~MainRemoves
  BY <1>1 DEF MainRemoves
<1>6. ASSUME NEW c \in Callers, ThreadCall(c) PROVE FALSE
  BY <1>1, <1>6 DEF ThreadCall, CallerChecks, CallerQueues, Stored, CallerStores, CallerDrops
<1>7. ASSUME NEW functor, Running(functor) PROVE functor = "established"
  BY <1>1, <1>7 DEF Running, LoopIdle, LoopRuns
<1>8. Functor => connection_established
  BY <1>7 DEF Functor, connection_destroyed, QueuedStop, RunUserCallback, QueuedSend,
     QueuedShutdown, force_close_in_loop, RunDangling, Following, RawFunctors
<1> QED
  BY <1>2, <1>3, <1>4, <1>5, <1>6, <1>8 DEF Next

(***************************************************************************)
(* stop() keeps LifeInv, in place and through the io loop's queue.         *)
(***************************************************************************)
LEMMA StopLife ==
  ASSUME TypeOK, LifeInv, stop
  PROVE  LifeInv'
<1> USE DEF LifeInv
<1>1. /\ server = "up" /\ server' = "up"
      /\ UNCHANGED <<reg, output_buffer_, dispatch, phase, main_queue, in_map, closes, caller,
                     fault>>
      /\ state_' = state_ \/ (state_ = "CONNECTED" /\ state_' = "DISCONNECTING")
      /\ queue' = queue \/ queue' = Append(queue, "server_stop")
  BY DEF stop, Shutdown, sendVars, ownerVars
<1>2. Registered' /\ WriteInterest' /\ ClosedOnce' /\ NotRemoved'
  BY <1>1 DEF Registered, WriteInterest, ClosedOnce, NotRemoved
<1>3. queue \in Seq(Functors) /\ "server_stop" \in Functors \ {"established"}
  BY DEF TypeOK, Functors, OwningFunctors
<1>4. CASE state_ = "CONNECTING"
  <2>1. /\ queue' # << >> /\ Head(queue') = "established" /\ NoEstablished(Tail(queue'))
    <3>1. queue # << >> /\ Head(queue) = "established" /\ NoEstablished(Tail(queue))
      BY <1>1, <1>4 DEF Fresh
    <3>2. CASE queue' = queue
      BY <3>1, <3>2
    <3>3. CASE queue' = Append(queue, "server_stop")
      <4>1. /\ Append(queue, "server_stop") # << >>
            /\ Head(Append(queue, "server_stop")) = Head(queue)
            /\ Tail(Append(queue, "server_stop")) = Append(Tail(queue), "server_stop")
            /\ Tail(queue) \in Seq(Functors)
        BY <1>3, <3>1, OneMore
      <4>2. NoEstablished(Append(Tail(queue), "server_stop"))
        BY <1>3, <3>1, <4>1, OneMore
      <4> QED
        BY <3>1, <3>3, <4>1, <4>2
    <3> QED
      BY <1>1, <3>2, <3>3
  <2> QED
    BY <1>1, <1>2, <1>4, <2>1 DEF Fresh, Unshared, NoEstablished
<1>5. CASE state_ # "CONNECTING"
  <2>1. NoEstablished(queue')
    BY <1>1, <1>3, <1>5, OneMore DEF Fresh
  <2> QED
    BY <1>1, <1>2, <1>5, <2>1 DEF Fresh, NoEstablished
<1> QED
  BY <1>4, <1>5

(***************************************************************************)
(* The destructors keep LifeInv.                                           *)
(***************************************************************************)
LEMMA DestroyLife ==
  ASSUME TypeOK, LifeInv, DestroyServer
  PROVE  LifeInv'
<1> USE DEF LifeInv
<1>1. /\ server = "up" /\ server' = "gone" /\ fault = "none"
      /\ UNCHANGED <<output_buffer_, dispatch, phase, main_queue, caller>>
      /\ queue' = queue \/ queue' = Append(queue, "destroyed")
  BY DEF DestroyServer, sendVars
<1>2. queue \in Seq(Functors) /\ "destroyed" \in Functors \ {"established"}
  BY DEF TypeOK, Functors, OwningFunctors
<1>3. CASE Erases
  <2>1. /\ state_ = "CONNECTED" /\ state_' = "DISCONNECTED" /\ reg' = "none"
        /\ closes' = closes + 1
    BY <1>3 DEF DestroyServer, Erases, remove_fd
  <2>2. closes = 0 /\ closes' = 1
    BY <1>1, <2>1 DEF Registered, ClosedOnce, TypeOK
  <2>3. NoEstablished(queue')
    BY <1>1, <1>2, <2>1, OneMore DEF Fresh
  <2> QED
    BY <1>1, <2>1, <2>2, <2>3 DEF Fresh, NoEstablished, Registered, WriteInterest, ClosedOnce,
       NotRemoved
<1>4. CASE ~Erases
  <2>1. UNCHANGED <<state_, reg, closes, fault>>
    BY <1>4 DEF DestroyServer
  <2>2. Registered' /\ WriteInterest' /\ ClosedOnce' /\ NotRemoved'
    BY <1>1, <2>1 DEF Registered, WriteInterest, ClosedOnce, NotRemoved
  <2>3. CASE state_ = "CONNECTING"
    <3>1. queue' # << >> /\ Head(queue') = "established" /\ NoEstablished(Tail(queue'))
      <4>1. queue # << >> /\ Head(queue) = "established" /\ NoEstablished(Tail(queue))
        BY <1>1, <2>3 DEF Fresh
      <4>2. /\ Append(queue, "destroyed") # << >>
            /\ Head(Append(queue, "destroyed")) = Head(queue)
            /\ Tail(Append(queue, "destroyed")) = Append(Tail(queue), "destroyed")
            /\ Tail(queue) \in Seq(Functors)
        BY <1>2, <4>1, OneMore
      <4>3. NoEstablished(Append(Tail(queue), "destroyed"))
        BY <1>2, <4>1, <4>2, OneMore
      <4>4. CASE queue' = queue
        BY <4>1, <4>4
      <4>5. CASE queue' = Append(queue, "destroyed")
        BY <4>1, <4>2, <4>3, <4>5
      <4> QED
        BY <1>1, <4>4, <4>5
    <3> QED
      BY <1>1, <2>1, <2>2, <2>3, <3>1 DEF Fresh, Unshared, NoEstablished
  <2>4. CASE state_ # "CONNECTING"
    <3>1. NoEstablished(queue')
      BY <1>1, <1>2, <2>4, OneMore DEF Fresh
    <3> QED
      BY <1>1, <2>1, <2>2, <2>4, <3>1 DEF Fresh, NoEstablished
  <2> QED
    BY <2>3, <2>4
<1> QED
  BY <1>3, <1>4

(***************************************************************************)
(* So does the end of the loops.                                           *)
(***************************************************************************)
LEMMA ExitLife ==
  ASSUME TypeOK, LifeInv, Exit
  PROVE  LifeInv'
<1> USE DEF LifeInv
<1>1. /\ server' = "ended" /\ reg' = "none" /\ queue' = << >> /\ main_queue' = << >>
      /\ UNCHANGED <<state_, output_buffer_, dispatch, phase, in_map, closes, caller, fault>>
  BY DEF Exit, sendVars
<1>2. Fresh'
  BY <1>1 DEF Fresh, NoEstablished, Unshared
<1> QED
  BY <1>1, <1>2 DEF Registered, WriteInterest, ClosedOnce, NotRemoved, TypeOK

(***************************************************************************)
(* handle_close() of an established connection keeps LifeInv.              *)
(***************************************************************************)
LEMMA CloseLife ==
  ASSUME TypeOK, LifeInv, state_ # "CONNECTING", NEW q \in Seq(Functors), NoEstablished(q),
         handle_close(q)
  PROVE  LifeInv'
<1> USE DEF LifeInv
<1>1. CASE state_ \notin Open
  BY <1>1 DEF handle_close, Abort, ownerVars, Fresh, Registered, WriteInterest, ClosedOnce,
     NotRemoved, TypeOK, Open
<1>2. CASE state_ \in Open /\ PollerThrows
  BY <1>2 DEF handle_close, Abort, ownerVars, remove_fd, Fresh, Registered, WriteInterest,
     ClosedOnce, NotRemoved
<1>3. CASE state_ \in Open /\ ~PollerThrows
  <2>1. state_' = "DISCONNECTED" /\ reg' = "none" /\ remove_connection(q)
    BY <1>3 DEF handle_close, remove_fd
  <2>2. closes = 0 /\ closes' = 1
    BY <1>3, <2>1 DEF PollerThrows, ClosedOnce, remove_connection, TypeOK
  <2>3. queue' = q \/ queue' = Append(q, "destroyed")
    BY <2>1 DEF remove_connection, remove_connection_in_loop
  <2>4. NoEstablished(Append(q, "destroyed"))
    BY DEF NoEstablished
  <2>5. NoEstablished(queue')
    BY <2>3, <2>4
  <2>6. Fresh'
    BY <2>1, <2>5 DEF Fresh, NoEstablished
  <2> QED
    BY <2>1, <2>2, <2>6 DEF Registered, WriteInterest, ClosedOnce, NotRemoved
<1> QED
  BY <1>1, <1>2, <1>3

(***************************************************************************)
(* send_in_loop() of an established connection keeps LifeInv.              *)
(***************************************************************************)
LEMMA SendLife ==
  ASSUME TypeOK, LifeInv, state_ # "CONNECTING", NEW n \in Nat, NEW k \in Nat,
         NEW q \in Seq(Functors), NoEstablished(q), send_in_loop(n, k, q),
         UNCHANGED <<state_, ownerVars>>
  PROVE  LifeInv'
<1> USE DEF LifeInv
<1>1. NoEstablished(queue')
  <2>1. \/ queue' = q \/ queue' = q \o <<"write_complete">>
        \/ queue' = q \o <<"high_water">> \/ queue' = q \o << >>
    BY DEF send_in_loop
  <2>2. NoEstablished(q \o <<"write_complete">>) /\ NoEstablished(q \o <<"high_water">>)
    BY DEF NoEstablished
  <2>3. q \o << >> = q
    OBVIOUS
  <2> QED
    BY <2>1, <2>2, <2>3
<1>2. Fresh'
  BY <1>1 DEF Fresh, NoEstablished
<1>3. reg = "none" <=> reg' = "none"
  BY DEF send_in_loop, modify_fd
<1>4. Registered' /\ ClosedOnce' /\ NotRemoved'
  BY <1>3 DEF Registered, ClosedOnce, NotRemoved, ownerVars
<1>5. WriteInterest'
  <2> SUFFICES ASSUME fault' = "none", server # "ended", state_ = "CONNECTED"
               PROVE  reg' = "readwrite" <=> output_buffer_' # << >>
    BY DEF WriteInterest, ownerVars
  <2>1. reg # "none" /\ fault = "none"
    BY DEF Registered, send_in_loop
  <2>2. reg = "readwrite" <=> output_buffer_ # << >>
    BY <2>1 DEF WriteInterest
  <2>3. CASE UNCHANGED sendVars /\ UNCHANGED reg
    BY <2>2, <2>3 DEF sendVars
  <2>4. CASE ~(UNCHANGED sendVars /\ UNCHANGED reg)
    <3> DEFINE waits == Units(sent + k, sent + n)
    <3>1. /\ output_buffer_' = output_buffer_ \o waits
          /\ IF k < n THEN reg' = "readwrite" ELSE reg' = reg
          /\ k <= n
      BY <2>1, <2>4 DEF send_in_loop, modify_fd
    <3>2. waits \in Seq(Nat) /\ Len(waits) = n - k
      <4>1. sent + k \in Nat /\ sent + n \in Nat /\ sent + k <= sent + n
        BY <3>1 DEF TypeOK
      <4>2. waits \in Seq(Nat) /\ Len(waits) = (sent + n) - (sent + k)
        BY <4>1, UnitsType
      <4> QED
        BY <4>2 DEF TypeOK
    <3> HIDE DEF waits
    <3>3. waits = << >> <=> k = n
      BY <3>1, <3>2
    <3>4. CASE k < n
      BY <3>1, <3>2, <3>3, <3>4, ConcatEqualIffEmpty DEF TypeOK
    <3>5. CASE k = n
      BY <2>2, <3>1, <3>2, <3>3, <3>5, ConcatEmptySeq DEF TypeOK
    <3> QED
      BY <3>1, <3>4, <3>5
  <2> QED
    BY <2>3, <2>4
<1> QED
  BY <1>2, <1>4, <1>5

(***************************************************************************)
(* Every step keeps LifeInv.                                               *)
(***************************************************************************)
LEMMA LifeStep == TypeOK /\ LifeInv /\ ServerInv /\ [Next]_vars => LifeInv'
<1> SUFFICES ASSUME TypeOK, LifeInv, ServerInv, [Next]_vars PROVE LifeInv'
  OBVIOUS
<1> USE DEF LifeInv
<1>1. CASE UNCHANGED <<state_, reg, output_buffer_, dispatch, phase, queue, ownerVars, caller,
                       fault>>
  BY <1>1 DEF ownerVars, Fresh, Registered, WriteInterest, ClosedOnce, NotRemoved, Unshared,
     NoEstablished
<1>2. CASE PeerSends \/ \E how \in {"fin", "rst"} : PeerCloses(how)
  BY <1>1, <1>2 DEF PeerSends, PeerCloses, sendVars
<1>3. CASE connection_established
  <2>1. /\ queue # << >> /\ Head(queue) = "established" /\ queue' = Tail(queue)
        /\ state_' = "CONNECTED" /\ reg' = "read"
        /\ UNCHANGED <<output_buffer_, main_queue, in_map, server, closes>>
        /\ server # "ended"
    BY <1>3 DEF connection_established, Running, LoopIdle, LoopRuns, add_fd, sendVars, ownerVars
  <2>2. state_ = "CONNECTING"
    <3>1. 1 \in DOMAIN queue /\ queue[1] = "established"
      BY <2>1 DEF TypeOK
    <3> QED
      BY <3>1 DEF Fresh, NoEstablished
  <2>3. NoEstablished(queue') /\ output_buffer_ = << >> /\ closes = 0
    BY <2>1, <2>2 DEF Fresh
  <2> QED
    BY <2>1, <2>3 DEF Fresh, NoEstablished, Registered, WriteInterest, ClosedOnce, NotRemoved
<1>4. CASE UNCHANGED vars
  BY <1>1, <1>4 DEF vars, sendVars
<1>5. CASE Next /\ state_ = "CONNECTING"
  BY <1>2, <1>3, <1>5, OnlyEstablished, StopLife, DestroyLife, ExitLife
<1>6. CASE Next /\ state_ # "CONNECTING" /\ ~connection_established
  <2>1. NoEstablished(queue) /\ (queue # << >> => NoEstablished(Tail(queue)))
    BY <1>6, RestOfQueue DEF Fresh
  <2>2. queue # << >> => Tail(queue) \in Seq(Functors)
    BY DEF TypeOK
  <2>3. queue \in Seq(Functors)
    BY DEF TypeOK
  <2>4. CASE /\ UNCHANGED <<state_, reg, output_buffer_, ownerVars, fault>>
             /\ queue' = queue \/ (queue # << >> /\ queue' = Tail(queue))
    BY <1>6, <2>1, <2>4 DEF ownerVars, Fresh, Registered, WriteInterest, ClosedOnce, NotRemoved,
       NoEstablished
  <2>5. ASSUME NEW k \in 1..Limit, handle_write(k) PROVE LifeInv'
    <3>1. /\ state_ = "CONNECTED" /\ state_' = state_ /\ fault = "none" /\ fault' = "none"
          /\ UNCHANGED <<main_queue, in_map, server, closes>>
          /\ server # "ended" /\ reg # "none" /\ k \in 1..Len(output_buffer_)
      BY <2>5 DEF handle_write, Handling, ownerVars, Registered, ServerInv, Ended
    <3>2. output_buffer_' = SubSeq(output_buffer_, k + 1, Len(output_buffer_))
      BY <2>5 DEF handle_write
    <3>3. NoEstablished(queue')
      <4>1. queue' = queue \/ queue' = Append(queue, "write_complete")
        BY <2>5 DEF handle_write
      <4>2. NoEstablished(Append(queue, "write_complete"))
        BY <2>1, <2>3 DEF NoEstablished
      <4> QED
        BY <2>1, <4>1, <4>2
    <3>4. CASE k = Len(output_buffer_)
      <4>1. output_buffer_' = << >> /\ reg' = "read"
        BY <2>5, <3>1, <3>2, <3>4 DEF handle_write, modify_fd, TypeOK
      <4> QED
        BY <3>1, <3>3, <4>1 DEF Fresh, NoEstablished, Registered, WriteInterest, ClosedOnce,
           NotRemoved
    <3>5. CASE k # Len(output_buffer_)
      <4>1. Len(output_buffer_') = Len(output_buffer_) - k
        BY <3>1, <3>2, <3>5, SubSeqProperties DEF TypeOK
      <4>2. Len(output_buffer_') # 0 /\ Len(output_buffer_) # 0
        BY <3>1, <3>5, <4>1 DEF TypeOK
      <4>3. output_buffer_' # << >> /\ output_buffer_ # << >>
        BY <4>2
      <4>4. reg' = reg
        BY <2>5, <3>5 DEF handle_write
      <4> QED
        BY <3>1, <3>3, <4>3, <4>4 DEF Fresh, NoEstablished, Registered, WriteInterest, ClosedOnce,
           NotRemoved
    <3> QED
      BY <3>4, <3>5
  <2>6. CASE Handler
    <3>1. CASE handle_read_end \/ handle_error
      BY <1>6, <2>1, <2>3, <3>1, CloseLife DEF handle_read_end, handle_error
    <3>2. CASE ~handle_read_end /\ ~handle_error /\ ~\E k \in 1..Limit : handle_write(k)
      BY <2>4, <2>6, <3>2 DEF Handler, handle_read_data, handle_write_drained,
         handle_write_nothing, UserReturn, sendVars
    <3> QED
      BY <2>5, <3>1, <3>2
  <2>7. ASSUME NEW n \in 1..MaxMessage, NEW k \in 0..MaxMessage,
               UserSend(n, k) \/ QueuedSend(n, k)
        PROVE  LifeInv'
    <3>1. n \in Nat /\ k \in Nat
      BY BoundsAssumption
    <3>2. CASE UserSend(n, k)
      BY <1>6, <2>1, <2>3, <3>1, <3>2, SendLife DEF UserSend
    <3>3. CASE QueuedSend(n, k)
      BY <1>6, <2>1, <2>2, <3>1, <3>3, SendLife DEF QueuedSend, Following, Running
    <3> QED
      BY <2>7, <3>2, <3>3
  <2>8. CASE Functor
    <3>1. CASE connection_destroyed /\ state_ = "CONNECTED"
      <4>1. /\ state_' = "DISCONNECTED" /\ reg' = "none" /\ queue # << >>
            /\ remove_connection(Tail(queue))
        BY <3>1 DEF connection_destroyed, remove_fd, Running
      <4>2. closes' = 1 /\ server # "ended"
        BY <3>1, <4>1 DEF connection_destroyed, Running, LoopIdle, LoopRuns, remove_connection,
           Registered, ClosedOnce, TypeOK
      <4>3. queue' = Tail(queue) \/ queue' = Append(Tail(queue), "destroyed")
        BY <4>1 DEF remove_connection, remove_connection_in_loop
      <4>4. NoEstablished(Append(Tail(queue), "destroyed"))
        BY <2>1, <2>2, <4>1 DEF NoEstablished
      <4>5. NoEstablished(queue')
        BY <2>1, <4>1, <4>3, <4>4
      <4> QED
        BY <4>1, <4>2, <4>5 DEF Fresh, NoEstablished, Registered, WriteInterest, ClosedOnce,
           NotRemoved
    <3>2. CASE force_close_in_loop /\ state_ \in Open
      BY <1>6, <2>1, <2>2, <3>2, CloseLife DEF force_close_in_loop, Following, Running
    <3>3. CASE connection_destroyed /\ state_ # "CONNECTED"
      BY <2>4, <3>3 DEF connection_destroyed, Running, sendVars
    <3>4. CASE force_close_in_loop /\ state_ \notin Open
      BY <2>4, <3>4 DEF force_close_in_loop, Following, Running, sendVars
    <3>5. CASE RunUserCallback \/ QueuedShutdown
      BY <2>4, <3>5 DEF RunUserCallback, QueuedShutdown, Following, Running, sendVars
    <3>7. CASE QueuedStop
      <4>1. /\ queue # << >> /\ queue' = Tail(queue)
            /\ UNCHANGED <<reg, output_buffer_, ownerVars, fault>>
            /\ state_' = state_ \/ (state_ = "CONNECTED" /\ state_' = "DISCONNECTING")
        BY <3>7 DEF QueuedStop, Running, Shutdown, sendVars
      <4> QED
        BY <1>6, <2>1, <4>1 DEF ownerVars, Fresh, NoEstablished, Registered, WriteInterest,
           ClosedOnce, NotRemoved
    <3>6. CASE RunDangling
      BY <1>6, <2>1, <3>6 DEF RunDangling, Abort, sendVars, ownerVars, Fresh, NoEstablished,
         Registered, WriteInterest, ClosedOnce, NotRemoved
    <3> QED
      BY <1>6, <2>7, <2>8, <3>1, <3>2, <3>3, <3>4, <3>5, <3>6, <3>7 DEF Functor
  <2>9. CASE UserCall
    <3>1. CASE UserForceClose
      BY <1>6, <2>1, <2>3, <3>1, CloseLife DEF UserForceClose
    <3>2. CASE UserShutdown
      BY <2>1, <3>2 DEF UserShutdown, sendVars, ownerVars, Fresh, NoEstablished, Registered,
         WriteInterest, ClosedOnce, NotRemoved
    <3>3. ASSUME NEW c \in Callers, UserShares(c) PROVE LifeInv'
      BY <2>4, <3>3 DEF UserShares, sendVars
    <3> QED
      BY <2>7, <2>9, <3>1, <3>2, <3>3 DEF UserCall
  <2>10. CASE MainRemoves
    <3>1. closes = 1 /\ closes' = closes
      BY <2>10 DEF MainRemoves, NotRemoved, ClosedOnce, TypeOK
    <3>2. queue' = Append(queue, "destroyed") /\ UNCHANGED <<state_, reg, output_buffer_, server>>
      BY <2>10 DEF MainRemoves, remove_connection_in_loop, sendVars
    <3>3. NoEstablished(queue')
      BY <2>1, <2>3, <3>2 DEF NoEstablished
    <3>4. fault' = "none" => fault = "none"
      BY <2>10 DEF MainRemoves
    <3> QED
      BY <1>6, <3>1, <3>2, <3>3, <3>4 DEF Fresh, NoEstablished, Registered, WriteInterest,
         ClosedOnce, NotRemoved
  <2>11. ASSUME NEW c \in Callers, ThreadCall(c) PROVE LifeInv'
    <3>1. CASE CallerStores(c)
      BY <2>1, <3>1 DEF CallerStores, sendVars, ownerVars, Fresh, NoEstablished, Registered,
         WriteInterest, ClosedOnce, NotRemoved
    <3>2. ASSUME NEW call \in {"send", "shutdown", "force_close"}, CallerQueues(c, call)
          PROVE  LifeInv'
      <4>1. NoEstablished(Append(queue, call))
        BY <2>1, <2>3 DEF NoEstablished
      <4> QED
        BY <1>6, <3>2, <4>1 DEF CallerQueues, sendVars, ownerVars, Fresh, NoEstablished,
           Registered, WriteInterest, ClosedOnce, NotRemoved
    <3>3. ASSUME NEW call \in {"send", "shutdown", "force_close"},
                 CallerChecks(c, call) \/ CallerDrops(c)
          PROVE  LifeInv'
      BY <2>4, <3>3 DEF CallerChecks, CallerDrops, sendVars
    <3> QED
      BY <2>11, <3>1, <3>2, <3>3 DEF ThreadCall
  <2>12. ASSUME NEW writable \in BOOLEAN, Event(writable) PROVE LifeInv'
    BY <2>4, <2>12 DEF Event, sendVars
  <2>13. CASE EventDangling
    BY <1>6, <2>1, <2>13 DEF EventDangling, Abort, sendVars, ownerVars, Fresh, NoEstablished,
       Registered, WriteInterest, ClosedOnce, NotRemoved
  <2> QED
    BY <1>2, <1>6, <2>6, <2>8, <2>9, <2>10, <2>11, <2>12, <2>13, StopLife, DestroyLife, ExitLife
       DEF Next
<1> QED
  BY <1>3, <1>4, <1>5, <1>6

-----------------------------------------------------------------------------
(* The connection and the end of its server.                               *)

(***************************************************************************)
(* A step that neither closes nor removes the connection keeps ServerInv.  *)
(***************************************************************************)
LEMMA KeepsServer ==
  ASSUME TypeOK, ServerInv, server # "ended",
         UNCHANGED <<main_queue, in_map, server, closes>>,
         fault' = "none" => fault = "none",
         state_' = "DISCONNECTED" => state_ = "DISCONNECTED",
         state_' \in {"CONNECTING", "CONNECTED"} => state_ \in {"CONNECTING", "CONNECTED"},
         Destroyed(queue) => Destroyed(queue')
  PROVE  ServerInv'
<1>1. Leaving'
  BY DEF ServerInv, Leaving
<1>2. LastCall'
  BY DEF ServerInv, LastCall, Destroyed
<1>3. Ended'
  BY DEF Ended
<1> QED
  BY <1>1, <1>2, <1>3 DEF ServerInv

(***************************************************************************)
(* remove_connection() of an open connection keeps ServerInv.              *)
(***************************************************************************)
LEMMA RemoveServer ==
  ASSUME TypeOK, ServerInv, server # "ended", closes = 0, NEW q \in Seq(Functors),
         remove_connection(q), state_' = "DISCONNECTED"
  PROVE  ServerInv'
<1>1. /\ closes' = 1 /\ server' = server
      /\ in_map' = FALSE \/ (in_map' = in_map /\ main_queue' = Append(main_queue, "remove"))
  BY DEF remove_connection, remove_connection_in_loop
<1>2. Append(main_queue, "remove") # << >>
  <2>1. main_queue \in Seq({"remove"})
    BY DEF TypeOK
  <2>2. Len(Append(main_queue, "remove")) = Len(main_queue) + 1 /\ Len(main_queue) \in Nat
    BY <2>1, AppendProperties
  <2>3. Len(<< >>) = 0
    OBVIOUS
  <2> QED
    BY <2>2, <2>3
<1>3. Leaving'
  BY <1>1, <1>2 DEF Leaving
<1>4. LastCall' /\ Ended'
  BY <1>1 DEF ServerInv, LastCall, Ended
<1> QED
  BY <1>3, <1>4 DEF ServerInv

(***************************************************************************)
(* handle_close() keeps ServerInv.                                         *)
(***************************************************************************)
LEMMA CloseServer ==
  ASSUME TypeOK, LifeInv, ServerInv, server # "ended", NEW q \in Seq(Functors),
         Destroyed(queue) => Destroyed(q), handle_close(q)
  PROVE  ServerInv'
<1>1. CASE state_ \notin Open
  BY <1>1, KeepsServer DEF handle_close, Abort, ownerVars
<1>2. CASE state_ \in Open /\ PollerThrows
  <2>1. /\ state_' = "DISCONNECTED" /\ fault' = "throw" /\ UNCHANGED ownerVars
    BY <1>2 DEF handle_close, Abort
  <2> QED
    BY <2>1 DEF ServerInv, Leaving, LastCall, Ended, ownerVars
<1>3. CASE state_ \in Open /\ ~PollerThrows
  <2>1. state_' = "DISCONNECTED" /\ remove_connection(q)
    BY <1>3 DEF handle_close
  <2>2. closes = 0
    BY <1>3 DEF PollerThrows, LifeInv, ClosedOnce, TypeOK
  <2> QED
    BY <2>1, <2>2, RemoveServer
<1> QED
  BY <1>1, <1>2, <1>3

(***************************************************************************)
(* Every step keeps ServerInv.                                             *)
(***************************************************************************)
LEMMA ServerStep == TypeOK /\ LifeInv /\ ServerInv /\ [Next]_vars => ServerInv'
<1> SUFFICES ASSUME TypeOK, LifeInv, ServerInv, [Next]_vars PROVE ServerInv'
  OBVIOUS
<1>1. CASE UNCHANGED <<state_, reg, dispatch, phase, queue, ownerVars, fault>>
  BY <1>1 DEF ownerVars, ServerInv, Leaving, LastCall, Ended, Destroyed
<1>2. queue \in Seq(Functors)
  BY DEF TypeOK
<1>3. ASSUME NEW f \in Functors \ {"established"}
      PROVE  Destroyed(queue) => Destroyed(Append(queue, f))
  BY <1>2, OneMore
<1>4. ASSUME NEW functor, Running(functor), functor # "destroyed"
      PROVE  /\ queue # << >> /\ server # "ended" /\ Tail(queue) \in Seq(Functors)
             /\ Destroyed(queue) => Destroyed(Tail(queue))
  BY <1>4, RestOfQueue DEF Running, LoopIdle, LoopRuns
<1>6. dispatch # << >> \/ phase # "none" => server # "ended"
  BY DEF ServerInv, Ended
<1>7. CASE Handler
  <2>1. CASE handle_read_end \/ handle_error
    BY <1>2, <1>6, <2>1, CloseServer DEF handle_read_end, handle_error, Handling
  <2>2. ASSUME NEW k \in 1..Limit, handle_write(k) PROVE ServerInv'
    <3>1. /\ server # "ended" /\ UNCHANGED <<state_, ownerVars, fault>>
          /\ queue' = queue \/ queue' = Append(queue, "write_complete")
      BY <1>6, <2>2 DEF handle_write, Handling
    <3>2. "write_complete" \in Functors \ {"established"}
      BY DEF Functors, RawFunctors
    <3>3. Destroyed(queue) => Destroyed(queue')
      BY <1>3, <3>1, <3>2
    <3> QED
      BY <3>1, <3>3, KeepsServer DEF ownerVars
  <2>3. CASE \/ \E k \in 1..MaxIn : handle_read_data(k)
             \/ handle_write_drained \/ handle_write_nothing \/ UserReturn
    <3>1. server # "ended" /\ UNCHANGED <<state_, queue, ownerVars, fault>>
      BY <1>6, <2>3 DEF handle_read_data, handle_write_drained, handle_write_nothing, UserReturn,
         Handling, InUser
    <3> QED
      BY <3>1, KeepsServer DEF ownerVars
  <2> QED
    BY <1>7, <2>1, <2>2, <2>3 DEF Handler
<1>8. ASSUME NEW n \in 1..MaxMessage, NEW k \in 0..MaxMessage,
             UserSend(n, k) \/ QueuedSend(n, k)
      PROVE  ServerInv'
  <2>1. PICK q \in {queue, Tail(queue)} :
          /\ send_in_loop(n, k, q) /\ q \in Seq(Functors) /\ server # "ended"
          /\ Destroyed(queue) => Destroyed(q)
          /\ UNCHANGED <<state_, ownerVars>>
    <3>1. CASE UserSend(n, k)
      BY <1>2, <1>6, <3>1 DEF UserSend, InUser
    <3>2. CASE QueuedSend(n, k)
      BY <1>4, <3>2 DEF QueuedSend, Following
    <3> QED
      BY <1>8, <3>1, <3>2
  <2>2. fault' = "none" => fault = "none"
    BY <2>1 DEF send_in_loop
  <2>3. "write_complete" \in Functors \ {"established"} /\ "high_water" \in Functors \ {"established"}
    BY DEF Functors, RawFunctors
  <2>4. \/ queue' = q \/ queue' = q \o <<"write_complete">>
        \/ queue' = q \o <<"high_water">> \/ queue' = q \o << >>
    BY <2>1 DEF send_in_loop
  <2>5. /\ q \o << >> = q
        /\ q \o <<"write_complete">> = Append(q, "write_complete")
        /\ q \o <<"high_water">> = Append(q, "high_water")
    BY <2>1
  <2>6. Destroyed(q) => Destroyed(Append(q, "write_complete")) /\ Destroyed(Append(q, "high_water"))
    BY <2>1, <2>3, OneMore
  <2>7. Destroyed(queue) => Destroyed(queue')
    BY <2>1, <2>4, <2>5, <2>6
  <2> QED
    BY <2>1, <2>2, <2>7, KeepsServer DEF ownerVars
<1>9. CASE connection_established
  <2>1. /\ Running("established") /\ queue' = Tail(queue) /\ state_' = "CONNECTED"
        /\ fault' = "none" => fault = "none"
        /\ UNCHANGED ownerVars
    BY <1>9 DEF connection_established
  <2>2. state_ = "CONNECTING"
    <3>1. 1 \in DOMAIN queue /\ queue[1] = "established"
      BY <1>2, <2>1 DEF Running
    <3> QED
      BY <3>1 DEF LifeInv, Fresh, NoEstablished
  <2> QED
    BY <1>4, <2>1, <2>2, KeepsServer DEF ownerVars
<1>10. CASE connection_destroyed
  <2>1. Running("destroyed") /\ queue # << >> /\ Head(queue) = "destroyed" /\ server # "ended"
    BY <1>10 DEF connection_destroyed, Running, LoopIdle, LoopRuns
  <2>2. Tail(queue) \in Seq(Functors) /\ state_ # "CONNECTING"
    BY <1>2, <2>1 DEF LifeInv, Fresh
  <2>3. CASE state_ = "CONNECTED"
    <3>1. state_' = "DISCONNECTED" /\ remove_connection(Tail(queue))
      BY <1>10, <2>3 DEF connection_destroyed
    <3>2. closes = 0
      BY <2>1, <2>3 DEF LifeInv, Registered, ClosedOnce, TypeOK
    <3> QED
      BY <2>1, <2>2, <3>1, <3>2, RemoveServer
  <2>4. CASE state_ # "CONNECTED"
    <3>1. UNCHANGED <<state_, ownerVars, fault>>
      BY <1>10, <2>4 DEF connection_destroyed
    <3> QED
      BY <2>1, <2>2, <2>4, <3>1 DEF ownerVars, ServerInv, Leaving, LastCall, Ended
  <2> QED
    BY <2>3, <2>4
<1>11. CASE QueuedStop
  <2>1. /\ Running("server_stop") /\ queue' = Tail(queue) /\ UNCHANGED <<ownerVars, fault>>
        /\ state_' = state_ \/ (state_ = "CONNECTED" /\ state_' = "DISCONNECTING")
    BY <1>11 DEF QueuedStop, Shutdown
  <2> QED
    BY <1>4, <2>1, KeepsServer DEF ownerVars
<1>12. CASE force_close_in_loop
  <2>1. Running("force_close")
    BY <1>12 DEF force_close_in_loop, Following
  <2>2. CASE state_ \in Open
    BY <1>4, <1>12, <2>1, <2>2, CloseServer DEF force_close_in_loop
  <2>3. CASE state_ \notin Open
    BY <1>4, <1>12, <2>1, <2>3, KeepsServer DEF force_close_in_loop, ownerVars
  <2> QED
    BY <2>2, <2>3
<1>13. CASE RunUserCallback \/ QueuedShutdown
  <2>1. PICK functor \in {"write_complete", "high_water", "shutdown"} : Running(functor)
    BY <1>13 DEF RunUserCallback, QueuedShutdown, Following
  <2>2. queue' = Tail(queue) /\ UNCHANGED <<state_, ownerVars, fault>>
    BY <1>13 DEF RunUserCallback, QueuedShutdown
  <2> QED
    BY <1>4, <2>1, <2>2, KeepsServer DEF ownerVars
<1>14. CASE RunDangling \/ EventDangling
  <2>1. /\ server # "ended" /\ fault' = "dangling" /\ UNCHANGED <<state_, queue, ownerVars>>
    BY <1>14 DEF RunDangling, EventDangling, Ready, Running, LoopIdle, LoopRuns, Abort
  <2> QED
    BY <2>1, KeepsServer DEF ownerVars
<1>15. CASE UserCall
  <2>1. CASE UserForceClose
    BY <1>2, <1>6, <2>1, CloseServer DEF UserForceClose, InUser
  <2>2. CASE UserShutdown
    <3>1. server # "ended" /\ state_' = "DISCONNECTING" /\ UNCHANGED <<queue, ownerVars, fault>>
      BY <1>6, <2>2 DEF UserShutdown, InUser
    <3> QED
      BY <3>1, KeepsServer DEF ownerVars
  <2>3. ASSUME NEW c \in Callers, UserShares(c) PROVE ServerInv'
    BY <1>1, <2>3 DEF UserShares
  <2> QED
    BY <1>8, <1>15, <2>1, <2>2, <2>3 DEF UserCall
<1>16. CASE MainRemoves
  <2>1. /\ server = "up" /\ in_map' = FALSE /\ UNCHANGED <<state_, server, closes>>
        /\ fault = "none"
    BY <1>16 DEF MainRemoves, remove_connection_in_loop
  <2> QED
    BY <2>1 DEF ServerInv, Leaving, LastCall, Ended
<1>17. ASSUME NEW c \in Callers, ThreadCall(c) PROVE ServerInv'
  <2>1. ASSUME NEW call \in {"send", "shutdown", "force_close"}, CallerQueues(c, call)
        PROVE  ServerInv'
    <3>1. /\ server # "ended" /\ queue' = Append(queue, call)
          /\ UNCHANGED <<state_, ownerVars, fault>>
      BY <2>1 DEF CallerQueues
    <3>2. call \in Functors \ {"established"}
      BY DEF Functors, RawFunctors
    <3> QED
      BY <1>3, <3>1, <3>2, KeepsServer DEF ownerVars
  <2>2. CASE CallerStores(c)
    <3>1. server # "ended" /\ state_' = "DISCONNECTING" /\ UNCHANGED <<queue, ownerVars, fault>>
      BY <2>2 DEF CallerStores
    <3> QED
      BY <3>1, KeepsServer DEF ownerVars
  <2>3. ASSUME NEW call \in {"send", "shutdown", "force_close"},
               CallerChecks(c, call) \/ CallerDrops(c)
        PROVE  ServerInv'
    BY <1>1, <2>3 DEF CallerChecks, CallerDrops
  <2> QED
    BY <1>17, <2>1, <2>2, <2>3 DEF ThreadCall
<1>18. CASE stop
  <2>1. /\ server = "up" /\ UNCHANGED <<ownerVars, fault>>
        /\ state_' = state_ \/ (state_ = "CONNECTED" /\ state_' = "DISCONNECTING")
        /\ queue' = queue \/ queue' = Append(queue, "server_stop")
    BY <1>18 DEF stop, Shutdown
  <2>2. "server_stop" \in Functors \ {"established"}
    BY DEF Functors, OwningFunctors
  <2>3. Destroyed(queue) => Destroyed(queue')
    BY <1>3, <2>1, <2>2
  <2> QED
    BY <2>1, <2>3, KeepsServer DEF ownerVars
<1>19. CASE DestroyServer
  <2>1. server = "up" /\ server' = "gone" /\ in_map' = FALSE
    BY <1>19 DEF DestroyServer
  <2>2. CASE Erases
    <3>1. state_' = "DISCONNECTED" /\ fault' = "iterator"
      BY <1>19, <2>2 DEF DestroyServer
    <3> QED
      BY <2>1, <3>1 DEF ServerInv, Leaving, LastCall, Ended
  <2>3. CASE ~Erases
    <3>1. UNCHANGED <<state_, closes, fault>>
      BY <1>19, <2>3 DEF DestroyServer
    <3>2. ASSUME state_ \in {"CONNECTING", "CONNECTED"} PROVE Destroyed(queue')
      <4>1. closes = 0
        BY <2>1, <3>2 DEF LifeInv, Fresh, Registered, ClosedOnce, TypeOK
      <4>2. in_map
        BY <2>1, <4>1 DEF LifeInv, NotRemoved
      <4>3. ~same_loop
        BY <1>19, <2>3, <3>2, <4>2 DEF DestroyServer, Erases
      <4>4. queue' = Append(queue, "destroyed")
        BY <1>19, <4>2, <4>3 DEF DestroyServer
      <4>5. "destroyed" \in Functors \ {"established"}
        BY DEF Functors, OwningFunctors
      <4> QED
        BY <1>2, <4>4, <4>5, OneMore
    <3> QED
      BY <2>1, <3>1, <3>2 DEF ServerInv, Leaving, LastCall, Ended, Destroyed
  <2> QED
    BY <2>2, <2>3
<1>20. CASE Exit
  <2>1. /\ server = "gone" /\ server' = "ended" /\ reg' = "none" /\ queue' = << >>
        /\ main_queue' = << >> /\ dispatch' = << >> /\ phase' = "none"
        /\ UNCHANGED <<state_, in_map, closes, fault>>
    BY <1>20 DEF Exit
  <2> QED
    BY <2>1 DEF ServerInv, Leaving, LastCall, Ended
<1>21. CASE PeerSends \/ \E how \in {"fin", "rst"} : PeerCloses(how)
  BY <1>1, <1>21 DEF PeerSends, PeerCloses
<1>22. ASSUME NEW writable \in BOOLEAN, Event(writable) PROVE ServerInv'
  <2>1. server # "ended" /\ UNCHANGED <<state_, queue, ownerVars, fault>>
    BY <1>22 DEF Event, Ready, LoopIdle, LoopRuns
  <2> QED
    BY <2>1, KeepsServer DEF ownerVars
<1>23. CASE UNCHANGED vars
  BY <1>1, <1>23 DEF vars
<1>24. CASE Functor
  BY <1>8, <1>9, <1>10, <1>11, <1>12, <1>13, <1>14, <1>24 DEF Functor
<1> QED
  BY <1>7, <1>14, <1>15, <1>16, <1>17, <1>18, <1>19, <1>20, <1>21, <1>22, <1>23, <1>24 DEF Next

-----------------------------------------------------------------------------
(* A connection that no other thread has had.                              *)

(***************************************************************************)
(* The functors a loop queues for itself are no calls of other threads,    *)
(* and connection_destroyed() at the end holds the object for those before *)
(* it.                                                                     *)
(***************************************************************************)
LEMMA EndOfQueue ==
  ASSUME NEW q \in Seq(Functors), NoCallers(q),
         NEW f \in {"destroyed", "server_stop", "write_complete", "high_water"}
  PROVE  /\ NoCallers(Append(q, f)) /\ NoCallers(q \o <<f>>)
         /\ f = "destroyed" => Guarded(Append(q, f))
         /\ f = "server_stop" /\ Guarded(q) => Guarded(Append(q, f))
<1>1. Append(q, f) = q \o <<f>>
  OBVIOUS
<1>2. /\ Len(q) \in Nat /\ DOMAIN q = 1..Len(q) /\ DOMAIN Append(q, f) = 1..(Len(q) + 1)
      /\ \A i \in 1..Len(q) : Append(q, f)[i] = q[i]
      /\ Append(q, f)[Len(q) + 1] = f
  OBVIOUS
<1>3. NoCallers(Append(q, f))
  <2> SUFFICES ASSUME NEW i \in 1..(Len(q) + 1)
               PROVE  Append(q, f)[i] \notin {"send", "shutdown", "force_close"}
    BY <1>2 DEF NoCallers
  <2>1. CASE i \in 1..Len(q)
    BY <1>2, <2>1 DEF NoCallers
  <2>2. CASE i = Len(q) + 1
    BY <1>2, <2>2
  <2> QED
    BY <1>2, <2>1, <2>2
<1>4. ASSUME f = "destroyed" PROVE Guarded(Append(q, f))
  <2> SUFFICES ASSUME NEW i \in 1..(Len(q) + 1), Append(q, f)[i] \in RawFunctors
               PROVE  \E j \in 1..(Len(q) + 1) : j > i /\ Append(q, f)[j] = "destroyed"
    BY <1>2 DEF Guarded
  <2>1. i # Len(q) + 1
    BY <1>2, <1>4 DEF RawFunctors
  <2> QED
    BY <1>2, <1>4, <2>1
<1>5. ASSUME f = "server_stop", Guarded(q) PROVE Guarded(Append(q, f))
  <2> SUFFICES ASSUME NEW i \in 1..(Len(q) + 1), Append(q, f)[i] \in RawFunctors
               PROVE  \E j \in 1..(Len(q) + 1) : j > i /\ Append(q, f)[j] = "destroyed"
    BY <1>2 DEF Guarded
  <2>1. i # Len(q) + 1
    BY <1>2, <1>5 DEF RawFunctors
  <2>2. i \in 1..Len(q) /\ q[i] \in RawFunctors
    BY <1>2, <2>1
  <2>3. PICK j \in 1..Len(q) : j > i /\ q[j] = "destroyed"
    BY <1>2, <1>5, <2>2 DEF Guarded
  <2> QED
    BY <1>2, <2>3
<1> QED
  BY <1>1, <1>3, <1>4, <1>5

(***************************************************************************)
(* What AloneInv says of a step's result.                                  *)
(***************************************************************************)
Alone ==
  /\ NoCallers(queue)
  /\ closes = 1 => state_ = "DISCONNECTED"
  /\ state_ \in Open /\ server # "ended" => reg # "none"
  /\ state_ = "DISCONNECTED" /\ ~in_map /\ main_queue = << >> => Guarded(queue)

(***************************************************************************)
(* Without other threads the connection is closed for good, and the queue  *)
(* is guarded once the map has let it go.                                  *)
(***************************************************************************)
LEMMA CloseAlone ==
  ASSUME TypeOK, NEW q \in Seq(Functors), NoCallers(q),
         state_ = "DISCONNECTED" /\ ~in_map /\ main_queue = << >> => Guarded(q),
         closes = 1 => state_ = "DISCONNECTED",
         state_ \in Open => reg # "none",
         \/ handle_close(q)
         \/ remove_connection(q) /\ state_' = "DISCONNECTED"
  PROVE  Alone'
<1>1. ASSUME remove_connection(q), state_' = "DISCONNECTED" PROVE Alone'
  <2>1. \/ queue' = q /\ main_queue' = Append(main_queue, "remove")
        \/ queue' = Append(q, "destroyed")
    BY <1>1 DEF remove_connection, remove_connection_in_loop
  <2>2. Append(main_queue, "remove") # << >>
    <3>1. main_queue \in Seq({"remove"})
      BY DEF TypeOK
    <3>2. Len(Append(main_queue, "remove")) = Len(main_queue) + 1 /\ Len(main_queue) \in Nat
      BY <3>1, AppendProperties
    <3>3. Len(<< >>) = 0
      OBVIOUS
    <3> QED
      BY <3>2, <3>3
  <2>3. NoCallers(queue') /\ (main_queue' = << >> => Guarded(queue'))
    <3>1. CASE queue' = q /\ main_queue' = Append(main_queue, "remove")
      BY <2>2, <3>1
    <3>2. CASE queue' = Append(q, "destroyed")
      BY <3>2, EndOfQueue
    <3> QED
      BY <2>1, <3>1, <3>2
  <2> QED
    BY <1>1, <2>3 DEF Alone, Open, NoCallers, Guarded
<1>2. CASE handle_close(q) /\ state_ \in Open
  <2>1. remove_connection(q) /\ state_' = "DISCONNECTED"
    BY <1>2 DEF handle_close, PollerThrows
  <2> QED
    BY <1>1, <2>1
<1>3. CASE handle_close(q) /\ state_ \notin Open
  <2>1. queue' = q /\ UNCHANGED <<state_, in_map, main_queue, closes>>
    BY <1>3 DEF handle_close, Abort, ownerVars
  <2> QED
    BY <1>3, <2>1 DEF Alone, NoCallers, Guarded
<1> QED
  BY <1>1, <1>2, <1>3

(***************************************************************************)
(* Every step keeps AloneInv.                                              *)
(***************************************************************************)
LEMMA AloneStep == TypeOK /\ LifeInv /\ ServerInv /\ AloneInv /\ [Next]_vars => AloneInv'
<1> SUFFICES ASSUME TypeOK, LifeInv, ServerInv, AloneInv, [Next]_vars, Unshared' PROVE Alone'
  BY DEF AloneInv, Alone
<1>1. ASSUME NEW c \in Callers, UserShares(c) \/ ThreadCall(c) PROVE FALSE
  <2>1. caller'[c] = "none"
    BY DEF Unshared
  <2>2. caller \in [Callers -> Holding \cup {"none", "gone"}]
    BY DEF TypeOK
  <2> QED
    BY <1>1, <2>1, <2>2 DEF UserShares, ThreadCall, CallerChecks, CallerQueues, Stored,
       CallerStores, CallerDrops
<1>2. Unshared
  <2>1. CASE UNCHANGED caller
    BY <2>1 DEF Unshared
  <2>2. CASE Handler
    BY <2>1, <2>2 DEF Handler, handle_read_data, handle_read_end, handle_error, handle_write,
       handle_write_drained, handle_write_nothing, UserReturn
  <2>3. CASE Functor
    BY <2>1, <2>3 DEF Functor, connection_established, connection_destroyed, QueuedStop,
       RunUserCallback, QueuedSend, QueuedShutdown, force_close_in_loop, RunDangling
  <2>4. CASE UserCall
    BY <1>1, <2>1, <2>4 DEF UserCall, UserSend, UserShutdown, UserForceClose
  <2> QED
    BY <1>1, <2>1, <2>2, <2>3, <2>4 DEF Next, vars, PeerSends, PeerCloses, Event, EventDangling,
       MainRemoves, stop, DestroyServer, Exit
<1>3. /\ NoCallers(queue) /\ (closes = 1 => state_ = "DISCONNECTED")
      /\ state_ \in Open /\ server # "ended" => reg # "none"
      /\ state_ = "DISCONNECTED" /\ ~in_map /\ main_queue = << >> => Guarded(queue)
      /\ queue \in Seq(Functors) /\ closes \in Nat
  BY <1>2 DEF AloneInv, TypeOK
<1>4. queue # << >> => /\ Tail(queue) \in Seq(Functors) /\ NoCallers(Tail(queue))
                       /\ state_ = "DISCONNECTED" /\ ~in_map /\ main_queue = << >>
                            => Guarded(Tail(queue))
  BY <1>3, RestOfQueue
<1>5. queue # << >> => Head(queue) \notin {"send", "shutdown", "force_close"}
  BY <1>3 DEF NoCallers
<1>6. state_ # "DISCONNECTED" => closes = 0
  BY <1>3 DEF LifeInv, ClosedOnce
<1>7. CASE /\ UNCHANGED <<state_, reg, ownerVars>>
           /\ queue' = queue \/ (queue # << >> /\ queue' = Tail(queue))
  BY <1>3, <1>4, <1>7 DEF Alone, ownerVars, NoCallers, Guarded
<1>8. CASE handle_close(queue) /\ server # "ended"
  BY <1>3, <1>8, CloseAlone
<1>9. CASE /\ UNCHANGED <<reg, ownerVars>>
           /\ state_ = "CONNECTED" /\ state_' = "DISCONNECTING"
           /\ queue' = queue \/ (queue # << >> /\ queue' = Tail(queue))
  BY <1>3, <1>4, <1>6, <1>9 DEF Alone, ownerVars, NoCallers, Open
<1>10. dispatch # << >> \/ phase # "none" => server # "ended"
  BY DEF ServerInv, Ended
<1>11. CASE Handler
  <2>1. ASSUME NEW k \in 1..Limit, handle_write(k) PROVE Alone'
    <3>1. /\ state_ = "CONNECTED" /\ state_' = state_ /\ closes' = closes /\ server # "ended"
          /\ queue' = queue \/ queue' = Append(queue, "write_complete")
      BY <1>10, <2>1 DEF handle_write, Handling, ownerVars
    <3>2. reg # "none" /\ reg' # "none"
      BY <1>3, <2>1, <3>1 DEF handle_write, modify_fd, Open
    <3>3. NoCallers(queue')
      BY <1>3, <3>1, EndOfQueue
    <3> QED
      BY <1>6, <3>1, <3>2, <3>3 DEF Alone, NoCallers
  <2>2. CASE handle_read_end \/ handle_error
    BY <1>8, <1>10, <2>2 DEF handle_read_end, handle_error, Handling
  <2> QED
    BY <1>7, <1>11, <2>1, <2>2 DEF Handler, handle_read_data,
       handle_write_drained, handle_write_nothing, UserReturn
<1>12. CASE connection_established
  <2>1. /\ queue # << >> /\ Head(queue) = "established" /\ queue' = Tail(queue)
        /\ state_' = "CONNECTED" /\ reg' = "read" /\ closes' = closes
    BY <1>12 DEF connection_established, Running, add_fd, ownerVars
  <2>2. 1 \in DOMAIN queue /\ queue[1] = "established"
    BY <1>3, <2>1
  <2>3. closes = 0
    BY <2>2 DEF LifeInv, Fresh, NoEstablished
  <2> QED
    BY <1>4, <2>1, <2>3 DEF Alone, NoCallers
<1>13. CASE connection_destroyed
  <2>1. queue # << >> /\ server # "ended"
    BY <1>13 DEF connection_destroyed, Running, LoopIdle, LoopRuns
  <2>2. CASE state_ = "CONNECTED"
    <3>1. remove_connection(Tail(queue)) /\ state_' = "DISCONNECTED"
      BY <1>13, <2>2 DEF connection_destroyed
    <3> QED
      BY <1>3, <1>4, <2>1, <3>1, CloseAlone
  <2>3. CASE state_ # "CONNECTED"
    BY <1>7, <1>13, <2>1, <2>3 DEF connection_destroyed
  <2> QED
    BY <2>2, <2>3
<1>14. CASE Functor
  <2>1. ASSUME NEW n, NEW k PROVE ~QueuedSend(n, k)
    BY <1>5 DEF QueuedSend, Following, Running
  <2>2. ~QueuedShutdown /\ ~force_close_in_loop
    BY <1>5 DEF QueuedShutdown, force_close_in_loop, Following, Running
  <2>3. CASE RunUserCallback \/ RunDangling
    BY <1>7, <2>3 DEF RunUserCallback, RunDangling, Following, Running, Abort
  <2>4. CASE QueuedStop
    <3>1. /\ queue # << >> /\ queue' = Tail(queue) /\ UNCHANGED <<reg, ownerVars>>
          /\ state_' = state_ \/ (state_ = "CONNECTED" /\ state_' = "DISCONNECTING")
      BY <2>4 DEF QueuedStop, Running, Shutdown
    <3> QED
      BY <1>7, <1>9, <3>1
  <2> QED
    BY <1>12, <1>13, <1>14, <2>1, <2>2, <2>3, <2>4 DEF Functor
<1>15. CASE UserCall
  <2>1. ASSUME NEW n \in 1..MaxMessage, NEW k \in 0..MaxMessage, UserSend(n, k) PROVE Alone'
    <3>1. /\ state_ = "CONNECTED" /\ server # "ended" /\ UNCHANGED <<state_, closes>>
      BY <1>10, <2>1 DEF UserSend, InUser, ownerVars
    <3>2. \/ queue' = queue \/ queue' = queue \o <<"write_complete">>
          \/ queue' = queue \o <<"high_water">> \/ queue' = queue \o << >>
      BY <2>1 DEF UserSend, send_in_loop
    <3>3. queue \o << >> = queue
      BY <1>3
    <3>4. NoCallers(queue')
      BY <1>3, <3>2, <3>3, EndOfQueue
    <3>5. reg' # "none"
      BY <1>3, <2>1, <3>1 DEF UserSend, send_in_loop, modify_fd, Open
    <3> QED
      BY <1>6, <3>1, <3>4, <3>5 DEF Alone, NoCallers
  <2>2. CASE UserShutdown
    BY <1>9, <2>2 DEF UserShutdown
  <2>3. CASE UserForceClose
    BY <1>8, <1>10, <2>3 DEF UserForceClose, InUser
  <2> QED
    BY <1>1, <1>15, <2>1, <2>2, <2>3 DEF UserCall
<1>16. CASE MainRemoves
  <2>1. queue' = Append(queue, "destroyed") /\ UNCHANGED <<state_, reg, server, closes>>
    BY <1>16 DEF MainRemoves, remove_connection_in_loop
  <2>2. NoCallers(queue') /\ Guarded(queue')
    BY <1>3, <2>1, EndOfQueue
  <2> QED
    BY <1>3, <2>1, <2>2 DEF Alone, NoCallers, Guarded
<1>17. CASE stop
  <2>1. /\ server = "up" /\ UNCHANGED <<reg, ownerVars>>
        /\ state_' = state_ \/ (state_ = "CONNECTED" /\ state_' = "DISCONNECTING")
        /\ queue' = queue \/ (queue' = Append(queue, "server_stop") /\ state_' = state_)
    BY <1>17 DEF stop, Shutdown
  <2>2. CASE queue' = queue
    BY <1>7, <1>9, <2>1, <2>2
  <2>3. CASE queue' = Append(queue, "server_stop") /\ state_' = state_
    <3>1. NoCallers(queue') /\ (Guarded(queue) => Guarded(queue'))
      BY <1>3, <2>3, EndOfQueue
    <3> QED
      BY <1>3, <2>1, <2>3, <3>1 DEF Alone, ownerVars, NoCallers, Guarded
  <2> QED
    BY <2>1, <2>2, <2>3
<1>18. CASE DestroyServer
  <2>1. /\ fault = "none" /\ server = "up" /\ server' = "gone" /\ UNCHANGED main_queue
        /\ queue' = queue \/ queue' = Append(queue, "destroyed")
    BY <1>18 DEF DestroyServer
  <2>2. NoCallers(queue') /\ (queue' = Append(queue, "destroyed") => Guarded(queue'))
    BY <1>3, <2>1, EndOfQueue
  <2>3. CASE Erases
    <3>1. state_' = "DISCONNECTED" /\ queue' = Append(queue, "destroyed")
      BY <1>18, <2>3 DEF DestroyServer
    <3> QED
      BY <2>2, <3>1 DEF Alone, Open, NoCallers, Guarded
  <2>4. CASE ~Erases
    <3>1. UNCHANGED <<state_, reg, closes>>
      BY <1>18, <2>4 DEF DestroyServer
    <3>2. ASSUME state_ = "DISCONNECTED", main_queue = << >> PROVE Guarded(queue')
      <4>1. ~in_map
        BY <2>1, <3>2 DEF ServerInv, Leaving
      <4>2. queue' = queue
        BY <1>18, <2>4, <4>1 DEF DestroyServer, Erases
      <4> QED
        BY <1>3, <3>2, <4>1, <4>2
    <3> QED
      BY <1>3, <2>1, <2>2, <3>1, <3>2 DEF Alone, NoCallers, Guarded
  <2> QED
    BY <2>3, <2>4
<1>19. CASE Exit
  <2>1. queue' = << >> /\ server' = "ended" /\ UNCHANGED <<state_, closes>>
    BY <1>19 DEF Exit
  <2> QED
    BY <1>3, <2>1 DEF Alone, NoCallers, Guarded
<1>20. CASE PeerSends \/ (\E how \in {"fin", "rst"} : PeerCloses(how))
            \/ (\E writable \in BOOLEAN : Event(writable)) \/ EventDangling \/ UNCHANGED vars
  BY <1>7, <1>20 DEF PeerSends, PeerCloses, Event, EventDangling, Abort, vars
<1> QED
  BY <1>1, <1>11, <1>14, <1>15, <1>16, <1>17, <1>18, <1>19, <1>20 DEF Next

-----------------------------------------------------------------------------
(* The theorems.                                                           *)

(***************************************************************************)
(* ConnInv is an inductive invariant of the connection.                    *)
(***************************************************************************)
THEOREM ConnInvariant == Spec => []ConnInv
<1>1. Init => ConnInv
  <2> SUFFICES ASSUME Init PROVE ConnInv
    OBVIOUS
  <2>1. TypeOK /\ LifeInv
    BY TypeInit, LifeInit
  <2>2. StreamInOrder
    <3>1. wire = << >> /\ output_buffer_ = << >> /\ sent = 0
      BY DEF Init
    <3>2. Units(0, 0) = << >>
      BY DEF Units
    <3> QED
      BY <3>1, <3>2 DEF StreamInOrder
  <2>3. AloneInv
    BY DEF Init, AloneInv, Open, NoCallers, Guarded
  <2>4. ServerInv
    BY DEF Init, ServerInv, Leaving, LastCall, Ended
  <2> QED
    BY <2>1, <2>2, <2>3, <2>4 DEF ConnInv
<1>2. ConnInv /\ [Next]_vars => ConnInv'
  BY TypeStep, StreamStep, LifeStep, ServerStep, AloneStep DEF ConnInv
<1> QED
  BY <1>1, <1>2, PTL DEF Spec

(***************************************************************************)
(* Every variable of the connection has its type: in particular the        *)
(* buffers hold units and the queues hold the functors the code queues.    *)
(***************************************************************************)
THEOREM TypeCorrect == Spec => []TypeOK
BY ConnInvariant, PTL DEF ConnInv

(***************************************************************************)
(* send_in_loop() and handle_write() lose, repeat and reorder nothing,     *)
(* whatever the sizes of the messages and of the partial writes, and       *)
(* whoever sends.                                                          *)
(***************************************************************************)
THEOREM StreamKept == Spec => []StreamInOrder
BY ConnInvariant, PTL DEF ConnInv

(***************************************************************************)
(* A connected socket is watched for writing exactly while output waits    *)
(* (send_in_loop, handle_write).                                           *)
(***************************************************************************)
THEOREM WritesAreWatched == Spec => []WriteInterest
BY ConnInvariant, PTL DEF ConnInv, LifeInv

(***************************************************************************)
(* close_callback_ runs at most once, and leaves the connection out of the *)
(* poller: handle_close() races with itself and with                       *)
(* connection_destroyed() for any number of calling threads.               *)
(***************************************************************************)
THEOREM ClosesOnce == Spec => []ClosedOnce
BY ConnInvariant, PTL DEF ConnInv, LifeInv

(***************************************************************************)
(* The poller's callback, which captured a bare this, is left with a       *)
(* destroyed connection only when ~TcpServer() has found the connection    *)
(* DISCONNECTING, whatever the peer, user code, other threads, stop() and  *)
(* the two loops do before (handle_close, connection_destroyed,            *)
(* ~TcpServer).                                                            *)
(***************************************************************************)
THEOREM PollerSafe == Spec => []PollerNeverDangles
<1>1. ASSUME ConnInv, reg # "none", ~Abandoned PROVE Held
  <2>1. closes = 0 /\ server # "ended" /\ state_ \notin {"CONNECTING", "DISCONNECTED"}
    BY <1>1 DEF ConnInv, TypeOK, LifeInv, Fresh, Registered, ClosedOnce, Abandoned
  <2>2. CASE server = "up"
    BY <1>1, <2>1, <2>2 DEF ConnInv, LifeInv, NotRemoved, Held
  <2>3. CASE server = "gone"
    <3>1. state_ = "CONNECTED"
      BY <1>1, <2>1, <2>3 DEF ConnInv, TypeOK, Abandoned
    <3>2. PICK i \in DOMAIN queue : queue[i] = "destroyed"
      BY <1>1, <2>3, <3>1 DEF ConnInv, ServerInv, LastCall, Destroyed
    <3> QED
      BY <3>2 DEF Held, OwningFunctors
  <2> QED
    BY <1>1, <2>1, <2>2, <2>3 DEF ConnInv, TypeOK
<1>2. ConnInv => PollerNeverDangles
  BY <1>1 DEF PollerNeverDangles
<1> QED
  BY <1>2, ConnInvariant, PTL

(***************************************************************************)
(* The connection of one loop outlives every functor that captured a bare  *)
(* this, unless ~TcpServer() has found it DISCONNECTING                    *)
(* (remove_connection_in_loop, connection_destroyed, ~TcpServer).          *)
(***************************************************************************)
THEOREM FunctorsSafe == Spec => []FunctorsNeverDangle
<1>1. ASSUME ConnInv, Unshared, NEW i \in DOMAIN queue, queue[i] \in RawFunctors, ~Abandoned
      PROVE  Held
  <2>1. ASSUME Destroyed(queue) PROVE Held
    BY <2>1 DEF Destroyed, Held, OwningFunctors
  <2>2. CASE in_map \/ main_queue # << >>
    BY <2>2 DEF Held
  <2>3. CASE ~in_map /\ main_queue = << >> /\ state_ = "DISCONNECTED"
    <3>1. Guarded(queue)
      BY <1>1, <2>3 DEF ConnInv, AloneInv
    <3> QED
      BY <1>1, <2>1, <3>1 DEF Guarded, Destroyed
  <2>4. CASE ~in_map /\ state_ # "DISCONNECTED"
    <3>1. closes = 0
      BY <1>1, <2>4 DEF ConnInv, TypeOK, LifeInv, ClosedOnce, AloneInv
    <3>2. server = "gone" /\ state_ \in {"CONNECTING", "CONNECTED"}
      BY <1>1, <2>4, <3>1 DEF ConnInv, TypeOK, LifeInv, NotRemoved, Abandoned
    <3> QED
      BY <1>1, <2>1, <3>2 DEF ConnInv, ServerInv, LastCall
  <2> QED
    BY <2>2, <2>3, <2>4
<1>2. ConnInv => FunctorsNeverDangle
  BY <1>1 DEF FunctorsNeverDangle
<1> QED
  BY <1>2, ConnInvariant, PTL

(***************************************************************************)
(* The assertion of ~TcpConnection() holds for the connection of one loop  *)
(* as long as there is a server, and fails afterwards only for one that    *)
(* ~TcpServer() found DISCONNECTING or whose loop ended before running     *)
(* connection_destroyed().                                                 *)
(***************************************************************************)
THEOREM DestructorAsserts == Spec => []DestroyedDisconnected
<1>1. ASSUME ConnInv, Unshared, ~Held, ~Abandoned PROVE state_ = "DISCONNECTED"
  <2>1. ~Destroyed(queue) /\ ~in_map
    BY <1>1 DEF Held, OwningFunctors, Destroyed
  <2>2. CASE server = "up"
    BY <1>1, <2>1, <2>2 DEF ConnInv, TypeOK, LifeInv, AloneInv, ClosedOnce, NotRemoved
  <2>3. CASE server = "gone"
    BY <1>1, <2>1, <2>3 DEF ConnInv, TypeOK, ServerInv, LastCall, Abandoned
  <2> QED
    BY <1>1, <2>2, <2>3 DEF ConnInv, TypeOK, Abandoned
<1>2. ConnInv => DestroyedDisconnected
  BY <1>1 DEF DestroyedDisconnected
<1> QED
  BY <1>2, ConnInvariant, PTL

=============================================================================
