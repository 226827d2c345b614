-------------------------- MODULE HttpServerProofs --------------------------
(***************************************************************************)
(* Proofs about HttpServer, its parser and its responses for any scripts   *)
(* of any requests, any segments, lengths of bodies and handlers.          *)
(***************************************************************************)
EXTENDS HttpServer, SequenceTheorems, WellFoundedInduction, TLAPS

(***************************************************************************)
(* The types of the connection's state.  A response is whatever a handler  *)
(* makes of it; FramedInv says what it is after a plain handler.           *)
(***************************************************************************)
States == {"PARSE_REQUEST_LINE", "PARSE_HEADERS", "PARSE_BODY", "PARSE_COMPLETE"}

TypeOK ==
  /\ usage \in Usages
  /\ arrived \in Nat /\ arrived <= Len(Stream(script))
  /\ buffer \in Seq(Tokens)
  /\ pc \in {"wait", "parse", "failed", "complete"}
  /\ request \in [state : States, line : Texts \cup {""}, headers : Seq(Texts),
                  body : Seq(Tokens)]
  /\ parser \in [has_error_ : BOOLEAN, content_length_ : Nat]
  /\ conn \in {"CONNECTED", "DISCONNECTING"}
  /\ served \in Seq([line : Texts \cup {""}, headers : Seq(Texts), body : Seq(Tokens)])
  /\ \E S : replies \in Seq(S)

(***************************************************************************)
(* The parser keeps its place if its use does, and while every request it  *)
(* has met was one: a connection that is CONNECTED has met no other.       *)
(***************************************************************************)
AllWellFormed == \A i \in DOMAIN script : WellFormedRequest(script[i])
InPlace == KeepsPlace /\ (AllWellFormed \/ conn = "CONNECTED")

done == Len(served)
Current == script[done + 1]

(***************************************************************************)
(* What was given to http_callback_ are the first requests of the script,  *)
(* and a parser that fails has met a request that is none.                 *)
(***************************************************************************)
ServedInv ==
  InPlace => /\ done <= Len(script)
             /\ \A i \in 1..done : served[i] = script[i] /\ WellFormedRequest(script[i])
             /\ pc = "failed" => done < Len(script) /\ ~WellFormedRequest(Current)

(***************************************************************************)
(* Where parse_request() is in the stream: p bytes lie behind it, and the  *)
(* request holds what they said.  A line and its CRLF take three bytes.    *)
(***************************************************************************)
AtLine(p) == request = FreshRequest /\ p = End(script, done)

AtHeaders(p) ==
  /\ request.state = "PARSE_HEADERS"
  /\ p = End(script, done) + 3 + 3 * Len(request.headers)
  /\ request.line = Current.line /\ Current.line \in RequestLines /\ request.body = << >>
  /\ Len(request.headers) <= Len(Current.headers)
  /\ \A i \in 1..Len(request.headers) : /\ request.headers[i] = Current.headers[i]
                                        /\ request.headers[i] \in HeaderTexts

AtBody(p) ==
  /\ request.state = "PARSE_BODY"
  /\ p = End(script, done) + 5 + 3 * Len(Current.headers)
  /\ request.line = Current.line /\ request.headers = Current.headers
  /\ WellFormedRequest(Current)
  /\ parser.content_length_ = Len(Current.body)

AtEnd(p) ==
  /\ request.state = "PARSE_COMPLETE"
  /\ p = End(script, done + 1)
  /\ request.line = Current.line /\ request.headers = Current.headers
  /\ request.body = Current.body
  /\ WellFormedRequest(Current)

(***************************************************************************)
(* The buffer holds the stream from there on.                              *)
(***************************************************************************)
Unread(p) ==
  /\ Len(buffer) = arrived - p
  /\ \A i \in 1..Len(buffer) : buffer[i] = Stream(script)[p + i]

Place(p) ==
  /\ pc = "wait" => AtLine(p) \/ /\ usage.keep_request /\ done < Len(script)
                                 /\ AtHeaders(p) \/ AtBody(p)
  /\ pc = "parse" => /\ done < Len(script)
                     /\ AtLine(p) \/ AtHeaders(p) \/ AtBody(p)
  /\ pc = "complete" => done < Len(script) /\ AtEnd(p)

PlaceInv ==
  InPlace /\ pc # "failed" =>
    ~parser.has_error_ /\ \E p \in Nat : p <= arrived /\ Unread(p) /\ Place(p)

(***************************************************************************)
(* How much has arrived.  Without pipelining it is no more than the        *)
(* request after the last answer, and a parser that waits has not all of   *)
(* it.  A caller that drops its HttpRequest has whole requests only.       *)
(***************************************************************************)
ArrivedInv ==
  /\ InPlace /\ ~usage.pipelined =>
       /\ \E m \in 0..Len(script) : m <= answered + 1 /\ arrived <= End(script, m)
       /\ pc = "wait" => done = Len(script) \/ arrived < End(script, done + 1)
  /\ usage.whole_segments => \E j \in 0..Len(script) : arrived = End(script, j)
  /\ InPlace /\ ~usage.keep_request /\ pc = "parse" => End(script, done + 1) <= arrived

(***************************************************************************)
(* Every request is answered as long as the connection is up.              *)
(***************************************************************************)
AnsweredInv ==
  /\ conn = "CONNECTED" => answered = done
  /\ InPlace => answered <= done
  /\ KeepsPlace => \A i \in DOMAIN script : ~WellFormedRequest(script[i]) => answered < i

(***************************************************************************)
(* No request sends the Connection header twice: keep_alive() takes two    *)
(* for neither of its values.                                              *)
(***************************************************************************)
OneConnectionHeader ==
  \A i \in DOMAIN script : \A j, k \in get_header(script[i], ConnectionTexts) : j = k

(***************************************************************************)
(* The request after which the connection ends is the last one answered.   *)
(***************************************************************************)
EndsAfter(i) == ~Persistent(served[i]) \/ ~usage.keep_alive_enabled_

KeepAliveInv ==
  Supported /\ Plain(usage.handler) /\ OneConnectionHeader =>
    /\ conn = "CONNECTED" => \A i \in 1..done : ~EndsAfter(i)
    /\ conn = "DISCONNECTING" => /\ answered \in 1..done /\ EndsAfter(answered)
                                 /\ \A i \in 1..answered - 1 : ~EndsAfter(i)

(***************************************************************************)
(* A response says twice what becomes of the connection, and only the last *)
(* one that it ends.                                                       *)
(***************************************************************************)
FramedInv ==
  Plain(usage.handler) =>
    /\ \A i \in 1..answered :
         /\ replies[i].length = <<replies[i].body>>
         /\ \/ replies[i].connection = <<"keep-alive", "keep-alive">>
            \/ /\ replies[i].connection = <<"close", "close">>
               /\ conn = "DISCONNECTING" /\ i = answered
    /\ Supported /\ conn = "DISCONNECTING" =>
         answered > 0 /\ replies[answered].connection = <<"close", "close">>

HttpInv ==
  /\ TypeOK
  /\ ServedInv
  /\ PlaceInv
  /\ ArrivedInv
  /\ AnsweredInv
  /\ KeepAliveInv
  /\ FramedInv

-----------------------------------------------------------------------------
(* Sequences behind each other.                                            *)

(***************************************************************************)
(* A set of naturals that is not empty has a least element.                *)
(***************************************************************************)
LEMMA LeastNatural ==
  ASSUME NEW T \in SUBSET Nat, T # {}
  PROVE  \E m \in T : \A n \in T : m <= n
<1>1. \A m, n \in Nat : <<n, m>> \notin OpToRel(<, Nat) => ~(n < m)
  BY Zenon DEF OpToRel
<1>2. \E m \in T : \A n \in T : ~(<<n, m>> \in OpToRel(<, Nat))
  BY NatLessThanWellFounded, WFMin, Zenon
<1>3. PICK m \in T : \A n \in T : ~(n < m)
  BY <1>1, <1>2, Zenon
<1> QED
  BY <1>3

(***************************************************************************)
(* c is a, of length m, and b, of length n, behind each other.             *)
(***************************************************************************)
Glued(c, a, m, b, n) ==
  /\ Len(c) = m + n
  /\ \A i \in 1..m : c[i] = a[i]
  /\ \A i \in 1..n : c[m + i] = b[i]

(***************************************************************************)
(* What \o does, element by element.                                       *)
(***************************************************************************)
LEMMA Behind ==
  ASSUME NEW T, NEW a \in Seq(T), NEW b \in Seq(T), NEW m \in Nat, NEW n \in Nat,
         Len(a) = m, Len(b) = n
  PROVE  a \o b \in Seq(T) /\ Glued(a \o b, a, m, b, n)
<1>1. /\ a \o b \in Seq(T) /\ Len(a \o b) = m + n
      /\ \A i \in 1..m + n : (a \o b)[i] = IF i <= m THEN a[i] ELSE b[i - m]
  BY ConcatProperties
<1>2. ASSUME NEW i \in 1..m PROVE (a \o b)[i] = a[i]
  <2>1. i \in 1..m + n /\ i <= m
    OBVIOUS
  <2> QED
    BY <1>1, <2>1
<1>3. ASSUME NEW i \in 1..n PROVE (a \o b)[m + i] = b[i]
  <2>1. m + i \in 1..m + n /\ ~(m + i <= m) /\ (m + i) - m = i
    OBVIOUS
  <2> QED
    BY <1>1, <2>1
<1> QED
  BY <1>1, <1>2, <1>3 DEF Glued

(***************************************************************************)
(* A part of a sequence, element by element.                               *)
(***************************************************************************)
LEMMA Part ==
  ASSUME NEW T, NEW a \in Seq(T), NEW m \in Nat, NEW n \in Nat, m <= n, n <= Len(a)
  PROVE  /\ SubSeq(a, m + 1, n) \in Seq(T) /\ Len(SubSeq(a, m + 1, n)) = n - m
         /\ \A i \in 1..n - m : SubSeq(a, m + 1, n)[i] = a[m + i]
<1>1. PICK x \in Nat : x = Len(a)
  OBVIOUS
<1>2. \A i \in m + 1..n : i \in 1..x
  BY <1>1
<1>3. \A i \in m + 1..n : a[i] \in T
  BY <1>1, <1>2
<1>4. /\ SubSeq(a, m + 1, n) \in Seq(T)
      /\ Len(SubSeq(a, m + 1, n)) = (IF m + 1 <= n THEN n - (m + 1) + 1 ELSE 0)
      /\ \A i \in 1..(n - (m + 1) + 1) : SubSeq(a, m + 1, n)[i] = a[m + 1 + i - 1]
  BY <1>2, <1>1, SubSeqProperties
<1>5. /\ (IF m + 1 <= n THEN n - (m + 1) + 1 ELSE 0) = n - m
      /\ n - (m + 1) + 1 = n - m
      /\ \A i \in 1..n - m : m + 1 + i - 1 = m + i
  OBVIOUS
<1> QED
  BY <1>4, <1>5

(***************************************************************************)
(* g puts the first n of the sequences s behind each other one by one.     *)
(***************************************************************************)
Joins(g, s, n, T) ==
  /\ g \in [0..n -> Seq(T)]
  /\ g[0] = << >>
  /\ \A i \in 1..n : g[i] = g[i - 1] \o s[i]

(***************************************************************************)
(* There is such a g.                                                      *)
(***************************************************************************)
LEMMA JoinsExist ==
  ASSUME NEW T, NEW s \in Seq(Seq(T)), NEW n \in 0..Len(s)
  PROVE  \E g : Joins(g, s, n, T)
<1> DEFINE Bad == {k \in 0..Len(s) : ~\E g : Joins(g, s, k, T)}
<1>1. ASSUME Bad # {} PROVE FALSE
  <2>1. Bad \in SUBSET Nat
    OBVIOUS
  <2>2. PICK k \in Bad : \A j \in Bad : k <= j
    BY <1>1, <2>1, LeastNatural
  <2>3. k \in 0..Len(s) /\ ~\E g : Joins(g, s, k, T)
    OBVIOUS
  <2>4. ASSUME k = 0 PROVE FALSE
    <3>1. Joins([i \in 0..0 |-> << >>], s, 0, T)
      BY DEF Joins
    <3> QED
      BY <2>3, <2>4, <3>1
  <2>5. k \in 1..Len(s) /\ k - 1 \in 0..Len(s) /\ ~(k <= k - 1)
    BY <2>3, <2>4
  <2>6. \E g : Joins(g, s, k - 1, T)
    BY <2>2, <2>5
  <2>7. PICK g : Joins(g, s, k - 1, T)
    BY <2>6
  <2> DEFINE h == [i \in 0..k |-> IF i = k THEN g[k - 1] \o s[k] ELSE g[i]]
  <2>8. g \in [0..(k - 1) -> Seq(T)] /\ g[0] = << >>
        /\ \A i \in 1..(k - 1) : g[i] = g[i - 1] \o s[i]
    BY <2>7 DEF Joins
  <2>9. g[k - 1] \in Seq(T) /\ s[k] \in Seq(T)
    BY <2>5, <2>8
  <2>10. g[k - 1] \o s[k] \in Seq(T)
    BY <2>9, ConcatProperties
  <2>11. h \in [0..k -> Seq(T)]
    <3>1. ASSUME NEW i \in 0..k PROVE (IF i = k THEN g[k - 1] \o s[k] ELSE g[i]) \in Seq(T)
      <4>1. CASE i = k
        BY <2>10, <4>1
      <4>2. CASE i # k
        <5>1. i \in 0..(k - 1)
          BY <2>5, <4>2
        <5> QED
          BY <2>8, <4>2, <5>1
      <4> QED
        BY <4>1, <4>2
    <3> QED
      BY <3>1
  <2>12. h[0] = << >>
    BY <2>5, <2>8
  <2>13. ASSUME NEW i \in 1..k PROVE h[i] = h[i - 1] \o s[i]
    <3>1. i \in 0..k /\ i - 1 \in 0..k /\ i - 1 # k
      BY <2>5
    <3>2. h[i - 1] = g[i - 1]
      BY <3>1
    <3>3. CASE i = k
      BY <3>1, <3>2, <3>3
    <3>4. CASE i # k
      <4>1. i \in 1..(k - 1)
        BY <2>5, <3>4
      <4>2. h[i] = g[i]
        BY <3>1, <3>4
      <4> HIDE DEF h
      <4> QED
        BY <2>8, <3>2, <4>1, <4>2
    <3> QED
      BY <3>3, <3>4
  <2>14. Joins(h, s, k, T)
    <3> HIDE DEF h
    <3> QED
      BY <2>11, <2>12, <2>13 DEF Joins
  <2> QED
    BY <2>3, <2>14
<1>2. Bad = {}
  BY <1>1
<1> QED
  BY <1>2

(***************************************************************************)
(* There is but one, and FlattenSeq() is its last.                         *)
(***************************************************************************)
LEMMA FlattenIs ==
  ASSUME NEW T, NEW s \in Seq(Seq(T)), NEW g, Joins(g, s, Len(s), T)
  PROVE  FlattenSeq(s) = g[Len(s)]
<1> DEFINE n == Len(s)
           flatten[i \in 1..Len(s)] == IF i = 1 THEN s[i] ELSE flatten[i - 1] \o s[i]
           f == [i \in 1..Len(s) |-> g[i]]
<1>1. /\ n \in Nat /\ g \in [0..n -> Seq(T)] /\ g[0] = << >>
      /\ \A i \in 1..n : g[i] = g[i - 1] \o s[i]
  BY DEF Joins
<1>2. CASE n = 0
  <2>1. s = << >>
    BY <1>2
  <2> QED
    BY <1>1, <1>2, <2>1 DEF FlattenSeq
<1>3. CASE n # 0
  <2>1. f = [i \in 1..Len(s) |-> IF i = 1 THEN s[i] ELSE f[i - 1] \o s[i]]
    <3>1. ASSUME NEW i \in 1..Len(s)
          PROVE  g[i] = IF i = 1 THEN s[i] ELSE f[i - 1] \o s[i]
      <4>1. CASE i = 1
        <5>1. s[1] \in Seq(T)
          BY <4>1
        <5>2. << >> \o s[1] = s[1]
          BY <5>1, ConcatEmptySeq
        <5>3. 1 \in 1..n /\ 1 - 1 = 0
          BY <4>1
        <5>4. g[1] = g[1 - 1] \o s[1]
          BY <1>1, <5>3
        <5> QED
          BY <1>1, <4>1, <5>2, <5>3, <5>4
      <4>2. CASE i # 1
        <5>1. i - 1 \in 1..Len(s)
          BY <4>2
        <5>2. f[i - 1] = g[i - 1]
          BY <5>1
        <5> HIDE DEF f
        <5> QED
          BY <1>1, <4>2, <5>2
      <4> QED
        BY <4>1, <4>2
    <3> QED
      BY <3>1
  <2> HIDE DEF f
  <2>2. flatten = [i \in 1..Len(s) |-> IF i = 1 THEN s[i] ELSE flatten[i - 1] \o s[i]]
    BY <2>1, Zenon
  <2>3. FlattenSeq(s) = flatten[n]
    BY <1>3 DEF FlattenSeq
  <2> HIDE DEF flatten
  <2>4. \A i \in 1..n : flatten[i] = IF i = 1 THEN s[i] ELSE flatten[i - 1] \o s[i]
    BY <2>2
  <2>5. \A i \in 1..n : f[i] = IF i = 1 THEN s[i] ELSE f[i - 1] \o s[i]
    BY <2>1
  <2> DEFINE Bad == {i \in 1..n : flatten[i] # f[i]}
  <2>6. ASSUME Bad # {} PROVE FALSE
    <3>1. Bad \in SUBSET Nat
      BY <1>1
    <3>2. PICK i \in Bad : \A j \in Bad : i <= j
      BY <2>6, <3>1, LeastNatural
    <3>3. i \in 1..n /\ flatten[i] # f[i]
      OBVIOUS
    <3>4. i # 1
      BY <2>4, <2>5, <3>3
    <3>5. i - 1 \in 1..n /\ ~(i <= i - 1)
      BY <1>1, <3>3, <3>4
    <3>6. flatten[i - 1] = f[i - 1]
      BY <3>2, <3>5
    <3> QED
      BY <2>4, <2>5, <3>3, <3>4, <3>6
  <2>7. n \in 1..n
    BY <1>1, <1>3
  <2>8. f[n] = g[n]
    BY <2>7 DEF f
  <2> QED
    BY <2>3, <2>6, <2>7, <2>8
<1> QED
  BY <1>2, <1>3

(***************************************************************************)
(* What was put in place stays there.                                      *)
(***************************************************************************)
LEMMA JoinsGrow ==
  ASSUME NEW T, NEW s \in Seq(Seq(T)), NEW n \in Nat, n = Len(s), NEW g, Joins(g, s, n, T),
         NEW j \in 0..n, NEW k \in 0..n, j <= k
  PROVE  /\ Len(g[j]) <= Len(g[k]) /\ Len(g[j]) \in Nat /\ Len(g[k]) \in Nat
         /\ \A i \in 1..Len(g[j]) : g[k][i] = g[j][i]
<1> DEFINE Stays(m) == Len(g[j]) <= Len(g[m]) /\ \A i \in 1..Len(g[j]) : g[m][i] = g[j][i]
           Bad == {m \in j..n : ~Stays(m)}
<1>1. g \in [0..n -> Seq(T)] /\ \A i \in 1..n : g[i] = g[i - 1] \o s[i]
  BY DEF Joins
<1>2. Len(g[j]) \in Nat /\ Len(g[k]) \in Nat
  BY <1>1
<1>3. ASSUME Bad # {} PROVE FALSE
  <2>1. Bad \in SUBSET Nat
    OBVIOUS
  <2>2. PICK m \in Bad : \A l \in Bad : m <= l
    BY <1>3, <2>1, LeastNatural
  <2>3. m \in j..n /\ ~Stays(m)
    OBVIOUS
  <2>4. m # j
    BY <1>2, <2>3
  <2>5. m - 1 \in j..n /\ ~(m <= m - 1) /\ m \in 1..n /\ m - 1 \in 0..n
    BY <2>3, <2>4
  <2>6. Len(g[j]) <= Len(g[m - 1]) /\ \A i \in 1..Len(g[j]) : g[m - 1][i] = g[j][i]
    BY <2>2, <2>5
  <2>7a. g[m - 1] \in Seq(T)
    BY <1>1, <2>5
  <2>7b. s[m] \in Seq(T)
    BY <2>5
  <2>7. g[m] = g[m - 1] \o s[m]
    BY <1>1, <2>5
  <2>8a. /\ Len(g[m - 1]) \in Nat /\ Len(s[m]) \in Nat
         /\ Len(g[m]) = Len(g[m - 1]) + Len(s[m])
         /\ \A i \in 1..Len(g[m - 1]) : g[m][i] = g[m - 1][i]
    <3>1. PICK a \in Seq(T) : a = g[m - 1]
      BY <2>7a
    <3>2. PICK b \in Seq(T) : b = s[m]
      BY <2>7b
    <3>3. g[m] = a \o b
      BY <2>7, <3>1, <3>2
    <3>4. Len(a) \in Nat /\ Len(b) \in Nat
      OBVIOUS
    <3>5. Glued(a \o b, a, Len(a), b, Len(b))
      BY <3>4, Behind
    <3> QED
      BY <3>1, <3>2, <3>3, <3>4, <3>5 DEF Glued
  <2>8. PICK x, y, z \in Nat : x = Len(g[j]) /\ y = Len(g[m - 1]) /\ z = Len(s[m])
    BY <1>2, <2>8a
  <2>9. Len(g[j]) <= Len(g[m])
    <3>1. x <= y /\ Len(g[m]) = y + z
      BY <2>6, <2>8, <2>8a
    <3>2. x <= y + z
      BY <3>1
    <3> QED
      BY <2>8, <3>1, <3>2
  <2>10. ASSUME NEW i \in 1..Len(g[j]) PROVE g[m][i] = g[j][i]
    <3>1. i \in 1..x /\ x <= y
      BY <2>6, <2>8
    <3>2. i \in 1..y
      BY <3>1
    <3> QED
      BY <2>6, <2>8, <2>8a, <3>2
  <2> QED
    BY <2>3, <2>9, <2>10
<1>4. k \in j..n
  OBVIOUS
<1>5. Stays(k)
  BY <1>3, <1>4
<1> QED
  BY <1>2, <1>5

(***************************************************************************)
(* f is the n sequences of s behind each other: s[k] lies between the      *)
(* lengths of g[k - 1] and g[k].                                           *)
(***************************************************************************)
Flattened(f, g, s, n, T) ==
  /\ \A k \in 0..n : g[k] \in Seq(T) /\ Len(g[k]) \in Nat /\ FlattenSeq(SubSeq(s, 1, k)) = g[k]
  /\ f = g[n] /\ g[0] = << >>
  /\ \A k \in 1..n : /\ Len(g[k]) = Len(g[k - 1]) + Len(s[k])
                     /\ \A i \in 1..Len(s[k]) : f[Len(g[k - 1]) + i] = s[k][i]

(***************************************************************************)
(* FlattenSeq() of the first sequences of s, and where s[k] is in it.      *)
(***************************************************************************)
LEMMA FlattenLayout ==
  ASSUME NEW T, NEW s \in Seq(Seq(T)), NEW n \in Nat, n = Len(s), NEW g, Joins(g, s, n, T)
  PROVE  Flattened(FlattenSeq(s), g, s, n, T)
<1>1. Joins(g, s, Len(s), T)
  OBVIOUS
<1>2. g \in [0..n -> Seq(T)] /\ g[0] = << >> /\ \A i \in 1..n : g[i] = g[i - 1] \o s[i]
  BY DEF Joins
<1>3. FlattenSeq(s) = g[n]
  BY <1>1, FlattenIs
<1>4. ASSUME NEW k \in 0..n PROVE FlattenSeq(SubSeq(s, 1, k)) = g[k]
  <2>1. PICK c \in Seq(Seq(T)) : c = SubSeq(s, 1, k) /\ Len(c) = k
                               /\ \A i \in 1..k : c[i] = s[i]
    <3>1. 0 \in Nat /\ k \in Nat /\ 0 <= k /\ k <= Len(s) /\ 0 + 1 = 1 /\ k - 0 = k
      BY <1>1
    <3>2. /\ SubSeq(s, 0 + 1, k) \in Seq(Seq(T)) /\ Len(SubSeq(s, 0 + 1, k)) = k - 0
          /\ \A i \in 1..k - 0 : SubSeq(s, 0 + 1, k)[i] = s[0 + i]
      BY <3>1, Part
    <3>3. \A i \in 1..k : 0 + i = i
      OBVIOUS
    <3> QED
      BY <3>1, <3>2, <3>3
  <2>2. PICK h : h = [i \in 0..k |-> g[i]]
    OBVIOUS
  <2>3. \A i \in 0..k : i \in 0..n
    OBVIOUS
  <2>4. h \in [0..k -> Seq(T)]
    BY <1>2, <2>2, <2>3
  <2>5. h[0] = << >>
    BY <1>2, <2>2
  <2>6. ASSUME NEW i \in 1..k PROVE h[i] = h[i - 1] \o c[i]
    <3>1. i \in 0..k /\ i - 1 \in 0..k /\ i \in 1..n
      OBVIOUS
    <3>2. h[i] = g[i] /\ h[i - 1] = g[i - 1] /\ c[i] = s[i]
      BY <2>1, <2>2, <3>1
    <3> QED
      BY <1>2, <3>1, <3>2
  <2>7. Joins(h, c, Len(c), T)
    BY <2>1, <2>4, <2>5, <2>6 DEF Joins
  <2>8. FlattenSeq(c) = h[Len(c)]
    BY <2>7, FlattenIs
  <2>9. h[k] = g[k]
    BY <2>2
  <2> QED
    BY <2>1, <2>8, <2>9
<1>5. ASSUME NEW k \in 1..n
      PROVE  /\ Len(g[k]) = Len(g[k - 1]) + Len(s[k])
             /\ \A i \in 1..Len(s[k]) : FlattenSeq(s)[Len(g[k - 1]) + i] = s[k][i]
  <2>1. k - 1 \in 0..n /\ k \in 0..n /\ k \in 1..Len(s)
        /\ k <= n /\ n \in 0..n
    BY <1>1
  <2>2. PICK a \in Seq(T) : a = g[k - 1]
    BY <1>2, <2>1
  <2>3. PICK b \in Seq(T) : b = s[k]
    BY <2>1
  <2>4. g[k] = a \o b
    BY <1>2, <2>2, <2>3
  <2>5. /\ Len(a \o b) = Len(a) + Len(b) /\ Len(a) \in Nat /\ Len(b) \in Nat
        /\ \A i \in 1..Len(b) : (a \o b)[Len(a) + i] = b[i]
    <3>1. Len(a) \in Nat /\ Len(b) \in Nat
      OBVIOUS
    <3>2. Glued(a \o b, a, Len(a), b, Len(b))
      BY <3>1, Behind
    <3> QED
      BY <3>1, <3>2 DEF Glued
  <2>6. \A i \in 1..Len(g[k]) : g[n][i] = g[k][i]
    BY <2>1, JoinsGrow
  <2>7. ASSUME NEW i \in 1..Len(b) PROVE FlattenSeq(s)[Len(a) + i] = b[i]
    <3>1. PICK x \in Nat : x = Len(a)
      BY <2>5
    <3>2. PICK y \in Nat : y = Len(b)
      BY <2>5
    <3>3. x + i \in 1..x + y
      BY <3>2
    <3>4. x + i \in 1..Len(g[k])
      BY <2>4, <2>5, <3>1, <3>2, <3>3
    <3> QED
      BY <1>3, <2>4, <2>5, <2>6, <3>1, <3>4
  <2> QED
    BY <2>2, <2>3, <2>4, <2>5, <2>7
<1>6. \A k \in 0..n : g[k] \in Seq(T) /\ Len(g[k]) \in Nat
  BY <1>2
<1> QED
  BY <1>2, <1>3, <1>4, <1>5, <1>6 DEF Flattened

-----------------------------------------------------------------------------
(* The bytes of a request.                                                 *)

(***************************************************************************)
(* A line and its CRLF.                                                    *)
(***************************************************************************)
LEMMA LineLayout ==
  ASSUME NEW x \in Texts
  PROVE  /\ <<x>> \o CRLF \in Seq(Tokens) /\ Len(<<x>> \o CRLF) = 3
         /\ (<<x>> \o CRLF)[1] = x /\ (<<x>> \o CRLF)[2] = "cr"
         /\ (<<x>> \o CRLF)[3] = "lf"
<1>1. <<x>> \in Seq(Tokens) /\ Len(<<x>>) = 1
  BY DEF Tokens
<1>2. CRLF \in Seq(Tokens) /\ Len(CRLF) = 2 /\ CRLF[1] = "cr" /\ CRLF[2] = "lf"
  BY DEF Tokens, CRLF
<1>3. PICK a \in Seq(Tokens) : a = <<x>> /\ Len(a) = 1 /\ a[1] = x
  BY <1>1
<1>4. PICK b \in Seq(Tokens) : b = CRLF /\ Len(b) = 2 /\ b[1] = "cr" /\ b[2] = "lf"
  BY <1>2
<1>5. a \o b \in Seq(Tokens) /\ Glued(a \o b, a, 1, b, 2)
  <2>1. 1 \in Nat /\ 2 \in Nat
    OBVIOUS
  <2> QED
    BY <1>3, <1>4, <2>1, Behind, Zenon
<1>6. (a \o b)[1] = x
  BY <1>3, <1>5 DEF Glued
<1>7. (a \o b)[1 + 1] = "cr" /\ (a \o b)[1 + 2] = "lf"
  BY <1>4, <1>5 DEF Glued
<1>8. Len(a \o b) = 3
  BY <1>5 DEF Glued
<1> QED
  BY <1>3, <1>4, <1>5, <1>6, <1>7, <1>8

(***************************************************************************)
(* The lines of the headers take three tokens each.                        *)
(***************************************************************************)
Lines(f, h, n) ==
  /\ f \in Seq(Tokens) /\ Len(f) = 3 * n
  /\ \A k \in 1..n : f[3 * k - 2] = h[k] /\ f[3 * k - 1] = "cr" /\ f[3 * k] = "lf"

(***************************************************************************)
(* The headers of a request, each followed by CRLF, are laid out so.       *)
(***************************************************************************)
LEMMA HeadersLayout ==
  ASSUME NEW h \in Seq(Texts), NEW n \in Nat, n = Len(h)
  PROVE  Lines(FlattenSeq([i \in DOMAIN h |-> <<h[i]>> \o CRLF]), h, n)
<1>1. DOMAIN h = 1..n
  OBVIOUS
<1>1a. PICK f : f = FlattenSeq([i \in DOMAIN h |-> <<h[i]>> \o CRLF])
  OBVIOUS
<1>2. PICK s : s = [i \in 1..n |-> <<h[i]>> \o CRLF]
  OBVIOUS
<1>3. ASSUME NEW k \in 1..n
      PROVE  /\ s[k] \in Seq(Tokens) /\ Len(s[k]) = 3
             /\ s[k][1] = h[k] /\ s[k][2] = "cr" /\ s[k][3] = "lf"
  <2>1. h[k] \in Texts
    BY <1>1
  <2>2. s[k] = <<h[k]>> \o CRLF
    BY <1>2
  <2> QED
    BY <2>1, <2>2, LineLayout
<1>4. s \in [1..n -> Seq(Tokens)]
  BY <1>2, <1>3
<1>5. s \in Seq(Seq(Tokens)) /\ Len(s) = n
  BY <1>4
<1>6. PICK g : Joins(g, s, n, Tokens)
  <2>1. n \in 0..Len(s)
    BY <1>5
  <2> QED
    BY <1>5, <2>1, JoinsExist
<1>7a. Flattened(FlattenSeq(s), g, s, n, Tokens)
  BY <1>5, <1>6, FlattenLayout
<1>7. /\ \A k \in 0..n : g[k] \in Seq(Tokens) /\ Len(g[k]) \in Nat
      /\ FlattenSeq(s) = g[n]
      /\ \A k \in 1..n :
           /\ Len(g[k]) = Len(g[k - 1]) + Len(s[k])
           /\ \A i \in 1..Len(s[k]) : FlattenSeq(s)[Len(g[k - 1]) + i] = s[k][i]
  BY <1>7a DEF Flattened
<1>8. g[0] = << >>
  BY <1>6 DEF Joins
<1> DEFINE Bad == {k \in 0..n : Len(g[k]) # 3 * k}
<1>9. ASSUME Bad # {} PROVE FALSE
  <2>1. Bad \in SUBSET Nat
    OBVIOUS
  <2>2. PICK k \in Bad : \A j \in Bad : k <= j
    BY <1>9, <2>1, LeastNatural
  <2>3. k \in 0..n /\ Len(g[k]) # 3 * k
    OBVIOUS
  <2>4. k # 0
    BY <1>8, <2>3
  <2>5. k \in 1..n /\ k - 1 \in 0..n /\ ~(k <= k - 1)
    BY <2>3, <2>4
  <2>6. Len(g[k - 1]) = 3 * (k - 1)
    BY <2>2, <2>5
  <2>7. Len(g[k]) = Len(g[k - 1]) + 3
    BY <1>3, <1>7, <2>5
  <2> QED
    BY <2>3, <2>6, <2>7
<1>10. \A k \in 0..n : Len(g[k]) = 3 * k
  BY <1>9
<1> HIDE DEF Bad
<1>11. f = FlattenSeq(s)
  BY <1>1, <1>1a, <1>2
<1>12. n \in 0..n
  OBVIOUS
<1>13. f \in Seq(Tokens) /\ Len(f) = 3 * n
  BY <1>7, <1>10, <1>11, <1>12
<1>14. ASSUME NEW k \in 1..n
       PROVE  f[3 * k - 2] = h[k] /\ f[3 * k - 1] = "cr" /\ f[3 * k] = "lf"
  <2>1. k - 1 \in 0..n
    OBVIOUS
  <2>2. Len(g[k - 1]) = 3 * (k - 1)
    BY <1>10, <2>1
  <2>3. 1 \in 1..Len(s[k]) /\ 2 \in 1..Len(s[k]) /\ 3 \in 1..Len(s[k])
    BY <1>3
  <2>4. \A i \in 1..Len(s[k]) : f[3 * (k - 1) + i] = s[k][i]
    BY <1>7, <1>11, <2>2
  <2>5. f[3 * (k - 1) + 1] = s[k][1] /\ f[3 * (k - 1) + 2] = s[k][2]
        /\ f[3 * (k - 1) + 3] = s[k][3]
    BY <2>3, <2>4
  <2>6. 3 * (k - 1) + 1 = 3 * k - 2 /\ 3 * (k - 1) + 2 = 3 * k - 1 /\ 3 * (k - 1) + 3 = 3 * k
    OBVIOUS
  <2> QED
    BY <1>3, <2>5, <2>6
<1> QED
  BY <1>1a, <1>13, <1>14 DEF Lines

(***************************************************************************)
(* A request: its line, its headers, a blank line and its body.            *)
(***************************************************************************)
Layout(e, r, h) ==
  /\ e \in Seq(Tokens) /\ h \in Nat /\ h = Len(r.headers)
  /\ Len(r.body) \in Nat /\ Len(e) = 3 * h + 5 + Len(r.body)
  /\ e[1] = r.line /\ e[2] = "cr" /\ e[3] = "lf"
  /\ \A k \in 1..h : e[3 * k + 1] = r.headers[k] /\ e[3 * k + 2] = "cr" /\ e[3 * k + 3] = "lf"
  /\ e[3 * h + 4] = "cr" /\ e[3 * h + 5] = "lf"
  /\ \A i \in 1..Len(r.body) : e[3 * h + 5 + i] = r.body[i]

(***************************************************************************)
(* Encode puts a request on the wire in this layout.                       *)
(***************************************************************************)
LEMMA EncodeLayout ==
  ASSUME NEW r \in Requests
  PROVE  Layout(Encode(r), r, Len(r.headers))
<1>1. r.line \in Texts /\ r.headers \in Seq(Texts) /\ r.body \in Seq(Tokens)
  BY DEF Requests
<1>2. PICK h \in Nat : h = Len(r.headers)
  BY <1>1
<1>3. PICK n \in Nat : n = Len(r.body)
  BY <1>1
<1>4. PICK b \in Seq(Tokens) : b = r.body
  BY <1>1
<1>5. PICK a \in Seq(Tokens) : /\ a = <<r.line>> \o CRLF /\ Len(a) = 3
                               /\ a[1] = r.line /\ a[2] = "cr" /\ a[3] = "lf"
  BY <1>1, LineLayout
<1>6. PICK q \in Seq(Texts) : q = r.headers
  BY <1>1
<1>7. PICK f : f = FlattenSeq([i \in DOMAIN q |-> <<q[i]>> \o CRLF])
  OBVIOUS
<1>7a. Lines(f, q, h)
  BY <1>2, <1>6, <1>7, HeadersLayout
<1>7b. /\ f \in Seq(Tokens) /\ Len(f) = 3 * h
       /\ \A k \in 1..h : /\ f[3 * k - 2] = r.headers[k]
                          /\ f[3 * k - 1] = "cr" /\ f[3 * k] = "lf"
  BY <1>6, <1>7a DEF Lines
<1>8. PICK c : c = CRLF
  OBVIOUS
<1>8a. c \in Seq(Tokens) /\ Len(c) = 2 /\ c[1] = "cr" /\ c[2] = "lf"
  BY <1>8 DEF CRLF, Tokens
<1>9. PICK m \in Nat : m = 3 * h
  OBVIOUS
<1>9a. PICK x : x = a \o f
  OBVIOUS
<1>9b. /\ x \in Seq(Tokens) /\ Len(x) = 3 + m
       /\ (\A i \in 1..3 : x[i] = a[i]) /\ \A i \in 1..m : x[3 + i] = f[i]
  <2>1. 3 \in Nat /\ Len(f) = m
    BY <1>7b, <1>9
  <2>2. a \o f \in Seq(Tokens) /\ Glued(a \o f, a, 3, f, m)
    BY <1>5, <1>7b, <2>1, Behind, Zenon
  <2> QED
    BY <1>5, <1>9a, <2>2 DEF Glued
<1>10. PICK y : y = x \o c
  OBVIOUS
<1>10a. /\ y \in Seq(Tokens) /\ Len(y) = 3 + m + 2
        /\ (\A i \in 1..3 + m : y[i] = x[i]) /\ \A i \in 1..2 : y[3 + m + i] = c[i]
  <2>1. 3 + m \in Nat /\ 2 \in Nat
    OBVIOUS
  <2>2. x \o c \in Seq(Tokens) /\ Glued(x \o c, x, 3 + m, c, 2)
    BY <1>8a, <1>9b, <2>1, Behind, Zenon
  <2> QED
    BY <1>10, <2>2 DEF Glued
<1>11. PICK z : z = y \o b
  OBVIOUS
<1>11a. /\ z \in Seq(Tokens) /\ Len(z) = 5 + m + n
        /\ (\A i \in 1..5 + m : z[i] = y[i]) /\ \A i \in 1..n : z[5 + m + i] = b[i]
  <2>1. 3 + m + 2 = 5 + m /\ 5 + m \in Nat
    OBVIOUS
  <2>2. y \o b \in Seq(Tokens) /\ Glued(y \o b, y, 5 + m, b, n)
    BY <1>3, <1>4, <1>10a, <2>1, Behind, Zenon
  <2> QED
    BY <1>11, <2>2 DEF Glued
<1>12. Encode(r) = z
  BY <1>4, <1>5, <1>6, <1>7, <1>8, <1>9a, <1>10, <1>11 DEF Encode
<1>13. \A i \in 1..3 : z[i] = a[i]
  <2>1. \A i \in 1..3 : i \in 1..3 + 3 * h /\ i \in 1..5 + 3 * h
    OBVIOUS
  <2> QED
    BY <1>9, <1>9b, <1>10a, <1>11a, <2>1
<1>14. ASSUME NEW i \in 1..3 * h PROVE z[3 + i] = f[i]
  <2>1. 3 + i \in 1..3 + 3 * h /\ 3 + i \in 1..5 + 3 * h
    OBVIOUS
  <2> QED
    BY <1>9, <1>9b, <1>10a, <1>11a, <2>1
<1>15. ASSUME NEW i \in 1..2 PROVE z[3 + 3 * h + i] = c[i]
  <2>1. 3 + 3 * h + i \in 1..5 + 3 * h
    OBVIOUS
  <2> QED
    BY <1>9, <1>10a, <1>11a, <2>1
<1>16. ASSUME NEW k \in 1..h
       PROVE  z[3 * k + 1] = r.headers[k] /\ z[3 * k + 2] = "cr" /\ z[3 * k + 3] = "lf"
  <2>1. 3 * k - 2 \in 1..3 * h /\ 3 * k - 1 \in 1..3 * h /\ 3 * k \in 1..3 * h
    OBVIOUS
  <2>2. 3 + (3 * k - 2) = 3 * k + 1 /\ 3 + (3 * k - 1) = 3 * k + 2 /\ 3 + 3 * k = 3 * k + 3
    OBVIOUS
  <2>3. z[3 + (3 * k - 2)] = f[3 * k - 2] /\ z[3 + (3 * k - 1)] = f[3 * k - 1]
        /\ z[3 + 3 * k] = f[3 * k]
    BY <1>14, <2>1
  <2> QED
    BY <1>7b, <2>2, <2>3
<1>17. z[3 * h + 4] = "cr" /\ z[3 * h + 5] = "lf"
  <2>1. 1 \in 1..2 /\ 2 \in 1..2 /\ 3 + 3 * h + 1 = 3 * h + 4 /\ 3 + 3 * h + 2 = 3 * h + 5
    OBVIOUS
  <2>2. z[3 + 3 * h + 1] = c[1] /\ z[3 + 3 * h + 2] = c[2]
    BY <1>15, <2>1
  <2> QED
    BY <1>8a, <2>1, <2>2
<1>18. \A i \in 1..n : 5 + 3 * h + i = 3 * h + 5 + i
  OBVIOUS
<1>19. \A i \in 1..n : z[3 * h + 5 + i] = r.body[i]
  BY <1>4, <1>9, <1>11a, <1>18
<1>20. z[1] = r.line /\ z[2] = "cr" /\ z[3] = "lf"
  BY <1>5, <1>13
<1>21. Len(z) = 3 * h + 5 + n
  BY <1>9, <1>11a
<1> QED
  BY <1>2, <1>3, <1>12, <1>16, <1>17, <1>19, <1>20, <1>21, <1>11a DEF Layout

-----------------------------------------------------------------------------
(* The bytes of a script.                                                  *)

(***************************************************************************)
(* The request r lies in the bytes t behind the first p.                   *)
(***************************************************************************)
LiesAt(t, p, r, h) ==
  /\ t[p + 1] = r.line /\ t[p + 2] = "cr" /\ t[p + 3] = "lf"
  /\ \A k \in 1..h : /\ t[p + (3 * k + 1)] = r.headers[k]
                     /\ t[p + (3 * k + 2)] = "cr" /\ t[p + (3 * k + 3)] = "lf"
  /\ t[p + (3 * h + 4)] = "cr" /\ t[p + (3 * h + 5)] = "lf"
  /\ \A i \in 1..Len(r.body) : t[p + (3 * h + 5 + i)] = r.body[i]

(***************************************************************************)
(* The n requests of the script s lie in its stream one behind the other.  *)
(***************************************************************************)
LaidOut(s, n) ==
  /\ Stream(s) \in Seq(Tokens)
  /\ \A k \in 0..n : End(s, k) \in Nat
  /\ End(s, 0) = 0 /\ End(s, n) = Len(Stream(s))
  /\ \A d \in 0..n - 1 :
       /\ End(s, d + 1) = End(s, d) + (3 * Len(s[d + 1].headers) + 5 + Len(s[d + 1].body))
       /\ LiesAt(Stream(s), End(s, d), s[d + 1], Len(s[d + 1].headers))
  /\ \A j, k \in 0..n : j < k => End(s, j) < End(s, k)

(***************************************************************************)
(* A request whose bytes lie in the stream has its parts there.            *)
(***************************************************************************)
LEMMA LiesInStream ==
  ASSUME NEW t, NEW p \in Nat, NEW r, NEW h, NEW e, Layout(e, r, h),
         \A i \in 1..Len(e) : t[p + i] = e[i]
  PROVE  LiesAt(t, p, r, h)
<1>1. PICK b \in Nat : b = Len(r.body)
  BY DEF Layout
<1>2. h \in Nat /\ Len(e) = 3 * h + 5 + b
  BY <1>1 DEF Layout
<1>3. \A i \in 1..(3 * h + 5 + b) : t[p + i] = e[i]
  BY <1>2
<1>4. t[p + 1] = r.line /\ t[p + 2] = "cr" /\ t[p + 3] = "lf"
  <2>1. 1 \in 1..(3 * h + 5 + b) /\ 2 \in 1..(3 * h + 5 + b) /\ 3 \in 1..(3 * h + 5 + b)
    BY <1>2
  <2> QED
    BY <1>3, <2>1 DEF Layout
<1>5. ASSUME NEW k \in 1..h
      PROVE  /\ t[p + (3 * k + 1)] = r.headers[k]
             /\ t[p + (3 * k + 2)] = "cr" /\ t[p + (3 * k + 3)] = "lf"
  <2>1. 3 * k + 1 \in 1..(3 * h + 5 + b) /\ 3 * k + 2 \in 1..(3 * h + 5 + b)
        /\ 3 * k + 3 \in 1..(3 * h + 5 + b)
    BY <1>2
  <2> QED
    BY <1>3, <2>1 DEF Layout
<1>6. t[p + (3 * h + 4)] = "cr" /\ t[p + (3 * h + 5)] = "lf"
  <2>1. 3 * h + 4 \in 1..(3 * h + 5 + b) /\ 3 * h + 5 \in 1..(3 * h + 5 + b)
    BY <1>2
  <2> QED
    BY <1>3, <2>1 DEF Layout
<1>7. ASSUME NEW i \in 1..b PROVE t[p + (3 * h + 5 + i)] = r.body[i]
  <2>1. 3 * h + 5 + i \in 1..(3 * h + 5 + b)
    BY <1>2
  <2> QED
    BY <1>1, <1>3, <2>1 DEF Layout
<1> QED
  BY <1>1, <1>4, <1>5, <1>6, <1>7 DEF LiesAt

(***************************************************************************)
(* The stream of a script is its requests.                                 *)
(***************************************************************************)
LEMMA StreamLayout ==
  ASSUME NEW s \in Seq(Requests), NEW n \in Nat, n = Len(s)
  PROVE  LaidOut(s, n)
<1>1. DOMAIN s = 1..n /\ \A k \in 1..n : s[k] \in Requests
  OBVIOUS
<1>2. PICK e : e = [i \in 1..n |-> Encode(s[i])]
  OBVIOUS
<1>3. ASSUME NEW k \in 1..n PROVE Layout(e[k], s[k], Len(s[k].headers)) /\ e[k] \in Seq(Tokens)
  <2>1. e[k] = Encode(s[k])
    BY <1>2
  <2>2. Layout(Encode(s[k]), s[k], Len(s[k].headers))
    BY <1>1, EncodeLayout
  <2>3. Encode(s[k]) \in Seq(Tokens)
    BY <2>2 DEF Layout
  <2> QED
    BY <2>1, <2>2, <2>3
<1>4. e \in [1..n -> Seq(Tokens)]
  BY <1>2, <1>3
<1>5. e \in Seq(Seq(Tokens)) /\ Len(e) = n
  BY <1>4
<1>6. PICK g : Joins(g, e, n, Tokens)
  <2>1. n \in 0..Len(e)
    BY <1>5
  <2> QED
    BY <1>5, <2>1, JoinsExist
<1>7. Flattened(FlattenSeq(e), g, e, n, Tokens)
  BY <1>5, <1>6, FlattenLayout
<1>8. PICK t : t = Stream(s)
  OBVIOUS
<1>9. t = FlattenSeq(e)
  BY <1>1, <1>2, <1>8 DEF Stream
<1>10. ASSUME NEW k \in 0..n PROVE End(s, k) = Len(g[k])
  <2>1. PICK c : c = SubSeq(s, 1, k)
    OBVIOUS
  <2>2. k \in Nat /\ 0 <= k /\ k <= Len(s) /\ 0 + 1 = 1 /\ k - 0 = k
    OBVIOUS
  <2>3. c \in Seq(Requests) /\ Len(c) = k /\ \A i \in 1..k : c[i] = s[i]
    <3>1. /\ SubSeq(s, 0 + 1, k) \in Seq(Requests) /\ Len(SubSeq(s, 0 + 1, k)) = k - 0
          /\ \A i \in 1..k - 0 : SubSeq(s, 0 + 1, k)[i] = s[0 + i]
      BY <2>2, Part
    <3>2. \A i \in 1..k : 0 + i = i
      OBVIOUS
    <3> QED
      BY <2>1, <2>2, <3>1, <3>2
  <2>4. PICK d : d = SubSeq(e, 1, k)
    OBVIOUS
  <2>5. d \in Seq(Seq(Tokens)) /\ Len(d) = k /\ \A i \in 1..k : d[i] = e[i]
    <3>1. /\ SubSeq(e, 0 + 1, k) \in Seq(Seq(Tokens)) /\ Len(SubSeq(e, 0 + 1, k)) = k - 0
          /\ \A i \in 1..k - 0 : SubSeq(e, 0 + 1, k)[i] = e[0 + i]
      <4>1. k <= Len(e)
        BY <1>5
      <4> QED
        BY <1>5, <2>2, <4>1, Part
    <3>2. \A i \in 1..k : 0 + i = i
      OBVIOUS
    <3> QED
      BY <2>2, <2>4, <3>1, <3>2
  <2>6. DOMAIN c = 1..k
    BY <2>3
  <2>7. PICK x : x = [i \in 1..k |-> Encode(c[i])]
    OBVIOUS
  <2>8. \A i \in 1..k : i \in 1..n
    OBVIOUS
  <2>9. \A i \in 1..k : x[i] = d[i]
    BY <1>2, <2>3, <2>5, <2>7, <2>8
  <2>10. d = [i \in 1..k |-> d[i]]
    BY <2>5
  <2>11. x = d
    BY <2>7, <2>9, <2>10
  <2>12. Stream(c) = FlattenSeq(d)
    BY <2>6, <2>7, <2>11 DEF Stream
  <2>13. FlattenSeq(d) = g[k]
    BY <1>7, <2>4 DEF Flattened
  <2> QED
    BY <2>1, <2>12, <2>13 DEF End
<1>11. /\ \A k \in 0..n : g[k] \in Seq(Tokens) /\ Len(g[k]) \in Nat
       /\ t = g[n] /\ g[0] = << >>
       /\ \A k \in 1..n : /\ Len(g[k]) = Len(g[k - 1]) + Len(e[k])
                          /\ \A i \in 1..Len(e[k]) : t[Len(g[k - 1]) + i] = e[k][i]
  BY <1>7, <1>9 DEF Flattened
<1>12. t \in Seq(Tokens) /\ End(s, 0) = 0 /\ End(s, n) = Len(t)
  <2>1. 0 \in 0..n /\ n \in 0..n /\ Len(<< >>) = 0
    OBVIOUS
  <2> QED
    BY <1>10, <1>11, <2>1
<1>13. \A k \in 0..n : End(s, k) \in Nat
  BY <1>10, <1>11
<1>14. ASSUME NEW d \in 0..n - 1
       PROVE  /\ End(s, d + 1) = End(s, d) + (3 * Len(s[d + 1].headers) + 5 + Len(s[d + 1].body))
              /\ LiesAt(t, End(s, d), s[d + 1], Len(s[d + 1].headers))
              /\ End(s, d) < End(s, d + 1)
  <2>1. PICK k \in 1..n : k = d + 1 /\ k - 1 = d /\ d \in 0..n /\ k \in 0..n
    OBVIOUS
  <2>2. End(s, d) = Len(g[d]) /\ End(s, k) = Len(g[k]) /\ End(s, d) \in Nat
    BY <1>10, <1>13, <2>1
  <2>3. Layout(e[k], s[k], Len(s[k].headers))
    BY <1>3
  <2>4. \A i \in 1..Len(e[k]) : t[End(s, d) + i] = e[k][i]
    <3>1. PICK x \in Nat : x = End(s, d) /\ x = Len(g[k - 1])
      BY <2>1, <2>2
    <3>2. \A i \in 1..Len(e[k]) : t[Len(g[k - 1]) + i] = e[k][i]
      BY <1>11
    <3> QED
      BY <3>1, <3>2
  <2>5. LiesAt(t, End(s, d), s[k], Len(s[k].headers))
    BY <2>2, <2>3, <2>4, LiesInStream
  <2>6. End(s, k) = End(s, d) + Len(e[k])
    BY <1>11, <2>1, <2>2
  <2>7. PICK h \in Nat : h = Len(s[k].headers)
    BY <2>3 DEF Layout
  <2>8. PICK b \in Nat : b = Len(s[k].body)
    BY <2>3 DEF Layout
  <2>9. Len(e[k]) = 3 * h + 5 + b
    BY <2>3, <2>7, <2>8 DEF Layout
  <2>10. End(s, d) < End(s, k)
    <3>1. PICK x \in Nat : x = End(s, d)
      BY <2>2
    <3>2. x < x + (3 * h + 5 + b)
      OBVIOUS
    <3> QED
      BY <2>6, <2>9, <3>1, <3>2
  <2> QED
    BY <2>1, <2>5, <2>6, <2>7, <2>8, <2>9, <2>10
<1>15. ASSUME NEW j \in 0..n, NEW k \in 0..n, j < k PROVE End(s, j) < End(s, k)
  <2> DEFINE Bad == {m \in j + 1..n : ~(End(s, j) < End(s, m))}
  <2>1. ASSUME Bad # {} PROVE FALSE
    <3>1. Bad \in SUBSET Nat
      OBVIOUS
    <3>2. PICK m \in Bad : \A l \in Bad : m <= l
      BY <2>1, <3>1, LeastNatural
    <3>3. m \in j + 1..n /\ ~(End(s, j) < End(s, m))
      OBVIOUS
    <3>4. m - 1 \in 0..n - 1 /\ m - 1 + 1 = m /\ m \in 0..n /\ m - 1 \in 0..n /\ ~(m <= m - 1)
      BY <3>3
    <3>5. End(s, m - 1) < End(s, m)
      BY <1>14, <3>4
    <3>6. m # j + 1
      <4>1. CASE m = j + 1
        <5>1. m - 1 = j
          BY <4>1
        <5> QED
          BY <3>3, <3>5, <5>1
      <4> QED
        BY <4>1
    <3>7. m - 1 \in j + 1..n
      BY <3>3, <3>6
    <3>8. End(s, j) < End(s, m - 1)
      BY <3>2, <3>4, <3>7
    <3>9. End(s, j) \in Nat /\ End(s, m - 1) \in Nat /\ End(s, m) \in Nat
      BY <1>13, <3>4
    <3> QED
      BY <3>3, <3>5, <3>8, <3>9
  <2>2. k \in j + 1..n
    BY <1>15
  <2> QED
    BY <2>1, <2>2
<1> QED
  BY <1>8, <1>12, <1>13, <1>14, <1>15 DEF LaidOut

-----------------------------------------------------------------------------
(* The line at the front of the buffer.                                    *)

(***************************************************************************)
(* find_crlf() finds a CR that an LF follows.                              *)
(***************************************************************************)
LEMMA CrlfAt ==
  ASSUME buffer \in Seq(Tokens), NEW n \in Nat, n = Len(buffer)
  PROVE  Crlfs = {i \in 1..n - 1 : buffer[i] = "cr" /\ buffer[i + 1] = "lf"}
<1>1. ASSUME NEW i \in 1..n - 1
      PROVE  SubSeq(buffer, i, i + 1) = CRLF <=> buffer[i] = "cr" /\ buffer[i + 1] = "lf"
  <2>1. PICK m \in Nat : m + 1 = i /\ m + 2 = i + 1 /\ m <= i + 1 /\ i + 1 <= n
                         /\ i + 1 - m = 2 /\ i + 1 \in Nat
    <3>1. i - 1 \in Nat
      OBVIOUS
    <3> QED
      BY <3>1
  <2>2. PICK c : c = SubSeq(buffer, m + 1, i + 1)
    OBVIOUS
  <2>3. c \in Seq(Tokens) /\ Len(c) = 2 /\ \A k \in 1..2 : c[k] = buffer[m + k]
    BY <2>1, <2>2, Part
  <2>4. c[1] = buffer[i] /\ c[2] = buffer[i + 1]
    BY <2>1, <2>3
  <2>5. c = <<c[1], c[2]>>
    BY <2>3
  <2>6. c = CRLF <=> c[1] = "cr" /\ c[2] = "lf"
    BY <2>5 DEF CRLF
  <2> QED
    BY <2>1, <2>2, <2>4, <2>6
<1> QED
  BY <1>1 DEF Crlfs

(***************************************************************************)
(* The first of them.                                                      *)
(***************************************************************************)
LEMMA FirstCrlfIs ==
  ASSUME buffer \in Seq(Tokens), Crlfs # {}
  PROVE  /\ FirstCrlf \in Crlfs /\ \A j \in Crlfs : FirstCrlf <= j
         /\ FirstCrlf \in Nat /\ 1 <= FirstCrlf /\ FirstCrlf + 1 <= Len(buffer)
         /\ Len(buffer) \in Nat
<1>1. PICK n \in Nat : n = Len(buffer)
  OBVIOUS
<1>2. Crlfs = {i \in 1..n - 1 : buffer[i] = "cr" /\ buffer[i + 1] = "lf"}
  BY <1>1, CrlfAt
<1>3. Crlfs \in SUBSET Nat
  BY <1>2
<1>4. \E m \in Crlfs : \A j \in Crlfs : m <= j
  BY <1>3, LeastNatural
<1>5. FirstCrlf \in Crlfs /\ \A j \in Crlfs : FirstCrlf <= j
  BY <1>4, Zenon DEF FirstCrlf
<1>6. FirstCrlf \in 1..n - 1
  BY <1>2, <1>5
<1> QED
  BY <1>1, <1>5, <1>6

(***************************************************************************)
(* A line of one text.                                                     *)
(***************************************************************************)
LEMMA TextLine ==
  ASSUME buffer \in Seq(Tokens), NEW n \in Nat, n = Len(buffer), 3 <= n,
         buffer[1] # "cr", buffer[2] = "cr", buffer[3] = "lf"
  PROVE  /\ Crlfs # {} /\ Line = <<buffer[1]>>
         /\ AfterLine = SubSeq(buffer, 3 + 1, n)
<1>1. Crlfs = {i \in 1..n - 1 : buffer[i] = "cr" /\ buffer[i + 1] = "lf"}
  BY CrlfAt
<1>2. 2 \in Crlfs /\ 1 \notin Crlfs
  BY <1>1
<1>3. FirstCrlf \in Crlfs /\ FirstCrlf <= 2
  BY <1>2, FirstCrlfIs
<1>4. FirstCrlf = 2
  BY <1>1, <1>2, <1>3
<1>5. PICK c : c = SubSeq(buffer, 0 + 1, 1)
  OBVIOUS
<1>6. c \in Seq(Tokens) /\ Len(c) = 1 - 0 /\ \A i \in 1..1 - 0 : c[i] = buffer[0 + i]
  BY <1>5, Part
<1>7. c = <<buffer[1]>>
  <2>1. Len(c) = 1 /\ c[1] = buffer[1]
    BY <1>6
  <2>2. c = <<c[1]>>
    BY <1>6, <2>1
  <2> QED
    BY <2>1, <2>2
<1>8. FirstCrlf - 1 = 1 /\ FirstCrlf + 2 = 3 + 1 /\ 0 + 1 = 1
  BY <1>4
<1> QED
  BY <1>2, <1>5, <1>7, <1>8 DEF Line, AfterLine

(***************************************************************************)
(* A blank line.                                                           *)
(***************************************************************************)
LEMMA BlankLine ==
  ASSUME buffer \in Seq(Tokens), NEW n \in Nat, n = Len(buffer), 2 <= n,
         buffer[1] = "cr", buffer[2] = "lf"
  PROVE  /\ Crlfs # {} /\ Line = << >>
         /\ AfterLine = SubSeq(buffer, 2 + 1, n)
<1>1. Crlfs = {i \in 1..n - 1 : buffer[i] = "cr" /\ buffer[i + 1] = "lf"}
  BY CrlfAt
<1>2. 1 \in Crlfs
  BY <1>1
<1>3. FirstCrlf \in Crlfs /\ FirstCrlf <= 1
  BY <1>2, FirstCrlfIs
<1>4. FirstCrlf = 1
  BY <1>1, <1>3
<1>5. PICK c : c = SubSeq(buffer, 0 + 1, 0)
  OBVIOUS
<1>6. c \in Seq(Tokens) /\ Len(c) = 0 - 0
  BY <1>5, Part
<1>7. c = << >>
  BY <1>6
<1>8. FirstCrlf - 1 = 0 /\ FirstCrlf + 2 = 2 + 1 /\ 0 + 1 = 1
  BY <1>4
<1> QED
  BY <1>2, <1>5, <1>7, <1>8 DEF Line, AfterLine

(***************************************************************************)
(* Where there is a CRLF there is room for one, and for the text before.   *)
(***************************************************************************)
LEMMA CrlfRoom ==
  ASSUME buffer \in Seq(Tokens), NEW n \in Nat, n = Len(buffer), Crlfs # {}
  PROVE  2 <= n /\ (buffer[1] # "cr" => 3 <= n)
<1>1. Crlfs = {i \in 1..n - 1 : buffer[i] = "cr" /\ buffer[i + 1] = "lf"}
  BY CrlfAt
<1>2. PICK i \in 1..n - 1 : buffer[i] = "cr"
  BY <1>1
<1>3. buffer[1] # "cr" => i # 1
  BY <1>2
<1> QED
  BY <1>2, <1>3

(***************************************************************************)
(* AfterLine is a rest of the buffer.                                      *)
(***************************************************************************)
LEMMA AfterLineType ==
  ASSUME buffer \in Seq(Tokens), Crlfs # {}
  PROVE  AfterLine \in Seq(Tokens)
<1>1. PICK n \in Nat : n = Len(buffer)
  OBVIOUS
<1>2. PICK f \in Nat : f = FirstCrlf /\ f + 1 <= n
  BY <1>1, FirstCrlfIs
<1>3. (f + 1) + 1 = f + 2 /\ f + 1 \in Nat
  OBVIOUS
<1>4. SubSeq(buffer, (f + 1) + 1, n) \in Seq(Tokens)
  BY <1>1, <1>2, <1>3, Part
<1> QED
  BY <1>1, <1>2, <1>3, <1>4 DEF AfterLine

-----------------------------------------------------------------------------
(* Requests.                                                               *)

(***************************************************************************)
(* get_content_length() is a length.                                       *)
(***************************************************************************)
LEMMA ContentLengthIsNat ==
  ASSUME NEW r, r.headers \in Seq(Texts)
  PROVE  get_content_length(r) \in Nat
<1>1. PICK l : l = get_header(r, DOMAIN LengthOf)
  OBVIOUS
<1>2. l = {i \in DOMAIN r.headers : r.headers[i] \in DOMAIN LengthOf}
  BY <1>1 DEF get_header
<1>3. CASE l = {}
  BY <1>1, <1>3 DEF get_content_length
<1>4. CASE l # {}
  <2>1. l \in SUBSET Nat
    BY <1>2
  <2>2. PICK c : c = CHOOSE i \in l : \A j \in l : i <= j
    OBVIOUS
  <2>3. \E i \in l : \A j \in l : i <= j
    BY <1>4, <2>1, LeastNatural
  <2>4. c \in l
    BY <2>2, <2>3, Zenon
  <2>5. r.headers[c] \in DOMAIN LengthOf
    BY <1>2, <2>4
  <2>6. LengthOf[r.headers[c]] \in Nat
    BY <2>5, UsagesAssumption
  <2>7. get_content_length(r) = LengthOf[r.headers[c]]
    BY <1>1, <1>4, <2>2 DEF get_content_length
  <2> QED
    BY <2>6, <2>7
<1> QED
  BY <1>3, <1>4

(***************************************************************************)
(* It and keep_alive() look at the line and the headers only.              *)
(***************************************************************************)
LEMMA SameHeaders ==
  ASSUME NEW r, NEW q, r.headers = q.headers
  PROVE  /\ get_content_length(r) = get_content_length(q)
         /\ r.line = q.line => keep_alive(r) = keep_alive(q)
<1>1. get_content_length(r) = get_content_length(q)
  BY DEF get_content_length, get_header
<1>2. ASSUME r.line = q.line PROVE keep_alive(r) = keep_alive(q)
  BY <1>2 DEF keep_alive, ConnectionIs, get_header
<1> QED
  BY <1>1, <1>2

(***************************************************************************)
(* keep_alive() is what HTTP says, of a request with at most one           *)
(* Connection header.                                                      *)
(***************************************************************************)
LEMMA KeepAliveIsPersistent ==
  ASSUME NEW r, r.headers \in Seq(Texts),
         \A j, k \in get_header(r, ConnectionTexts) : j = k
  PROVE  keep_alive(r) <=> Persistent(r)
<1>1. PICK n \in Nat : n = Len(r.headers) /\ DOMAIN r.headers = 1..n
  OBVIOUS
<1>2. ASSUME NEW x \in ConnectionTexts
      PROVE  ConnectionIs(r, x) <=> \E i \in 1..n : r.headers[i] = x
  <2>1. ASSUME NEW i \in 1..n, r.headers[i] = x PROVE ConnectionIs(r, x)
    <3>1. i \in get_header(r, ConnectionTexts)
      BY <1>1, <2>1 DEF get_header
    <3>2. get_header(r, ConnectionTexts) = {i}
      BY <3>1
    <3> QED
      BY <1>1, <2>1, <3>2 DEF ConnectionIs
  <2>2. ASSUME ConnectionIs(r, x) PROVE \E i \in 1..n : r.headers[i] = x
    BY <1>1, <2>2 DEF ConnectionIs
  <2> QED
    BY <2>1, <2>2
<1>3. ASSUME NEW x PROVE Contains(r.headers, x) <=> \E i \in 1..n : r.headers[i] = x
  BY <1>1 DEF Contains
<1>4. /\ ConnectionIs(r, "close") <=> Contains(r.headers, "close")
      /\ ConnectionIs(r, "keep-alive") <=> Contains(r.headers, "keep-alive")
  BY <1>2, <1>3 DEF ConnectionTexts
<1> QED
  BY <1>4 DEF keep_alive, Persistent

-----------------------------------------------------------------------------
(* Responses.                                                              *)

(***************************************************************************)
(* A response on which a plain handler has made calls: what it says of the *)
(* connection is c, and its body is the length it says.                    *)
(***************************************************************************)
Said(r, close, c, body) ==
  /\ r = [close_connection_ |-> r.close_connection_, headers_ |-> r.headers_,
          body_ |-> r.body_]
  /\ r.close_connection_ = close /\ r.body_ = body /\ body \in Nat
  /\ r.headers_ = [f \in DOMAIN r.headers_ |-> r.headers_[f]]
  /\ "connection" \in DOMAIN r.headers_ /\ r.headers_["connection"] = <<c>>
  /\ IF body = 0 THEN "content-length" \notin DOMAIN r.headers_
     ELSE /\ "content-length" \in DOMAIN r.headers_
          /\ r.headers_["content-length"] = <<body>>

(***************************************************************************)
(* set_header() of a response.                                             *)
(***************************************************************************)
LEMMA SetHeader ==
  ASSUME NEW close, NEW hs, NEW b, NEW field, NEW value
  PROVE  Response!set_header([close_connection_ |-> close, headers_ |-> hs, body_ |-> b],
                             field, value)
           = [close_connection_ |-> close,
              headers_ |-> [f \in DOMAIN hs \cup {field} |->
                              IF f = field THEN <<value>> ELSE hs[f]],
              body_ |-> b]
BY DEF Response!set_header

(***************************************************************************)
(* add_header() of a field that frames nothing.                            *)
(***************************************************************************)
LEMMA SaidAddHeader ==
  ASSUME NEW r, NEW close, NEW c, NEW body, Said(r, close, c, body)
  PROVE  Said(Response!add_header(r, "other", "text"), close, c, body)
<1>1. PICK hs : hs = r.headers_
  OBVIOUS
<1>2. r = [close_connection_ |-> close, headers_ |-> hs, body_ |-> body]
  BY <1>1 DEF Said
<1>3. /\ "connection" \in DOMAIN hs /\ hs["connection"] = <<c>>
      /\ IF body = 0 THEN "content-length" \notin DOMAIN hs
         ELSE "content-length" \in DOMAIN hs /\ hs["content-length"] = <<body>>
      /\ hs = [f \in DOMAIN hs |-> hs[f]] /\ body \in Nat
  BY <1>1 DEF Said
<1>4. CASE "other" \in DOMAIN hs
  <2>1. Response!add_header(r, "other", "text")
          = [r EXCEPT !.headers_["other"] = Append(@, "text")]
    BY <1>1, <1>4 DEF Response!add_header, Response!has_header
  <2>2. PICK hh : hh = [hs EXCEPT !["other"] = Append(@, "text")]
    OBVIOUS
  <2>3. [r EXCEPT !.headers_["other"] = Append(@, "text")]
          = [close_connection_ |-> close, headers_ |-> hh, body_ |-> body]
    <3>1. [r EXCEPT !.headers_["other"] = Append(@, "text")]
            = [r EXCEPT !.headers_ = [r.headers_ EXCEPT !["other"] = Append(r.headers_["other"], "text")]]
      OBVIOUS
    <3>2. hh = [hs EXCEPT !["other"] = Append(hs["other"], "text")]
      BY <2>2
    <3>3. [r EXCEPT !.headers_["other"] = Append(@, "text")] = [r EXCEPT !.headers_ = hh]
      BY <1>1, <3>1, <3>2
    <3> QED
      BY <1>2, <3>3
  <2>4. /\ DOMAIN hh = DOMAIN hs
        /\ \A f \in DOMAIN hs : f # "other" => hh[f] = hs[f]
        /\ hh = [f \in DOMAIN hh |-> hh[f]]
    BY <1>3, <2>2
  <2>5. hh["connection"] = <<c>> /\ (body # 0 => hh["content-length"] = <<body>>)
    BY <1>3, <2>4
  <2> QED
    BY <1>3, <2>1, <2>3, <2>4, <2>5 DEF Said
<1>5. CASE "other" \notin DOMAIN hs
  <2>1. PICK hh : hh = [f \in DOMAIN hs \cup {"other"} |->
                          IF f = "other" THEN <<"text">> ELSE hs[f]]
    OBVIOUS
  <2>2. Response!add_header(r, "other", "text")
          = [close_connection_ |-> close, headers_ |-> hh, body_ |-> body]
    <3>1. Response!add_header(r, "other", "text") = Response!set_header(r, "other", "text")
      BY <1>1, <1>5 DEF Response!add_header, Response!has_header
    <3> QED
      BY <1>2, <2>1, <3>1, SetHeader
  <2>3. /\ DOMAIN hh = DOMAIN hs \cup {"other"}
        /\ \A f \in DOMAIN hs : f # "other" => hh[f] = hs[f]
        /\ hh = [f \in DOMAIN hh |-> hh[f]]
    BY <2>1
  <2>4. hh["connection"] = <<c>> /\ (body # 0 => hh["content-length"] = <<body>>)
    BY <1>3, <2>3
  <2> QED
    BY <1>3, <2>2, <2>3, <2>4 DEF Said
<1> QED
  BY <1>4, <1>5

(***************************************************************************)
(* set_body() and redirect() on a response without a body.                 *)
(***************************************************************************)
LEMMA SaidSetBody ==
  ASSUME NEW r, NEW close, NEW c, Said(r, close, c, 0), NEW n \in Nat, n > 0
  PROVE  Said(Response!set_body(r, n), close, c, n)
<1>1. PICK hs : hs = r.headers_
  OBVIOUS
<1>2. r = [close_connection_ |-> close, headers_ |-> hs, body_ |-> 0]
  BY <1>1 DEF Said
<1>3. /\ "connection" \in DOMAIN hs /\ hs["connection"] = <<c>>
      /\ "content-length" \notin DOMAIN hs
  BY <1>1 DEF Said
<1>4. PICK q : q = [close_connection_ |-> close, headers_ |-> hs, body_ |-> n]
  OBVIOUS
<1>5. [r EXCEPT !.body_ = n] = q
  BY <1>2, <1>4
<1>6. q.body_ = n /\ q.headers_ = hs
  BY <1>4
<1>7. Response!set_body(r, n) = Response!set_header(q, "content-length", n)
  <2>1. Response!set_body(r, n) = Response!ensure_content_length(q)
    BY <1>5 DEF Response!set_body
  <2> QED
    BY <1>3, <1>6, <2>1 DEF Response!ensure_content_length, Response!has_header
<1>8. PICK hh : hh = [f \in DOMAIN hs \cup {"content-length"} |->
                        IF f = "content-length" THEN <<n>> ELSE hs[f]]
  OBVIOUS
<1>9. Response!set_body(r, n) = [close_connection_ |-> close, headers_ |-> hh, body_ |-> n]
  BY <1>4, <1>7, <1>8, SetHeader
<1>10. /\ DOMAIN hh = DOMAIN hs \cup {"content-length"} /\ hh["content-length"] = <<n>>
       /\ hh["connection"] = <<c>> /\ hh = [f \in DOMAIN hh |-> hh[f]]
  BY <1>3, <1>8
<1> QED
  BY <1>3, <1>9, <1>10 DEF Said

(***************************************************************************)
(* redirect() adds a location and a body to a response that has none, and  *)
(* says of the connection what was said before.                            *)
(***************************************************************************)
LEMMA SaidRedirect ==
  ASSUME NEW r, NEW close, NEW c, Said(r, close, c, 0), NEW n \in Nat, n > 0
  PROVE  Said(Response!redirect(r, n), close, c, n)
<1>1. PICK hs : hs = r.headers_
  OBVIOUS
<1>2. r = [close_connection_ |-> close, headers_ |-> hs, body_ |-> 0]
  BY <1>1 DEF Said
<1>3. /\ "connection" \in DOMAIN hs /\ hs["connection"] = <<c>>
      /\ "content-length" \notin DOMAIN hs
  BY <1>1 DEF Said
<1>4. PICK hh : hh = [f \in DOMAIN hs \cup {"location"} |->
                        IF f = "location" THEN <<"url">> ELSE hs[f]]
  OBVIOUS
<1>5. PICK q : q = Response!set_header(r, "location", "url")
  OBVIOUS
<1>6. q = [close_connection_ |-> close, headers_ |-> hh, body_ |-> 0]
  BY <1>2, <1>4, <1>5, SetHeader
<1>7. /\ DOMAIN hh = DOMAIN hs \cup {"location"}
      /\ hh["connection"] = <<c>> /\ hh = [f \in DOMAIN hh |-> hh[f]]
  BY <1>3, <1>4
<1>8. Said(q, close, c, 0)
  BY <1>3, <1>6, <1>7 DEF Said
<1>9. Response!redirect(r, n) = Response!set_body(q, n)
  BY <1>5 DEF Response!redirect
<1> QED
  BY <1>8, <1>9, SaidSetBody

(***************************************************************************)
(* A response filled in by the calls of a handler one by one.              *)
(***************************************************************************)
Filled(a, filled, handler, n) ==
  /\ a = [i \in 0..n |-> a[i]]
  /\ \A i \in 0..n : a[i] = IF i = 0 THEN filled ELSE Response!Call(a[i - 1], handler[i])

(***************************************************************************)
(* Any handler's calls fill a response in.                                 *)
(***************************************************************************)
LEMMA FilledExists ==
  ASSUME NEW filled, NEW handler, NEW n \in Nat
  PROVE  \E a : Filled(a, filled, handler, n)
<1> DEFINE Bad == {k \in Nat : ~\E a : Filled(a, filled, handler, k)}
<1>1. ASSUME Bad # {} PROVE FALSE
  <2>1. Bad \in SUBSET Nat
    OBVIOUS
  <2>2. PICK k \in Bad : \A j \in Bad : k <= j
    BY <1>1, <2>1, LeastNatural
  <2>3. k \in Nat /\ ~\E a : Filled(a, filled, handler, k)
    OBVIOUS
  <2>4. ASSUME k = 0 PROVE FALSE
    <3>1. PICK a : a = [i \in 0..0 |-> filled]
      OBVIOUS
    <3>2. Filled(a, filled, handler, 0)
      BY <3>1 DEF Filled
    <3> QED
      BY <2>3, <2>4, <3>2
  <2>5. k - 1 \in Nat /\ ~(k <= k - 1)
    BY <2>3, <2>4
  <2>6. PICK b : Filled(b, filled, handler, k - 1)
    BY <2>2, <2>5
  <2>7. PICK a : a = [i \in 0..k |-> IF i = k THEN Response!Call(b[k - 1], handler[k]) ELSE b[i]]
    OBVIOUS
  <2>8. a = [i \in 0..k |-> a[i]]
    BY <2>7
  <2>9. ASSUME NEW i \in 0..k
        PROVE  a[i] = IF i = 0 THEN filled ELSE Response!Call(a[i - 1], handler[i])
    <3>1. CASE i = k
      <4>1. i # 0 /\ k - 1 \in 0..k /\ k - 1 # k
        BY <2>3, <2>4, <3>1
      <4>2. a[k - 1] = b[k - 1]
        BY <2>7, <4>1
      <4>3. a[k] = Response!Call(b[k - 1], handler[k])
        BY <2>7, <3>1
      <4> QED
        BY <3>1, <4>1, <4>2, <4>3
    <3>2. CASE i # k
      <4>1. i \in 0..k - 1
        BY <2>3, <3>2
      <4>2. a[i] = b[i]
        BY <2>7, <3>2
      <4>3. b[i] = IF i = 0 THEN filled ELSE Response!Call(b[i - 1], handler[i])
        BY <2>6, <4>1 DEF Filled
      <4>4. CASE i = 0
        BY <4>2, <4>3, <4>4
      <4>5. CASE i # 0
        <5>1. i - 1 \in 0..k /\ i - 1 # k
          BY <2>3, <4>5
        <5>2. a[i - 1] = b[i - 1]
          BY <2>7, <5>1
        <5> QED
          BY <4>2, <4>3, <4>5, <5>2
      <4> QED
        BY <4>4, <4>5
    <3> QED
      BY <3>1, <3>2
  <2>10. Filled(a, filled, handler, k)
    BY <2>8, <2>9 DEF Filled
  <2> QED
    BY <2>3, <2>10
<1> QED
  BY <1>1

(***************************************************************************)
(* What a plain handler makes of it.                                       *)
(***************************************************************************)
LEMMA FilledPlain ==
  ASSUME NEW filled, NEW close, NEW c, Said(filled, close, c, 0),
         NEW handler \in Seq(Response!Calls), Plain(handler),
         NEW n \in Nat, n = Len(handler), NEW a, Filled(a, filled, handler, n)
  PROVE  \E b \in Nat : b > 0 /\ Said(a[n], close, c, b)
<1>1. PICK k \in DOMAIN handler :
        /\ handler[k].op \in {"set_body", "redirect"} /\ handler[k].arg > 0
        /\ \A i \in DOMAIN handler \ {k} :
             handler[i].op = "add_header" /\ handler[i].arg = "other"
  BY DEF Plain
<1>2. k \in 1..n /\ DOMAIN handler = 1..n
  OBVIOUS
<1>3. handler[k] \in Response!Calls
  BY <1>2
<1>4. PICK b \in Nat : b = handler[k].arg /\ b > 0
  <2>1. handler[k].arg \in Nat
    BY <1>1, <1>3 DEF Response!Calls
  <2> QED
    BY <1>1, <2>1
<1> DEFINE Good(i) == Said(a[i], close, c, IF i < k THEN 0 ELSE b)
           Bad == {i \in 0..n : ~Good(i)}
<1>5. ASSUME Bad # {} PROVE FALSE
  <2>1. Bad \in SUBSET Nat
    OBVIOUS
  <2>2. PICK i \in Bad : \A j \in Bad : i <= j
    BY <1>5, <2>1, LeastNatural
  <2>3. i \in 0..n /\ ~Said(a[i], close, c, IF i < k THEN 0 ELSE b)
    OBVIOUS
  <2>4. i # 0
    <3>1. ASSUME i = 0 PROVE FALSE
      <4>1. a[0] = filled /\ 0 < k
        BY <1>2, <2>3, <3>1 DEF Filled
      <4> QED
        BY <2>3, <3>1, <4>1
    <3> QED
      BY <3>1
  <2>5. i \in 1..n /\ i - 1 \in 0..n /\ ~(i <= i - 1)
    BY <2>3, <2>4
  <2>6. Said(a[i - 1], close, c, IF i - 1 < k THEN 0 ELSE b)
    BY <2>2, <2>5
  <2>7. a[i] = Response!Call(a[i - 1], handler[i])
    BY <2>3, <2>4 DEF Filled
  <2>8. CASE i = k
    <3>1. i - 1 < k /\ ~(i < k)
      BY <1>2, <2>8
    <3>2. Said(a[i - 1], close, c, 0)
      BY <2>6, <3>1
    <3>3. CASE handler[k].op = "set_body"
      <4>1. a[i] = Response!set_body(a[i - 1], b)
        BY <1>4, <2>7, <2>8, <3>3 DEF Response!Call
      <4>2. Said(a[i], close, c, b)
        BY <1>4, <3>2, <4>1, SaidSetBody
      <4> QED
        BY <2>3, <3>1, <4>2
    <3>4. CASE handler[k].op = "redirect"
      <4>1. a[i] = Response!redirect(a[i - 1], b)
        BY <1>4, <2>7, <2>8, <3>4 DEF Response!Call
      <4>2. Said(a[i], close, c, b)
        BY <1>4, <3>2, <4>1, SaidRedirect
      <4> QED
        BY <2>3, <3>1, <4>2
    <3> QED
      BY <1>1, <3>3, <3>4
  <2>9. CASE i # k
    <3>1. i - 1 < k <=> i < k
      BY <1>2, <2>5, <2>9
    <3>2. handler[i].op = "add_header" /\ handler[i].arg = "other"
      BY <1>1, <1>2, <2>5, <2>9
    <3>3. a[i] = Response!add_header(a[i - 1], "other", "text")
      BY <2>7, <3>2 DEF Response!Call
    <3>4. PICK body : body = IF i < k THEN 0 ELSE b
      OBVIOUS
    <3>5. Said(a[i - 1], close, c, body)
      BY <2>6, <3>1, <3>4
    <3>6. Said(a[i], close, c, body)
      BY <3>3, <3>5, SaidAddHeader
    <3> QED
      BY <2>3, <3>4, <3>6
  <2> QED
    BY <2>8, <2>9
<1>6. n \in 0..n /\ ~(n < k)
  BY <1>2
<1>7. Said(a[n], close, c, IF n < k THEN 0 ELSE b)
  BY <1>5, <1>6
<1> QED
  BY <1>4, <1>6, <1>7

(***************************************************************************)
(* What on_request() says before the handler.                              *)
(***************************************************************************)
LEMMA FirstSaid ==
  ASSUME NEW close, NEW c
  PROVE  Said(Response!set_header(Response!set_close_connection(Response!NewResponse, close),
                                  "connection", c), close, c, 0)
<1>1. PICK e : e = << >>
  OBVIOUS
<1>2. Response!set_close_connection(Response!NewResponse, close)
        = [close_connection_ |-> close, headers_ |-> e, body_ |-> 0]
  BY <1>1 DEF Response!set_close_connection, Response!NewResponse
<1>3. PICK hh : hh = [f \in DOMAIN e \cup {"connection"} |->
                        IF f = "connection" THEN <<c>> ELSE e[f]]
  OBVIOUS
<1>4. PICK g : g = Response!set_header(
                     Response!set_close_connection(Response!NewResponse, close),
                     "connection", c)
  OBVIOUS
<1>5. g = [close_connection_ |-> close, headers_ |-> hh, body_ |-> 0]
  BY <1>2, <1>3, <1>4, SetHeader
<1>6. DOMAIN hh = {"connection"} /\ hh["connection"] = <<c>>
      /\ hh = [f \in DOMAIN hh |-> hh[f]]
  BY <1>1, <1>3
<1> QED
  BY <1>4, <1>5, <1>6 DEF Said

(***************************************************************************)
(* The connection line behind the Connection header.                       *)
(***************************************************************************)
LEMMA Twice ==
  ASSUME NEW c
  PROVE  Append(<<c>>, c) = <<c, c>>
<1>1. PICK s : s = <<c>>
  OBVIOUS
<1>2. s \in Seq({c}) /\ Len(s) = 1 /\ s[1] = c
  BY <1>1
<1>3. PICK u : u = Append(s, c)
  OBVIOUS
<1>4. u \in Seq({c}) /\ Len(u) = 2 /\ u[1] = c /\ u[2] = c
  <2>1. PICK T : T = {c}
    OBVIOUS
  <2>2. s \in Seq(T) /\ c \in T
    BY <1>2, <2>1
  <2>3. u \in Seq(T)
    BY <1>3, <2>2
  <2>4. Len(u) = Len(s) + 1 /\ u[Len(s) + 1] = c
    BY <1>3, <2>2
  <2>5. u[1] = s[1]
    BY <1>2, <1>3, <2>2
  <2> QED
    BY <1>2, <2>1, <2>3, <2>4, <2>5
<1>5. u = <<u[1], u[2]>>
  BY <1>4
<1> QED
  BY <1>1, <1>3, <1>4, <1>5

(***************************************************************************)
(* The response on_request() sends for a plain handler ends the connection *)
(* if the server does, says so twice, and has the length of its body.      *)
(***************************************************************************)
LEMMA PlainReply ==
  ASSUME usage.handler \in Seq(Response!Calls), Plain(usage.handler),
         NEW close \in BOOLEAN, close = (~keep_alive(request) \/ ~usage.keep_alive_enabled_),
         NEW c, c = IF close THEN "close" ELSE "keep-alive"
  PROVE  /\ Reply.close_connection_ = close
         /\ Response!append_to_buffer(Reply).connection = <<c, c>>
         /\ Response!append_to_buffer(Reply).length
              = <<Response!append_to_buffer(Reply).body>>
<1> DEFINE filled == Response!set_header(
                       Response!set_close_connection(Response!NewResponse,
                         ~keep_alive(request) \/ ~usage.keep_alive_enabled_),
                       "connection",
                       IF ~keep_alive(request) \/ ~usage.keep_alive_enabled_
                         THEN "close" ELSE "keep-alive")
           after[i \in 0..Len(usage.handler)] ==
             IF i = 0 THEN filled ELSE Response!Call(after[i - 1], usage.handler[i])
<1>1. Reply = after[Len(usage.handler)]
  BY DEF Reply
<1>2. PICK g : g = filled
  OBVIOUS
<1>3. Said(g, close, c, 0)
  <2>1. Said(Response!set_header(Response!set_close_connection(Response!NewResponse, close),
                                "connection", c), close, c, 0)
    BY FirstSaid
  <2> QED
    BY <1>2, <2>1
<1>4. PICK n \in Nat : n = Len(usage.handler)
  OBVIOUS
<1>5. PICK a : Filled(a, g, usage.handler, n)
  BY <1>4, FilledExists
<1>6. a = [i \in 0..Len(usage.handler) |->
             IF i = 0 THEN g ELSE Response!Call(a[i - 1], usage.handler[i])]
  BY <1>4, <1>5 DEF Filled
<1>7. a = [i \in 0..Len(usage.handler) |->
             IF i = 0 THEN filled ELSE Response!Call(a[i - 1], usage.handler[i])]
  BY <1>2, <1>6, Zenon
<1> HIDE DEF filled
<1>8. after = [i \in 0..Len(usage.handler) |->
                 IF i = 0 THEN filled ELSE Response!Call(after[i - 1], usage.handler[i])]
  BY <1>7, Zenon
<1> HIDE DEF after
<1>9. Filled(after, g, usage.handler, n)
  BY <1>2, <1>4, <1>8 DEF Filled
<1>10. PICK b \in Nat : b > 0 /\ Said(after[n], close, c, b)
  BY <1>3, <1>4, <1>9, FilledPlain
<1>11. PICK r : r = Reply
  OBVIOUS
<1>12. Said(r, close, c, b)
  BY <1>1, <1>4, <1>10, <1>11
<1>13. /\ r.close_connection_ = close /\ r.body_ = b
       /\ "connection" \in DOMAIN r.headers_ /\ r.headers_["connection"] = <<c>>
       /\ "content-length" \in DOMAIN r.headers_ /\ r.headers_["content-length"] = <<b>>
  BY <1>10, <1>12 DEF Said
<1>14. /\ Response!Values(r, "connection") = <<c>>
       /\ Response!Values(r, "content-length") = <<b>>
  BY <1>13 DEF Response!Values, Response!has_header
<1>15. Append(<<c>>, c) = <<c, c>>
  BY Twice
<1>16. Response!append_to_buffer(r)
         = [length |-> <<b>>, connection |-> <<c, c>>, body |-> b]
  BY <1>13, <1>14, <1>15 DEF Response!append_to_buffer
<1> QED
  BY <1>11, <1>13, <1>16

-----------------------------------------------------------------------------
(* What lies ahead of the parser.                                          *)

(***************************************************************************)
(* The script and its stream.                                              *)
(***************************************************************************)
LEMMA ScriptFacts ==
  ASSUME TypeOK
  PROVE  /\ script \in Seq(Requests) /\ Len(script) \in Nat /\ done \in Nat
         /\ answered \in Nat
         /\ DOMAIN script = 1..Len(script) /\ LaidOut(script, Len(script))
         /\ \A i \in 1..Len(script) :
              script[i] \in Requests /\ Len(script[i].body) = get_content_length(script[i])
         /\ usage.handler \in Seq(Response!Calls)
         /\ usage.keep_request \in BOOLEAN /\ usage.whole_segments \in BOOLEAN
         /\ usage.pipelined \in BOOLEAN /\ usage.keep_alive_enabled_ \in BOOLEAN
<1>1. PICK u \in Usages : u = usage
  BY DEF TypeOK
<1>2. /\ u.script \in Seq(Requests)
      /\ \A i \in DOMAIN u.script : Len(u.script[i].body) = get_content_length(u.script[i])
      /\ u.handler \in Seq(Response!Calls)
      /\ {u.keep_request, u.whole_segments, u.pipelined, u.keep_alive_enabled_} \subseteq BOOLEAN
  BY UsagesAssumption
<1>3. PICK n \in Nat : n = Len(u.script) /\ DOMAIN u.script = 1..n
  BY <1>2
<1>4. LaidOut(u.script, n)
  BY <1>2, <1>3, StreamLayout
<1>5. \A i \in 1..n : u.script[i] \in Requests
  BY <1>2, <1>3
<1>6. /\ u.keep_request \in BOOLEAN /\ u.whole_segments \in BOOLEAN
      /\ u.pipelined \in BOOLEAN /\ u.keep_alive_enabled_ \in BOOLEAN
  BY <1>2
<1>7. done \in Nat
  <2>1. PICK S : served \in Seq(S)
    BY DEF TypeOK
  <2> QED
    BY <2>1 DEF done
<1>8. answered \in Nat
  <2>1. PICK S : replies \in Seq(S)
    BY DEF TypeOK
  <2> QED
    BY <2>1 DEF answered
<1>9. script = u.script
  BY <1>1 DEF script
<1> QED
  BY <1>1, <1>2, <1>3, <1>4, <1>5, <1>6, <1>7, <1>8, <1>9

(***************************************************************************)
(* The request the parser is in.                                           *)
(***************************************************************************)
LEMMA CurrentFacts ==
  ASSUME TypeOK, done < Len(script)
  PROVE  /\ Current \in Requests /\ Current.line \in Texts
         /\ Current.headers \in Seq(Texts) /\ Current.body \in Seq(Tokens)
         /\ Len(Current.headers) \in Nat /\ Len(Current.body) \in Nat
         /\ Len(Current.body) = get_content_length(Current)
         /\ done + 1 \in 1..Len(script) /\ End(script, done) \in Nat
         /\ End(script, done + 1)
              = End(script, done) + (3 * Len(Current.headers) + 5 + Len(Current.body))
         /\ LiesAt(Stream(script), End(script, done), Current, Len(Current.headers))
<1>1. /\ Len(script) \in Nat /\ done \in Nat /\ LaidOut(script, Len(script))
      /\ \A i \in 1..Len(script) :
           script[i] \in Requests /\ Len(script[i].body) = get_content_length(script[i])
  BY ScriptFacts
<1>2. done + 1 \in 1..Len(script) /\ done \in 0..Len(script) - 1 /\ done \in 0..Len(script)
  BY <1>1
<1>3. Current \in Requests /\ Len(Current.body) = get_content_length(Current)
  BY <1>1, <1>2 DEF Current
<1>4. /\ Current.line \in Texts /\ Current.headers \in Seq(Texts) /\ Current.body \in Seq(Tokens)
  BY <1>3 DEF Requests
<1>5. Len(Current.headers) \in Nat /\ Len(Current.body) \in Nat
  BY <1>4
<1>6. End(script, done) \in Nat
  BY <1>1, <1>2 DEF LaidOut
<1>7. /\ End(script, done + 1)
           = End(script, done) + (3 * Len(Current.headers) + 5 + Len(Current.body))
      /\ LiesAt(Stream(script), End(script, done), Current, Len(Current.headers))
  BY <1>1, <1>2 DEF LaidOut, Current
<1> QED
  BY <1>2, <1>3, <1>4, <1>5, <1>6, <1>7

(***************************************************************************)
(* A text and a CRLF lie ahead, or as much of them as has arrived.         *)
(***************************************************************************)
LEMMA TextAhead ==
  ASSUME buffer \in Seq(Tokens), NEW n \in Nat, n = Len(buffer), NEW x \in Texts,
         1 <= n => buffer[1] = x,
         3 <= n => buffer[2] = "cr" /\ buffer[3] = "lf"
  PROVE  /\ Crlfs # {} <=> 3 <= n
         /\ 3 <= n => Line = <<x>> /\ AfterLine = SubSeq(buffer, 3 + 1, n)
<1>1. x # "cr"
  BY UsagesAssumption
<1>2. ASSUME 3 <= n
      PROVE  Crlfs # {} /\ Line = <<x>> /\ AfterLine = SubSeq(buffer, 3 + 1, n)
  <2>1. 1 <= n /\ buffer[1] = x /\ buffer[2] = "cr" /\ buffer[3] = "lf"
    BY <1>2
  <2> QED
    BY <1>1, <1>2, <2>1, TextLine
<1>3. ASSUME Crlfs # {} PROVE 3 <= n
  <2>1. 2 <= n /\ (buffer[1] # "cr" => 3 <= n)
    BY <1>3, CrlfRoom
  <2>2. buffer[1] # "cr"
    BY <1>1, <2>1
  <2> QED
    BY <2>1, <2>2
<1> QED
  BY <1>2, <1>3

(***************************************************************************)
(* A blank line lies ahead.                                                *)
(***************************************************************************)
LEMMA BlankAhead ==
  ASSUME buffer \in Seq(Tokens), NEW n \in Nat, n = Len(buffer),
         1 <= n => buffer[1] = "cr",
         2 <= n => buffer[2] = "lf"
  PROVE  /\ Crlfs # {} <=> 2 <= n
         /\ 2 <= n => Line = << >> /\ AfterLine = SubSeq(buffer, 2 + 1, n)
<1>1. ASSUME 2 <= n
      PROVE  Crlfs # {} /\ Line = << >> /\ AfterLine = SubSeq(buffer, 2 + 1, n)
  <2>1. buffer[1] = "cr" /\ buffer[2] = "lf"
    BY <1>1
  <2> QED
    BY <1>1, <2>1, BlankLine
<1>2. ASSUME Crlfs # {} PROVE 2 <= n
  BY <1>2, CrlfRoom
<1> QED
  BY <1>1, <1>2

(***************************************************************************)
(* The request line lies ahead of a parser that begins.                    *)
(***************************************************************************)
LEMMA LineAhead ==
  ASSUME TypeOK, done < Len(script), NEW p \in Nat, AtLine(p), Unread(p),
         NEW n \in Nat, n = Len(buffer)
  PROVE  /\ Crlfs # {} <=> 3 <= n
         /\ 3 <= n => Line = <<Current.line>> /\ AfterLine = SubSeq(buffer, 3 + 1, n)
<1>1. /\ Current.line \in Texts /\ p = End(script, done)
      /\ LiesAt(Stream(script), p, Current, Len(Current.headers))
  BY CurrentFacts DEF AtLine
<1>2. \A i \in 1..n : buffer[i] = Stream(script)[p + i]
  BY DEF Unread
<1>3. 1 <= n => buffer[1] = Current.line
  BY <1>1, <1>2 DEF LiesAt
<1>4. 3 <= n => buffer[2] = "cr" /\ buffer[3] = "lf"
  <2>1. Stream(script)[p + 2] = "cr" /\ Stream(script)[p + 3] = "lf"
    BY <1>1 DEF LiesAt
  <2>2. 3 <= n => 2 \in 1..n /\ 3 \in 1..n
    OBVIOUS
  <2> QED
    BY <1>2, <2>1, <2>2
<1>5. buffer \in Seq(Tokens)
  BY DEF TypeOK
<1> QED
  BY <1>1, <1>3, <1>4, <1>5, TextAhead

(***************************************************************************)
(* The next header lies ahead, or the blank line.                          *)
(***************************************************************************)
LEMMA HeaderAhead ==
  ASSUME TypeOK, done < Len(script), NEW p \in Nat, AtHeaders(p), Unread(p),
         NEW n \in Nat, n = Len(buffer), NEW k \in Nat, k = Len(request.headers)
  PROVE  /\ k < Len(Current.headers) =>
              /\ Crlfs # {} <=> 3 <= n
              /\ 3 <= n => /\ Line = <<Current.headers[k + 1]>>
                           /\ AfterLine = SubSeq(buffer, 3 + 1, n)
         /\ k = Len(Current.headers) =>
              /\ Crlfs # {} <=> 2 <= n
              /\ 2 <= n => Line = << >> /\ AfterLine = SubSeq(buffer, 2 + 1, n)
<1>1. PICK q \in Nat : q = End(script, done)
  BY CurrentFacts
<1>2. PICK h \in Nat : h = Len(Current.headers)
  BY CurrentFacts
<1>3. p = q + 3 + 3 * k
  BY <1>1 DEF AtHeaders
<1>4. LiesAt(Stream(script), q, Current, h)
  BY <1>1, <1>2, CurrentFacts
<1>5. \A i \in 1..n : buffer[i] = Stream(script)[p + i]
  BY DEF Unread
<1>6. buffer \in Seq(Tokens)
  BY DEF TypeOK
<1>7. ASSUME k < h
      PROVE  /\ Crlfs # {} <=> 3 <= n
             /\ 3 <= n => /\ Line = <<Current.headers[k + 1]>>
                          /\ AfterLine = SubSeq(buffer, 3 + 1, n)
  <2>1. k + 1 \in 1..h /\ p + 1 = q + (3 * (k + 1) + 1) /\ p + 2 = q + (3 * (k + 1) + 2)
        /\ p + 3 = q + (3 * (k + 1) + 3)
    <3>1. PICK kk \in Nat : kk = k
      OBVIOUS
    <3>2. kk < h
      BY <1>7, <3>1
    <3>3. p = q + 3 + 3 * kk
      BY <1>3, <3>1
    <3>4. kk + 1 \in 1..h
      BY <3>2
    <3>5. p + 1 = q + (3 * (kk + 1) + 1)
      BY <3>3
    <3>6. p + 2 = q + (3 * (kk + 1) + 2)
      BY <3>3
    <3>7. p + 3 = q + (3 * (kk + 1) + 3)
      BY <3>3
    <3> QED
      BY <3>1, <3>4, <3>5, <3>6, <3>7
  <2>2. /\ Stream(script)[p + 1] = Current.headers[k + 1]
        /\ Stream(script)[p + 2] = "cr" /\ Stream(script)[p + 3] = "lf"
    BY <1>4, <2>1 DEF LiesAt
  <2>3. Current.headers[k + 1] \in Texts
    BY <1>2, <2>1, CurrentFacts
  <2>4. (1 <= n => buffer[1] = Current.headers[k + 1])
        /\ (3 <= n => buffer[2] = "cr" /\ buffer[3] = "lf")
    BY <1>5, <2>2
  <2> QED
    BY <1>6, <2>3, <2>4, TextAhead
<1>8. ASSUME k = h
      PROVE  /\ Crlfs # {} <=> 2 <= n
             /\ 2 <= n => Line = << >> /\ AfterLine = SubSeq(buffer, 2 + 1, n)
  <2>1. p + 1 = q + (3 * h + 4) /\ p + 2 = q + (3 * h + 5)
    BY <1>3, <1>8
  <2>2. Stream(script)[p + 1] = "cr" /\ Stream(script)[p + 2] = "lf"
    BY <1>4, <2>1 DEF LiesAt
  <2>3. (1 <= n => buffer[1] = "cr") /\ (2 <= n => buffer[2] = "lf")
    BY <1>5, <2>2
  <2> QED
    BY <1>6, <2>3, BlankAhead
<1> QED
  BY <1>2, <1>7, <1>8

(***************************************************************************)
(* retrieve(): m bytes leave the buffer.                                   *)
(***************************************************************************)
LEMMA Retrieve ==
  ASSUME TypeOK, NEW p \in Nat, p <= arrived, Unread(p), NEW n \in Nat, n = Len(buffer),
         NEW m \in Nat, m <= n, buffer' = SubSeq(buffer, m + 1, n),
         arrived' = arrived, usage' = usage
  PROVE  p + m \in Nat /\ p + m <= arrived' /\ Unread(p + m)' /\ buffer' \in Seq(Tokens)
<1>1. arrived \in Nat /\ n = arrived - p /\ buffer \in Seq(Tokens)
  BY DEF TypeOK, Unread
<1>2. p + m \in Nat /\ p + m <= arrived
  BY <1>1
<1>3. /\ buffer' \in Seq(Tokens) /\ Len(buffer') = n - m
      /\ \A i \in 1..n - m : buffer'[i] = buffer[m + i]
  <2>1. PICK b \in Seq(Tokens) : b = buffer /\ Len(b) = n
    BY <1>1
  <2>2. /\ SubSeq(b, m + 1, n) \in Seq(Tokens) /\ Len(SubSeq(b, m + 1, n)) = n - m
        /\ \A i \in 1..n - m : SubSeq(b, m + 1, n)[i] = b[m + i]
    BY <2>1, Part
  <2> QED
    BY <2>1, <2>2
<1>4. \A i \in 1..n : buffer[i] = Stream(script)[p + i]
  BY DEF Unread
<1>5. ASSUME NEW i \in 1..n - m PROVE buffer'[i] = Stream(script)[p + m + i]
  <2>1. m + i \in 1..n /\ p + (m + i) = p + m + i
    OBVIOUS
  <2> QED
    BY <1>3, <1>4, <2>1
<1>6. n - m = arrived - (p + m)
  BY <1>1
<1>7. script' = script
  BY DEF script
<1>8. Len(buffer') = arrived' - (p + m)
  BY <1>3, <1>6
<1>9. \A i \in 1..Len(buffer') : buffer'[i] = Stream(script')[p + m + i]
  BY <1>3, <1>5, <1>7
<1> QED
  BY <1>2, <1>3, <1>8, <1>9 DEF Unread

-----------------------------------------------------------------------------
(* The steps of parse_request().                                           *)

(***************************************************************************)
(* A step that touches neither the connection nor its history leaves what  *)
(* the invariant says of them.                                             *)
(***************************************************************************)
LEMMA HistoryKept ==
  ASSUME HttpInv, UNCHANGED <<usage, conn, served, replies>>
  PROVE  /\ AnsweredInv' /\ KeepAliveInv' /\ FramedInv'
         /\ InPlace' = InPlace /\ script' = script /\ done' = done /\ Current' = Current
         /\ answered' = answered
<1>1. script' = script /\ done' = done /\ answered' = answered
  BY DEF script, done, answered
<1>2. Current' = Current
  BY <1>1 DEF Current
<1>3. KeepsPlace' = KeepsPlace /\ AllWellFormed' = AllWellFormed
  BY <1>1 DEF KeepsPlace, AllWellFormed
<1>4. InPlace' = InPlace
  BY <1>3 DEF InPlace
<1>5. AnsweredInv'
  <2>1. AnsweredInv
    BY DEF HttpInv
  <2> QED
    BY <1>1, <1>3, <1>4, <2>1 DEF AnsweredInv
<1>6. Supported' = Supported
  BY <1>1, <1>3 DEF Supported
<1>7. OneConnectionHeader' = OneConnectionHeader
  BY <1>1 DEF OneConnectionHeader
<1>8. KeepAliveInv'
  <2>1. KeepAliveInv
    BY DEF HttpInv
  <2> QED
    BY <1>1, <1>6, <1>7, <2>1 DEF KeepAliveInv, EndsAfter
<1>9. FramedInv'
  <2>1. FramedInv
    BY DEF HttpInv
  <2> QED
    BY <1>1, <1>6, <2>1 DEF FramedInv
<1> QED
  BY <1>1, <1>2, <1>4, <1>5, <1>8, <1>9

(***************************************************************************)
(* A step inside the loop leaves what has arrived.                         *)
(***************************************************************************)
LEMMA ArrivedKept ==
  ASSUME HttpInv, UNCHANGED <<usage, arrived, conn, served, replies>>,
         pc = "parse", pc' # "wait"
  PROVE  ArrivedInv'
<1>1. /\ InPlace' = InPlace /\ script' = script /\ done' = done /\ answered' = answered
  BY HistoryKept
<1>2. ArrivedInv
  BY DEF HttpInv
<1> QED
  BY <1>1, <1>2 DEF ArrivedInv

(***************************************************************************)
(* The parser is in one place.                                             *)
(***************************************************************************)
LEMMA OneState ==
  ASSUME NEW p
  PROVE  /\ AtLine(p) => request.state = "PARSE_REQUEST_LINE"
         /\ AtHeaders(p) => request.state = "PARSE_HEADERS"
         /\ AtBody(p) => request.state = "PARSE_BODY"
         /\ AtEnd(p) => request.state = "PARSE_COMPLETE"
<1>1. FreshRequest.state = "PARSE_REQUEST_LINE"
  BY DEF FreshRequest
<1>2. AtLine(p) => request = FreshRequest
  BY DEF AtLine
<1>3. AtHeaders(p) => request.state = "PARSE_HEADERS"
  BY DEF AtHeaders
<1>4. AtBody(p) => request.state = "PARSE_BODY"
  BY DEF AtBody
<1>5. AtEnd(p) => request.state = "PARSE_COMPLETE"
  BY DEF AtEnd
<1> QED
  BY <1>1, <1>2, <1>3, <1>4, <1>5, Zenon

(***************************************************************************)
(* A line of one text is what the text is.                                 *)
(***************************************************************************)
LEMMA OneText ==
  ASSUME NEW x, Line = <<x>>
  PROVE  /\ RequestLineAt # {} <=> x \in RequestLines
         /\ \A i \in RequestLineAt : i = 1 /\ Line[i] = x
         /\ HeaderAt # {} <=> x \in HeaderTexts
         /\ HeaderAt # {} => HeaderRead = x
<1>1. PICK l : l = Line
  OBVIOUS
<1>2. DOMAIN l = {1} /\ l[1] = x /\ Len(l) = 1
  BY <1>1
<1>3. RequestLineAt = {i \in DOMAIN l : /\ l[i] \in RequestLines
                                       /\ \A j \in 1..i - 1 : l[j] \in {"cr", "lf"}
                                       /\ i < Len(l) => l[i + 1] \in {"cr", "lf"}}
  BY <1>1 DEF RequestLineAt
<1>4. HeaderAt = {i \in DOMAIN l : l[i] \in HeaderTexts}
  BY <1>1 DEF HeaderAt
<1>5. ASSUME x \in RequestLines PROVE 1 \in RequestLineAt
  <2>1. 1 \in DOMAIN l /\ l[1] \in RequestLines
    BY <1>2, <1>5
  <2>2. (\A j \in 1..1 - 1 : FALSE) /\ ~(1 < 1)
    OBVIOUS
  <2> QED
    BY <1>2, <1>3, <2>1, <2>2
<1>6. ASSUME NEW i \in RequestLineAt PROVE i = 1 /\ Line[i] = x /\ x \in RequestLines
  BY <1>1, <1>2, <1>3, <1>6
<1>7. 1 \in HeaderAt <=> x \in HeaderTexts
  BY <1>2, <1>4
<1>8. HeaderAt # {} => 1 \in HeaderAt
  BY <1>2, <1>4
<1>9. 1 \in HeaderAt => HeaderRead = x
  BY <1>1, <1>2 DEF HeaderRead
<1> QED
  BY <1>5, <1>6, <1>7, <1>8, <1>9

(***************************************************************************)
(* parse_request_line(): the line of the request that lies ahead.          *)
(***************************************************************************)
LEMMA RequestLineStep ==
  ASSUME HttpInv, parse_request_line
  PROVE  HttpInv'
<1>1. /\ pc = "parse" /\ request.state = "PARSE_REQUEST_LINE" /\ Crlfs # {}
      /\ buffer' = AfterLine
      /\ UNCHANGED <<usage, arrived, conn, served, replies>>
  BY DEF parse_request_line
<1>2. /\ AnsweredInv' /\ KeepAliveInv' /\ FramedInv'
      /\ InPlace' = InPlace /\ script' = script /\ done' = done /\ Current' = Current
  BY <1>1, HistoryKept
<1>3. TypeOK /\ ServedInv /\ PlaceInv
  BY DEF HttpInv
<1>4. \/ \E i \in RequestLineAt :
           /\ request' = [request EXCEPT !.line = Line[i], !.state = "PARSE_HEADERS"]
           /\ pc' = pc /\ parser' = parser
      \/ /\ RequestLineAt = {}
         /\ parser' = [parser EXCEPT !.has_error_ = TRUE] /\ pc' = "failed"
         /\ request' = request
  BY DEF parse_request_line
<1>5. ArrivedInv'
  <2>1. pc' # "wait"
    BY <1>1, <1>4
  <2> QED
    BY <1>1, <2>1, ArrivedKept
<1>6. buffer \in Seq(Tokens)
  BY <1>3 DEF TypeOK
<1>7. PICK n \in Nat : n = Len(buffer)
  BY <1>6
<1>8. TypeOK'
  <2>1. buffer' \in Seq(Tokens)
    BY <1>1, <1>6, AfterLineType
  <2>2. \A i \in RequestLineAt : Line[i] \in Texts
    BY UsagesAssumption DEF RequestLineAt
  <2>3. request' \in [state : States, line : Texts \cup {""}, headers : Seq(Texts),
                      body : Seq(Tokens)]
    BY <1>3, <1>4, <2>2 DEF TypeOK, States
  <2>4. parser' \in [has_error_ : BOOLEAN, content_length_ : Nat]
    BY <1>3, <1>4 DEF TypeOK
  <2>5. pc' \in {"wait", "parse", "failed", "complete"}
    BY <1>1, <1>4
  <2> QED
    BY <1>1, <1>2, <1>3, <2>1, <2>3, <2>4, <2>5 DEF TypeOK
<1>9. ASSUME InPlace
      PROVE  \E p \in Nat : /\ p <= arrived /\ Unread(p) /\ AtLine(p) /\ ~parser.has_error_
                            /\ done < Len(script) /\ 3 <= n
                            /\ Line = <<Current.line>> /\ AfterLine = SubSeq(buffer, 3 + 1, n)
  <2>1. PICK p \in Nat : p <= arrived /\ Unread(p) /\ Place(p) /\ ~parser.has_error_
    BY <1>1, <1>3, <1>9 DEF PlaceInv
  <2>2. done < Len(script) /\ (AtLine(p) \/ AtHeaders(p) \/ AtBody(p))
    BY <1>1, <2>1 DEF Place
  <2>3. AtLine(p)
    BY <1>1, <2>2 DEF AtHeaders, AtBody
  <2>4. /\ Crlfs # {} <=> 3 <= n
        /\ 3 <= n => Line = <<Current.line>> /\ AfterLine = SubSeq(buffer, 3 + 1, n)
    BY <1>3, <1>7, <2>1, <2>2, <2>3, LineAhead
  <2> QED
    BY <1>1, <2>1, <2>2, <2>3, <2>4
<1>10. ServedInv'
  <2>1. ASSUME InPlace, pc' = "failed" PROVE ~WellFormedRequest(Current) /\ done < Len(script)
    <3>1. Line = <<Current.line>> /\ done < Len(script)
      BY <1>9, <2>1
    <3>2. RequestLineAt = {}
      BY <1>1, <1>4, <2>1
    <3>3. Current.line \notin RequestLines
      BY <3>1, <3>2, OneText
    <3> QED
      BY <3>1, <3>3 DEF WellFormedRequest
  <2>2. served' = served
    BY <1>1
  <2> QED
    BY <1>2, <1>3, <2>1, <2>2 DEF ServedInv
<1>11. PlaceInv'
  <2>1. ASSUME InPlace, pc' # "failed"
        PROVE  ~parser'.has_error_ /\ \E p \in Nat : p <= arrived' /\ Unread(p)' /\ Place(p)'
    <3>1. PICK p \in Nat : /\ p <= arrived /\ Unread(p) /\ AtLine(p) /\ ~parser.has_error_
                           /\ done < Len(script) /\ 3 <= n
                           /\ Line = <<Current.line>> /\ AfterLine = SubSeq(buffer, 3 + 1, n)
      BY <1>9, <2>1
    <3>2. /\ Current.line \in RequestLines /\ pc' = "parse" /\ parser' = parser
          /\ request' = [request EXCEPT !.line = Current.line, !.state = "PARSE_HEADERS"]
      <4>1. PICK i \in RequestLineAt :
              /\ request' = [request EXCEPT !.line = Line[i], !.state = "PARSE_HEADERS"]
              /\ pc' = pc /\ parser' = parser
        BY <1>4, <2>1
      <4>2. Line[i] = Current.line /\ Current.line \in RequestLines
        BY <3>1, OneText
      <4> QED
        BY <1>1, <4>1, <4>2
    <3>3. p + 3 \in Nat /\ p + 3 <= arrived' /\ Unread(p + 3)'
      BY <1>1, <1>3, <1>7, <3>1, Retrieve
    <3>4. request' = [state |-> "PARSE_HEADERS", line |-> Current.line, headers |-> << >>,
                      body |-> << >>] /\ Current.line \in RequestLines
      BY <3>1, <3>2 DEF AtLine, FreshRequest
    <3>5. End(script, done) \in Nat /\ Len(Current.headers) \in Nat
      BY <1>3, <3>1, CurrentFacts
    <3>6. AtHeaders(p + 3)'
      <4>1. p + 3 = End(script, done) + 3 + 3 * 0
        BY <3>1, <3>5 DEF AtLine
      <4>2. Len(request'.headers) = 0 /\ request'.headers = << >>
        BY <3>4
      <4>3. request'.state = "PARSE_HEADERS" /\ request'.line = Current.line
            /\ request'.body = << >>
        BY <3>4
      <4>4. 0 <= Len(Current.headers)
        BY <3>5
      <4> QED
        BY <1>2, <3>4, <4>1, <4>2, <4>3, <4>4 DEF AtHeaders
    <3>7. Place(p + 3)'
      BY <1>2, <3>1, <3>2, <3>6 DEF Place
    <3> QED
      BY <3>1, <3>2, <3>3, <3>7
  <2> QED
    BY <1>2, <2>1 DEF PlaceInv
<1> QED
  BY <1>2, <1>5, <1>8, <1>10, <1>11 DEF HttpInv

(***************************************************************************)
(* parse_header_line(): the header behind those the request has.           *)
(***************************************************************************)
LEMMA HeaderLineStep ==
  ASSUME HttpInv, parse_header_line
  PROVE  HttpInv'
<1>1. /\ pc = "parse" /\ request.state = "PARSE_HEADERS" /\ Crlfs # {} /\ Line # << >>
      /\ buffer' = AfterLine
      /\ UNCHANGED <<usage, arrived, conn, served, replies>>
  BY DEF parse_header_line
<1>2. /\ AnsweredInv' /\ KeepAliveInv' /\ FramedInv'
      /\ InPlace' = InPlace /\ script' = script /\ done' = done /\ Current' = Current
  BY <1>1, HistoryKept
<1>3. TypeOK /\ ServedInv /\ PlaceInv
  BY DEF HttpInv
<1>4. \/ /\ HeaderAt # {}
         /\ request' = [request EXCEPT !.headers = Append(request.headers, HeaderRead)]
         /\ pc' = pc /\ parser' = parser
      \/ /\ HeaderAt = {}
         /\ parser' = [parser EXCEPT !.has_error_ = TRUE] /\ pc' = "failed"
         /\ request' = request
  BY DEF parse_header_line, add_header
<1>5. ArrivedInv'
  <2>1. pc' # "wait"
    BY <1>1, <1>4
  <2> QED
    BY <1>1, <2>1, ArrivedKept
<1>6. buffer \in Seq(Tokens) /\ request.headers \in Seq(Texts)
  BY <1>3 DEF TypeOK
<1>7. PICK n \in Nat : n = Len(buffer)
  BY <1>6
<1>7a. PICK k \in Nat : k = Len(request.headers)
  BY <1>6
<1>7b. HeaderTexts \subseteq Texts
  BY UsagesAssumption
<1>8. TypeOK'
  <2>1. buffer' \in Seq(Tokens)
    BY <1>1, <1>6, AfterLineType
  <2>2. request' \in [state : States, line : Texts \cup {""}, headers : Seq(Texts),
                      body : Seq(Tokens)]
    <3>1. CASE request' = request
      BY <1>3, <3>1 DEF TypeOK
    <3>2. CASE request' = [request EXCEPT !.headers = Append(request.headers, HeaderRead)]
      <4>1. HeaderRead \in HeaderTexts
        BY DEF HeaderRead, HeaderAt, HeaderTexts
      <4>2. Append(request.headers, HeaderRead) \in Seq(Texts)
        BY <1>6, <1>7b, <4>1
      <4> QED
        BY <1>3, <3>2, <4>2 DEF TypeOK
    <3> QED
      BY <1>4, <3>1, <3>2
  <2>3. parser' \in [has_error_ : BOOLEAN, content_length_ : Nat]
    BY <1>3, <1>4 DEF TypeOK
  <2>4. pc' \in {"wait", "parse", "failed", "complete"}
    BY <1>1, <1>4
  <2> QED
    BY <1>1, <1>2, <1>3, <2>1, <2>2, <2>3, <2>4 DEF TypeOK
<1>9. ASSUME InPlace
      PROVE  \E p \in Nat : /\ p <= arrived /\ Unread(p) /\ AtHeaders(p) /\ ~parser.has_error_
                            /\ done < Len(script) /\ 3 <= n /\ k < Len(Current.headers)
                            /\ Line = <<Current.headers[k + 1]>>
                            /\ AfterLine = SubSeq(buffer, 3 + 1, n)
  <2>1. PICK p \in Nat : p <= arrived /\ Unread(p) /\ Place(p) /\ ~parser.has_error_
    BY <1>1, <1>3, <1>9 DEF PlaceInv
  <2>2. done < Len(script) /\ (AtLine(p) \/ AtHeaders(p) \/ AtBody(p))
    BY <1>1, <2>1 DEF Place
  <2>3. AtHeaders(p)
    BY <1>1, <2>2, OneState
  <2>4. /\ k < Len(Current.headers) =>
             /\ Crlfs # {} <=> 3 <= n
             /\ 3 <= n => /\ Line = <<Current.headers[k + 1]>>
                          /\ AfterLine = SubSeq(buffer, 3 + 1, n)
        /\ k = Len(Current.headers) =>
             /\ Crlfs # {} <=> 2 <= n
             /\ 2 <= n => Line = << >> /\ AfterLine = SubSeq(buffer, 2 + 1, n)
    BY <1>3, <1>7, <1>7a, <2>1, <2>2, <2>3, HeaderAhead
  <2>5. k # Len(Current.headers)
    BY <1>1, <2>4
  <2>6. k <= Len(Current.headers) /\ Len(Current.headers) \in Nat
    BY <1>3, <1>7a, <2>2, <2>3, CurrentFacts DEF AtHeaders
  <2>7. k < Len(Current.headers)
    BY <2>5, <2>6
  <2> QED
    BY <1>1, <2>1, <2>2, <2>3, <2>4, <2>7
<1>10. ServedInv'
  <2>1. ASSUME InPlace, pc' = "failed" PROVE ~WellFormedRequest(Current) /\ done < Len(script)
    <3>1. Line = <<Current.headers[k + 1]>> /\ done < Len(script) /\ k < Len(Current.headers)
      BY <1>9, <2>1
    <3>2. Current.headers[k + 1] \notin HeaderTexts
      <4>1. HeaderAt = {}
        BY <1>1, <1>4, <2>1
      <4> QED
        BY <3>1, <4>1, OneText
    <3>3. Current.headers \in Seq(Texts) /\ Len(Current.headers) \in Nat
      BY <1>3, <3>1, CurrentFacts
    <3>4. k + 1 \in DOMAIN Current.headers
      BY <3>1, <3>3
    <3> QED
      BY <3>1, <3>2, <3>4 DEF WellFormedRequest
  <2>2. served' = served
    BY <1>1
  <2> QED
    BY <1>2, <1>3, <2>1, <2>2 DEF ServedInv
<1>11. PlaceInv'
  <2>1. ASSUME InPlace, pc' # "failed"
        PROVE  ~parser'.has_error_ /\ \E p \in Nat : p <= arrived' /\ Unread(p)' /\ Place(p)'
    <3>1. PICK p \in Nat : /\ p <= arrived /\ Unread(p) /\ AtHeaders(p) /\ ~parser.has_error_
                           /\ done < Len(script) /\ 3 <= n /\ k < Len(Current.headers)
                           /\ Line = <<Current.headers[k + 1]>>
                           /\ AfterLine = SubSeq(buffer, 3 + 1, n)
      BY <1>9, <2>1
    <3>2. PICK x \in HeaderTexts : /\ x = Current.headers[k + 1] /\ pc' = "parse" /\ parser' = parser
            /\ request' = [request EXCEPT !.headers = Append(request.headers, x)]
      <4>1. /\ HeaderAt # {} /\ pc' = pc /\ parser' = parser
            /\ request' = [request EXCEPT !.headers = Append(request.headers, HeaderRead)]
        BY <1>4, <2>1
      <4>2. HeaderRead = Current.headers[k + 1] /\ Current.headers[k + 1] \in HeaderTexts
        BY <3>1, <4>1, OneText
      <4> QED
        BY <1>1, <4>1, <4>2
    <3>3. p + 3 \in Nat /\ p + 3 <= arrived' /\ Unread(p + 3)'
      BY <1>1, <1>3, <1>7, <3>1, Retrieve
    <3>4. PICK hs : hs = Append(request.headers, x)
      OBVIOUS
    <3>5. /\ Len(hs) = k + 1 /\ hs[k + 1] = x
          /\ \A i \in 1..k : hs[i] = request.headers[i]
      <4>1. x \in Texts
        BY <1>7b
      <4> QED
        BY <1>6, <1>7a, <3>4, <4>1, AppendProperties
    <3>6. PICK q \in Nat : q = End(script, done)
      BY <1>3, <3>1, CurrentFacts
    <3>7. PICK h \in Nat : h = Len(Current.headers)
      BY <1>3, <3>1, CurrentFacts
    <3>8. /\ p = q + 3 + 3 * k /\ request.line = Current.line /\ Current.line \in RequestLines
          /\ request.body = << >> /\ request.state = "PARSE_HEADERS"
          /\ \A i \in 1..k : request.headers[i] = Current.headers[i]
                             /\ request.headers[i] \in HeaderTexts
      BY <1>7a, <3>1, <3>6 DEF AtHeaders
    <3>9. p + 3 = q + 3 + 3 * (k + 1) /\ k + 1 <= h
      <4>1. p + 3 = q + 3 + 3 * (k + 1)
        BY <3>8
      <4>2. k + 1 <= h
        BY <3>1, <3>7
      <4> QED
        BY <4>1, <4>2
    <3>10. \A i \in 1..k + 1 : hs[i] = Current.headers[i] /\ hs[i] \in HeaderTexts
      <4>1. \A i \in 1..k + 1 : i \in 1..k \/ i = k + 1
        OBVIOUS
      <4> QED
        BY <3>2, <3>5, <3>8, <4>1
    <3>11. /\ request'.headers = hs /\ request'.line = Current.line
           /\ request'.body = << >> /\ request'.state = "PARSE_HEADERS"
      <4>1. request \in [state : States, line : Texts \cup {""}, headers : Seq(Texts),
                         body : Seq(Tokens)]
        BY <1>3 DEF TypeOK
      <4> QED
        BY <3>2, <3>4, <3>8, <4>1
    <3>12. AtHeaders(p + 3)'
      BY <1>2, <3>5, <3>6, <3>7, <3>8, <3>9, <3>10, <3>11 DEF AtHeaders
    <3>13. Place(p + 3)'
      BY <1>2, <3>1, <3>2, <3>12 DEF Place
    <3> QED
      BY <3>1, <3>2, <3>3, <3>13
  <2> QED
    BY <1>2, <2>1 DEF PlaceInv
<1> QED
  BY <1>2, <1>5, <1>8, <1>10, <1>11 DEF HttpInv

(***************************************************************************)
(* The blank line: the request has all its headers, and the parser knows   *)
(* how long the body is.                                                   *)
(***************************************************************************)
LEMMA BlankLineStep ==
  ASSUME HttpInv, parse_blank_line
  PROVE  HttpInv'
<1>1. /\ pc = "parse" /\ request.state = "PARSE_HEADERS" /\ Crlfs # {} /\ Line = << >>
      /\ buffer' = AfterLine
      /\ parser' = [parser EXCEPT !.content_length_ = get_content_length(request)]
      /\ UNCHANGED <<usage, arrived, conn, served, replies>>
  BY DEF parse_blank_line
<1>2. /\ AnsweredInv' /\ KeepAliveInv' /\ FramedInv'
      /\ InPlace' = InPlace /\ script' = script /\ done' = done /\ Current' = Current
  BY <1>1, HistoryKept
<1>3. TypeOK /\ ServedInv /\ PlaceInv
  BY DEF HttpInv
<1>4. \/ /\ get_content_length(request) > 0
         /\ request' = [request EXCEPT !.state = "PARSE_BODY"] /\ pc' = pc
      \/ /\ ~(get_content_length(request) > 0)
         /\ request' = [request EXCEPT !.state = "PARSE_COMPLETE"] /\ pc' = "complete"
  BY DEF parse_blank_line
<1>5. ArrivedInv'
  <2>1. pc' # "wait"
    BY <1>1, <1>4
  <2> QED
    BY <1>1, <2>1, ArrivedKept
<1>6. buffer \in Seq(Tokens) /\ request.headers \in Seq(Texts)
  BY <1>3 DEF TypeOK
<1>7. PICK n \in Nat : n = Len(buffer)
  BY <1>6
<1>7a. PICK k \in Nat : k = Len(request.headers)
  BY <1>6
<1>7b. PICK l \in Nat : l = get_content_length(request)
  BY <1>6, ContentLengthIsNat
<1>7c. /\ request \in [state : States, line : Texts \cup {""}, headers : Seq(Texts),
                       body : Seq(Tokens)]
       /\ parser \in [has_error_ : BOOLEAN, content_length_ : Nat]
  BY <1>3 DEF TypeOK
<1>7d. /\ parser' = [parser EXCEPT !.content_length_ = l]
       /\ parser'.content_length_ = l /\ parser'.has_error_ = parser.has_error_
  BY <1>1, <1>7b, <1>7c
<1>7e. /\ request'.line = request.line /\ request'.headers = request.headers
       /\ request'.body = request.body
       /\ \/ l > 0 /\ request'.state = "PARSE_BODY" /\ pc' = "parse"
          \/ l = 0 /\ request'.state = "PARSE_COMPLETE" /\ pc' = "complete"
  <2>1. CASE l > 0
    <3>1. request' = [request EXCEPT !.state = "PARSE_BODY"] /\ pc' = "parse"
      BY <1>1, <1>4, <1>7b, <2>1
    <3> QED
      BY <1>7c, <2>1, <3>1
  <2>2. CASE l = 0
    <3>1. request' = [request EXCEPT !.state = "PARSE_COMPLETE"] /\ pc' = "complete"
      BY <1>4, <1>7b, <2>2
    <3> QED
      BY <1>7c, <2>2, <3>1
  <2> QED
    BY <2>1, <2>2
<1>8. TypeOK'
  <2>1. buffer' \in Seq(Tokens)
    BY <1>1, <1>6, AfterLineType
  <2>2. request' \in [state : States, line : Texts \cup {""}, headers : Seq(Texts),
                      body : Seq(Tokens)]
    BY <1>4, <1>7c DEF States
  <2>3. parser' \in [has_error_ : BOOLEAN, content_length_ : Nat]
    BY <1>7c, <1>7d
  <2>4. pc' \in {"wait", "parse", "failed", "complete"}
    BY <1>7e
  <2> QED
    BY <1>1, <1>2, <1>3, <2>1, <2>2, <2>3, <2>4 DEF TypeOK
<1>9. ServedInv'
  <2>1. pc' # "failed" /\ served' = served
    BY <1>1, <1>7e
  <2> QED
    BY <1>2, <1>3, <2>1 DEF ServedInv
<1>10. PlaceInv'
  <2>1. ASSUME InPlace
        PROVE  ~parser'.has_error_ /\ \E p \in Nat : p <= arrived' /\ Unread(p)' /\ Place(p)'
    <3>1. PICK p \in Nat : p <= arrived /\ Unread(p) /\ Place(p) /\ ~parser.has_error_
      BY <1>1, <1>3, <2>1 DEF PlaceInv
    <3>2. done < Len(script) /\ (AtLine(p) \/ AtHeaders(p) \/ AtBody(p))
      BY <1>1, <3>1 DEF Place
    <3>3. AtHeaders(p)
      BY <1>1, <3>2, OneState
    <3>4. PICK h \in Nat : h = Len(Current.headers)
      BY <1>3, <3>2, CurrentFacts
    <3>5. PICK q \in Nat : q = End(script, done)
      BY <1>3, <3>2, CurrentFacts
    <3>6. /\ k < h =>
               /\ Crlfs # {} <=> 3 <= n
               /\ 3 <= n => Line = <<Current.headers[k + 1]>>
          /\ k = h =>
               /\ Crlfs # {} <=> 2 <= n
               /\ 2 <= n => Line = << >> /\ AfterLine = SubSeq(buffer, 2 + 1, n)
      BY <1>3, <1>7, <1>7a, <3>1, <3>2, <3>3, <3>4, HeaderAhead
    <3>7. ~(k < h)
      <4>1. <<Current.headers[k + 1]>> # << >>
        OBVIOUS
      <4> QED
        BY <1>1, <3>6, <4>1
    <3>8. /\ p = q + 3 + 3 * k /\ request.line = Current.line /\ Current.line \in RequestLines
          /\ request.body = << >> /\ k <= h
          /\ \A i \in 1..k : request.headers[i] = Current.headers[i]
                             /\ request.headers[i] \in HeaderTexts
      BY <1>7a, <3>3, <3>4, <3>5 DEF AtHeaders
    <3>9. k = h
      BY <3>7, <3>8
    <3>10. 2 <= n /\ AfterLine = SubSeq(buffer, 2 + 1, n)
      BY <1>1, <3>6, <3>9
    <3>11. p + 2 \in Nat /\ p + 2 <= arrived' /\ Unread(p + 2)'
      BY <1>1, <1>3, <1>7, <3>1, <3>10, Retrieve
    <3>12. Current.headers \in Seq(Texts) /\ Current.body \in Seq(Tokens)
           /\ Len(Current.body) = get_content_length(Current)
           /\ End(script, done + 1) = q + (3 * h + 5 + Len(Current.body))
      BY <1>3, <3>2, <3>4, <3>5, CurrentFacts
    <3>13. request.headers = Current.headers
      <4>1. Len(request.headers) = Len(Current.headers)
            /\ \A i \in 1..Len(request.headers) : request.headers[i] = Current.headers[i]
        BY <1>7a, <3>4, <3>8, <3>9
      <4> QED
        BY <1>6, <3>12, <4>1, SeqEqual
    <3>14. l = Len(Current.body)
      BY <1>7b, <3>12, <3>13, SameHeaders
    <3>15. WellFormedRequest(Current)
      <4>1. DOMAIN Current.headers = 1..h
        BY <3>4, <3>12
      <4> QED
        BY <3>8, <3>9, <3>13, <4>1 DEF WellFormedRequest
    <3>16. p + 2 = q + 5 + 3 * h
      BY <3>8, <3>9
    <3>17. CASE l > 0
      <4>1. request'.state = "PARSE_BODY" /\ pc' = "parse"
        BY <1>7e, <3>17
      <4>2. AtBody(p + 2)'
        BY <1>2, <1>7d, <1>7e, <3>4, <3>5, <3>8, <3>13, <3>14, <3>15, <3>16, <4>1
        DEF AtBody
      <4>3. Place(p + 2)'
        BY <1>2, <3>2, <4>1, <4>2 DEF Place
      <4> QED
        BY <1>7d, <3>1, <3>11, <4>3
    <3>18. CASE l = 0
      <4>1. request'.state = "PARSE_COMPLETE" /\ pc' = "complete"
        BY <1>7e, <3>18
      <4>2. Current.body = << >>
        BY <3>12, <3>14, <3>18
      <4>3. p + 2 = End(script, done + 1)
        <5>1. End(script, done + 1) = q + (3 * h + 5 + 0)
          BY <3>12, <3>14, <3>18
        <5> QED
          BY <3>16, <5>1
      <4>4. AtEnd(p + 2)'
        BY <1>2, <1>7e, <3>8, <3>13, <3>15, <4>1, <4>2, <4>3 DEF AtEnd
      <4>5. Place(p + 2)'
        BY <1>2, <3>2, <4>1, <4>4 DEF Place
      <4> QED
        BY <1>7d, <3>1, <3>11, <4>5
    <3> QED
      BY <3>17, <3>18
  <2> QED
    BY <1>2, <2>1 DEF PlaceInv
<1> QED
  BY <1>2, <1>5, <1>8, <1>9, <1>10 DEF HttpInv

(***************************************************************************)
(* The body lies ahead.                                                    *)
(***************************************************************************)
LEMMA BodyAhead ==
  ASSUME TypeOK, done < Len(script), NEW p \in Nat, AtBody(p), Unread(p),
         NEW n \in Nat, n = Len(buffer), NEW m \in Nat, m = Len(Current.body)
  PROVE  /\ End(script, done + 1) = p + m
         /\ m <= n => SubSeq(buffer, 1, m) = Current.body
<1>1. PICK q \in Nat : q = End(script, done)
  BY CurrentFacts
<1>2. PICK h \in Nat : h = Len(Current.headers)
  BY CurrentFacts
<1>3. p = q + 5 + 3 * h
  BY <1>1, <1>2 DEF AtBody
<1>4. /\ LiesAt(Stream(script), q, Current, h) /\ Current.body \in Seq(Tokens)
      /\ End(script, done + 1) = q + (3 * h + 5 + m)
  BY <1>1, <1>2, CurrentFacts
<1>5. End(script, done + 1) = p + m
  <2>1. q + (3 * h + 5 + m) = p + m
    <3>1. PICK x \in Nat : x = m
      OBVIOUS
    <3>2. q + (3 * h + 5 + x) = p + x
      BY <1>3
    <3> QED
      BY <3>1, <3>2
  <2> QED
    BY <1>4, <2>1
<1>6. ASSUME m <= n PROVE SubSeq(buffer, 1, m) = Current.body
  <2>1. PICK b \in Seq(Tokens) : b = buffer /\ Len(b) = n
    BY DEF TypeOK
  <2>2. PICK c : c = SubSeq(b, 0 + 1, m)
    OBVIOUS
  <2>3. c \in Seq(Tokens) /\ Len(c) = m - 0 /\ \A i \in 1..m - 0 : c[i] = b[0 + i]
    <3>1. 0 \in Nat /\ 0 <= m /\ m <= Len(b)
      BY <1>6, <2>1
    <3> QED
      BY <2>2, <3>1, Part
  <2>4. ASSUME NEW i \in 1..m PROVE c[i] = Current.body[i]
    <3>1. c[i] = b[i]
      <4>1. i \in 1..m - 0 /\ 0 + i = i
        OBVIOUS
      <4> QED
        BY <2>3, <4>1
    <3>2. i \in 1..n
      BY <1>6
    <3>3. b[i] = Stream(script)[p + i]
      BY <2>1, <3>2 DEF Unread
    <3>4. p + i = q + (3 * h + 5 + i)
      BY <1>3
    <3>5. Stream(script)[q + (3 * h + 5 + i)] = Current.body[i]
      BY <1>4 DEF LiesAt
    <3> QED
      BY <3>1, <3>3, <3>4, <3>5
  <2>5. Len(c) = Len(Current.body) /\ \A i \in 1..Len(c) : c[i] = Current.body[i]
    BY <2>3, <2>4
  <2>6. c = Current.body
    BY <1>4, <2>3, <2>5, SeqEqual
  <2> QED
    BY <2>1, <2>2, <2>6
<1> QED
  BY <1>5, <1>6

(***************************************************************************)
(* parse_body(): the request is complete.                                  *)
(***************************************************************************)
LEMMA BodyStep ==
  ASSUME HttpInv, parse_body
  PROVE  HttpInv'
<1>1. /\ pc = "parse" /\ request.state = "PARSE_BODY" /\ Len(buffer) >= parser.content_length_
      /\ request' = [request EXCEPT !.body = SubSeq(buffer, 1, parser.content_length_),
                                    !.state = "PARSE_COMPLETE"]
      /\ buffer' = SubSeq(buffer, parser.content_length_ + 1, Len(buffer))
      /\ pc' = "complete"
      /\ UNCHANGED <<usage, arrived, parser, conn, served, replies>>
  BY DEF parse_body
<1>2. /\ AnsweredInv' /\ KeepAliveInv' /\ FramedInv'
      /\ InPlace' = InPlace /\ script' = script /\ done' = done /\ Current' = Current
  BY <1>1, HistoryKept
<1>3. TypeOK /\ ServedInv /\ PlaceInv
  BY DEF HttpInv
<1>4. ArrivedInv'
  <2>1. pc' # "wait"
    BY <1>1
  <2> QED
    BY <1>1, <2>1, ArrivedKept
<1>5. /\ buffer \in Seq(Tokens)
      /\ request \in [state : States, line : Texts \cup {""}, headers : Seq(Texts),
                      body : Seq(Tokens)]
      /\ parser \in [has_error_ : BOOLEAN, content_length_ : Nat]
  BY <1>3 DEF TypeOK
<1>6. PICK n \in Nat : n = Len(buffer)
  <2>1. buffer \in Seq(Tokens)
    BY <1>5
  <2> QED
    BY <2>1
<1>7. PICK m \in Nat : m = parser.content_length_
  BY <1>5
<1>8. m <= n /\ buffer' = SubSeq(buffer, m + 1, n)
      /\ request' = [request EXCEPT !.body = SubSeq(buffer, 1, m), !.state = "PARSE_COMPLETE"]
  BY <1>1, <1>6, <1>7
<1>9. PICK b : b = SubSeq(buffer, 1, m)
  OBVIOUS
<1>10. /\ request'.line = request.line /\ request'.headers = request.headers
       /\ request'.body = b /\ request'.state = "PARSE_COMPLETE"
  BY <1>5, <1>8, <1>9
<1>11. TypeOK'
  <2>1. buffer' \in Seq(Tokens)
    <3>0. buffer \in Seq(Tokens)
      BY <1>5
    <3>1. n <= n /\ m <= n
      BY <1>8
    <3>2. n <= Len(buffer)
      BY <1>6, <3>1
    <3>3. SubSeq(buffer, m + 1, n) \in Seq(Tokens)
      BY <3>0, <3>1, <3>2, Part
    <3> QED
      BY <1>8, <3>3
  <2>2. b \in Seq(Tokens)
    <3>1. 0 \in Nat /\ 0 <= m /\ m <= Len(buffer) /\ 0 + 1 = 1
      BY <1>6, <1>8
    <3>2. SubSeq(buffer, 0 + 1, m) \in Seq(Tokens)
      BY <1>5, <3>1, Part
    <3> QED
      BY <1>9, <3>1, <3>2
  <2>3. request' \in [state : States, line : Texts \cup {""}, headers : Seq(Texts),
                      body : Seq(Tokens)]
    BY <1>5, <1>8, <1>9, <2>2 DEF States
  <2> QED
    BY <1>1, <1>2, <1>3, <2>1, <2>3 DEF TypeOK
<1>12. ServedInv'
  <2>1. pc' # "failed" /\ served' = served
    BY <1>1
  <2> QED
    BY <1>2, <1>3, <2>1 DEF ServedInv
<1>13. PlaceInv'
  <2>1. ASSUME InPlace
        PROVE  ~parser'.has_error_ /\ \E p \in Nat : p <= arrived' /\ Unread(p)' /\ Place(p)'
    <3>1. PICK p \in Nat : p <= arrived /\ Unread(p) /\ Place(p) /\ ~parser.has_error_
      BY <1>1, <1>3, <2>1 DEF PlaceInv
    <3>2. done < Len(script) /\ (AtLine(p) \/ AtHeaders(p) \/ AtBody(p))
      BY <1>1, <3>1 DEF Place
    <3>3. AtBody(p)
      BY <1>1, <3>2, OneState
    <3>4. /\ m = Len(Current.body) /\ WellFormedRequest(Current)
          /\ request.line = Current.line /\ request.headers = Current.headers
      BY <1>7, <3>3 DEF AtBody
    <3>5. End(script, done + 1) = p + m /\ b = Current.body
      BY <1>3, <1>6, <1>8, <1>9, <3>1, <3>2, <3>3, <3>4, BodyAhead
    <3>6. p + m \in Nat /\ p + m <= arrived' /\ Unread(p + m)'
      BY <1>1, <1>3, <1>6, <1>8, <3>1, Retrieve
    <3>7. AtEnd(p + m)'
      BY <1>2, <1>10, <3>4, <3>5 DEF AtEnd
    <3>8. Place(p + m)'
      BY <1>1, <1>2, <3>2, <3>7 DEF Place
    <3> QED
      BY <1>1, <3>1, <3>6, <3>8
  <2> QED
    BY <1>2, <2>1 DEF PlaceInv
<1> QED
  BY <1>2, <1>4, <1>11, <1>12, <1>13 DEF HttpInv

(***************************************************************************)
(* A parser in its place that wants more data has not got the whole of its *)
(* request.                                                                *)
(***************************************************************************)
LEMMA NotAllThere ==
  ASSUME HttpInv, InPlace, need_more
  PROVE  done < Len(script) /\ arrived < End(script, done + 1)
<1>1. /\ pc = "parse"
      /\ IF request.state = "PARSE_BODY" THEN Len(buffer) < parser.content_length_
                                         ELSE Crlfs = {}
  BY DEF need_more
<1>2. TypeOK /\ PlaceInv
  BY DEF HttpInv
<1>3. PICK p \in Nat : p <= arrived /\ Unread(p) /\ Place(p)
  BY <1>1, <1>2 DEF PlaceInv
<1>4. done < Len(script) /\ (AtLine(p) \/ AtHeaders(p) \/ AtBody(p))
  BY <1>1, <1>3 DEF Place
<1>5. buffer \in Seq(Tokens) /\ request.headers \in Seq(Texts)
  BY <1>2 DEF TypeOK
<1>6. PICK n \in Nat : n = Len(buffer)
  BY <1>5
<1>7. PICK a \in Nat : a = arrived /\ n = a - p
  BY <1>2, <1>3, <1>6 DEF TypeOK, Unread
<1>8. PICK q \in Nat : q = End(script, done)
  BY <1>2, <1>4, CurrentFacts
<1>9. PICK h \in Nat : h = Len(Current.headers)
  BY <1>2, <1>4, CurrentFacts
<1>10. PICK b \in Nat : b = Len(Current.body)
  BY <1>2, <1>4, CurrentFacts
<1>11. PICK e \in Nat : e = End(script, done + 1) /\ e = q + (3 * h + 5 + b)
  <2>1. End(script, done + 1) = q + (3 * h + 5 + b)
    BY <1>2, <1>4, <1>8, <1>9, <1>10, CurrentFacts
  <2>2. q + (3 * h + 5 + b) \in Nat
    OBVIOUS
  <2> QED
    BY <2>1, <2>2
<1>12. CASE AtLine(p)
  <2>1. Crlfs # {} <=> 3 <= n
    BY <1>2, <1>3, <1>4, <1>6, <1>12, LineAhead
  <2>2. request.state = "PARSE_REQUEST_LINE"
    BY <1>12, OneState
  <2>3. ~(3 <= n)
    BY <1>1, <2>1, <2>2
  <2>4. p = q
    BY <1>8, <1>12 DEF AtLine
  <2>5. a < e
    BY <1>7, <1>11, <2>3, <2>4
  <2> QED
    BY <1>4, <1>7, <1>11, <2>5
<1>13. CASE AtHeaders(p)
  <2>1. PICK k \in Nat : k = Len(request.headers)
    BY <1>5
  <2>2. (k < h => (Crlfs # {} <=> 3 <= n)) /\ (k = h => (Crlfs # {} <=> 2 <= n))
    BY <1>2, <1>3, <1>4, <1>6, <1>9, <1>13, <2>1, HeaderAhead
  <2>3. request.state = "PARSE_HEADERS"
    BY <1>13, OneState
  <2>4. (k < h => ~(3 <= n)) /\ (k = h => ~(2 <= n))
    BY <1>1, <2>2, <2>3
  <2>5. p = q + 3 + 3 * k /\ k <= h
    BY <1>8, <1>9, <1>13, <2>1 DEF AtHeaders
  <2>6. a < e
    <3>1. CASE k < h
      BY <1>7, <1>11, <2>4, <2>5, <3>1
    <3>2. CASE k = h
      BY <1>7, <1>11, <2>4, <2>5, <3>2
    <3> QED
      BY <2>5, <3>1, <3>2
  <2> QED
    BY <1>4, <1>7, <1>11, <2>6
<1>14. CASE AtBody(p)
  <2>1. request.state = "PARSE_BODY" /\ parser.content_length_ = b
    BY <1>10, <1>14 DEF AtBody
  <2>2. n < b
    BY <1>1, <1>6, <2>1
  <2>3. e = p + b
    BY <1>2, <1>3, <1>4, <1>6, <1>10, <1>11, <1>14, BodyAhead
  <2>4. a < e
    BY <1>7, <2>2, <2>3
  <2> QED
    BY <1>4, <1>7, <1>11, <2>4
<1> QED
  BY <1>4, <1>12, <1>13, <1>14

(***************************************************************************)
(* parse_request() wants more data.                                        *)
(***************************************************************************)
LEMMA NeedMoreStep ==
  ASSUME HttpInv, need_more
  PROVE  HttpInv'
<1>1. /\ pc = "parse" /\ pc' = IF parser.has_error_ THEN "failed" ELSE "wait"
      /\ UNCHANGED <<usage, arrived, buffer, request, parser, conn, served, replies>>
  BY DEF need_more
<1>2. /\ AnsweredInv' /\ KeepAliveInv' /\ FramedInv'
      /\ InPlace' = InPlace /\ script' = script /\ done' = done /\ Current' = Current
      /\ answered' = answered
  BY <1>1, HistoryKept
<1>3. TypeOK /\ ServedInv /\ PlaceInv /\ ArrivedInv
  BY DEF HttpInv
<1>4. TypeOK'
  <2>1. pc' \in {"wait", "parse", "failed", "complete"}
    BY <1>1
  <2> QED
    BY <1>1, <1>2, <1>3, <2>1 DEF TypeOK
<1>5. ASSUME InPlace
      PROVE  /\ ~parser.has_error_ /\ done < Len(script) /\ arrived < End(script, done + 1)
             /\ \E p \in Nat : /\ p <= arrived /\ Unread(p)
                               /\ AtLine(p) \/ AtHeaders(p) \/ AtBody(p)
  <2>1. done < Len(script) /\ arrived < End(script, done + 1)
    BY <1>5, NotAllThere
  <2>2. ~parser.has_error_
    BY <1>1, <1>3, <1>5 DEF PlaceInv
  <2>3. PICK p \in Nat : p <= arrived /\ Unread(p) /\ Place(p)
    BY <1>1, <1>3, <1>5 DEF PlaceInv
  <2>4. AtLine(p) \/ AtHeaders(p) \/ AtBody(p)
    BY <1>1, <2>3 DEF Place
  <2> QED
    BY <2>1, <2>2, <2>3, <2>4
<1>6. ASSUME InPlace PROVE usage.keep_request
  <2>1. ASSUME ~usage.keep_request PROVE FALSE
    <3>1. End(script, done + 1) <= arrived
      BY <1>1, <1>3, <1>6, <2>1 DEF ArrivedInv
    <3>2. arrived < End(script, done + 1)
      BY <1>5, <1>6
    <3>3. arrived \in Nat
      BY <1>3 DEF TypeOK
    <3>4. End(script, done + 1) \in Nat
      <4>1. done < Len(script)
        BY <1>5, <1>6
      <4>2. Len(script) \in Nat /\ LaidOut(script, Len(script)) /\ done \in Nat
        BY <1>3, ScriptFacts
      <4>3. done + 1 \in 0..Len(script)
        BY <4>1, <4>2
      <4> QED
        BY <4>2, <4>3 DEF LaidOut
    <3> QED
      BY <3>1, <3>2, <3>3, <3>4
  <2> QED
    BY <2>1
<1>7. ServedInv'
  <2>1. InPlace => pc' # "failed"
    BY <1>1, <1>5
  <2> QED
    BY <1>1, <1>2, <1>3, <2>1 DEF ServedInv
<1>8. PlaceInv'
  <2>1. ASSUME InPlace
        PROVE  ~parser'.has_error_ /\ \E p \in Nat : p <= arrived' /\ Unread(p)' /\ Place(p)'
    <3>1. PICK p \in Nat : /\ p <= arrived /\ Unread(p)
                           /\ AtLine(p) \/ AtHeaders(p) \/ AtBody(p)
      BY <1>5, <2>1
    <3>2. pc' = "wait" /\ usage.keep_request /\ done < Len(script)
      BY <1>1, <1>5, <1>6, <2>1
    <3>3. Unread(p)'
      BY <1>1, <1>2, <3>1 DEF Unread
    <3>4. /\ AtLine(p) => AtLine(p)'
          /\ AtHeaders(p) => AtHeaders(p)'
          /\ AtBody(p) => AtBody(p)'
      BY <1>1, <1>2 DEF AtLine, AtHeaders, AtBody
    <3>5. Place(p)'
      BY <1>1, <1>2, <3>1, <3>2, <3>4 DEF Place
    <3> QED
      BY <1>1, <1>5, <2>1, <3>1, <3>3, <3>5
  <2> QED
    BY <1>2, <2>1 DEF PlaceInv
<1>9. ArrivedInv'
  <2>1. pc' # "parse"
    BY <1>1
  <2>2. InPlace => arrived < End(script, done + 1)
    BY <1>5
  <2> QED
    BY <1>1, <1>2, <1>3, <2>1, <2>2 DEF ArrivedInv
<1> QED
  BY <1>2, <1>4, <1>7, <1>8, <1>9 DEF HttpInv

(***************************************************************************)
(* The parser has failed: its request was none, and the connection ends.   *)
(***************************************************************************)
LEMMA FailedStep ==
  ASSUME HttpInv, parse_failed
  PROVE  HttpInv'
<1>1. /\ pc = "failed" /\ conn' = "DISCONNECTING" /\ pc' = "wait"
      /\ UNCHANGED <<usage, arrived, buffer, request, parser, served, replies>>
  BY DEF parse_failed
<1>2. TypeOK /\ ServedInv /\ ArrivedInv /\ AnsweredInv /\ FramedInv
  BY DEF HttpInv
<1>3. script' = script /\ done' = done /\ answered' = answered
  BY <1>1 DEF script, done, answered
<1>4. KeepsPlace' = KeepsPlace /\ AllWellFormed' = AllWellFormed /\ Supported' = Supported
  BY <1>1, <1>3 DEF KeepsPlace, AllWellFormed, Supported
<1>5. ~(KeepsPlace /\ AllWellFormed)
  <2>1. ASSUME KeepsPlace, AllWellFormed PROVE FALSE
    <3>1. done < Len(script) /\ ~WellFormedRequest(Current)
      BY <1>1, <1>2, <2>1 DEF ServedInv, InPlace
    <3>2. done + 1 \in 1..Len(script) /\ DOMAIN script = 1..Len(script)
      BY <1>2, <3>1, CurrentFacts, ScriptFacts
    <3> QED
      BY <2>1, <3>1, <3>2 DEF AllWellFormed, Current
  <2> QED
    BY <2>1
<1>6. ~InPlace' /\ ~Supported' /\ ~Supported
  BY <1>1, <1>4, <1>5 DEF InPlace, Supported, AllWellFormed
<1>7. TypeOK'
  BY <1>1, <1>2, <1>3 DEF TypeOK
<1>8. ServedInv' /\ PlaceInv' /\ KeepAliveInv'
  BY <1>6 DEF ServedInv, PlaceInv, KeepAliveInv
<1>9. ArrivedInv'
  BY <1>1, <1>2, <1>3, <1>6 DEF ArrivedInv
<1>10. AnsweredInv'
  BY <1>1, <1>2, <1>3, <1>4, <1>6 DEF AnsweredInv
<1>11. FramedInv'
  BY <1>1, <1>2, <1>3, <1>6 DEF FramedInv
<1> QED
  BY <1>7, <1>8, <1>9, <1>10, <1>11 DEF HttpInv

-----------------------------------------------------------------------------
(* on_request() and on_message().                                          *)

(***************************************************************************)
(* What on_request() does to the history.                                  *)
(***************************************************************************)
LEMMA RequestHistory ==
  ASSUME HttpInv, on_request
  PROVE  /\ pc = "complete" /\ pc' = "wait"
         /\ done' = done + 1 /\ script' = script
         /\ \A i \in 1..done : served'[i] = served[i]
         /\ served'[done + 1] = [line |-> request.line, headers |-> request.headers,
                                 body |-> request.body]
         /\ conn = "CONNECTED" =>
              /\ answered' = answered + 1
              /\ \A i \in 1..answered : replies'[i] = replies[i]
              /\ replies'[answered + 1] = Response!append_to_buffer(Reply)
         /\ conn # "CONNECTED" => replies' = replies /\ answered' = answered
         /\ conn' = IF Reply.close_connection_ THEN "DISCONNECTING" ELSE conn
         /\ done \in Nat /\ answered \in Nat
         /\ TypeOK'
<1>1. /\ pc = "complete"
      /\ served' = Append(served, [line |-> request.line, headers |-> request.headers,
                                   body |-> request.body])
      /\ replies' = IF conn = "CONNECTED"
                      THEN Append(replies, Response!append_to_buffer(Reply)) ELSE replies
      /\ conn' = IF Reply.close_connection_ THEN "DISCONNECTING" ELSE conn
      /\ parser' = FreshParser /\ request' = FreshRequest /\ pc' = "wait"
      /\ UNCHANGED <<usage, arrived, buffer>>
  BY DEF on_request
<1>2. TypeOK
  BY DEF HttpInv
<1>3. PICK R : R = [line : Texts \cup {""}, headers : Seq(Texts), body : Seq(Tokens)]
  OBVIOUS
<1>4. served \in Seq(R)
  BY <1>2, <1>3 DEF TypeOK
<1>5. PICK x : x = [line |-> request.line, headers |-> request.headers, body |-> request.body]
  OBVIOUS
<1>6. x \in R
  <2>1. request \in [state : States, line : Texts \cup {""}, headers : Seq(Texts),
                     body : Seq(Tokens)]
    BY <1>2 DEF TypeOK
  <2>2. request.line \in Texts \cup {""} /\ request.headers \in Seq(Texts)
        /\ request.body \in Seq(Tokens)
    BY <2>1
  <2> QED
    BY <1>3, <1>5, <2>2
<1>7. served' = Append(served, x)
  BY <1>1, <1>5
<1>8. PICK d \in Nat : d = Len(served)
  BY <1>4
<1>9. /\ served' \in Seq(R) /\ Len(served') = d + 1
      /\ served'[d + 1] = x /\ \A i \in 1..d : served'[i] = served[i]
  BY <1>4, <1>6, <1>7, <1>8, AppendProperties
<1>10. PICK S : replies \in Seq(S)
  BY <1>2 DEF TypeOK
<1>11. PICK y : y = Response!append_to_buffer(Reply)
  OBVIOUS
<1>12. replies \in Seq(S \cup {y})
  <2>1. \A i \in 1..Len(replies) : replies[i] \in S \cup {y}
    BY <1>10
  <2>2. Len(replies) \in Nat /\ replies = [i \in 1..Len(replies) |-> replies[i]]
    BY <1>10
  <2> QED
    BY <2>1, <2>2
<1>13. PICK a \in Nat : a = Len(replies)
  BY <1>10
<1>14. PICK T : T = S \cup {y}
  OBVIOUS
<1>15. replies \in Seq(T) /\ y \in T
  BY <1>12, <1>14
<1>16. ASSUME conn = "CONNECTED"
       PROVE  /\ replies' \in Seq(T) /\ Len(replies') = a + 1 /\ replies'[a + 1] = y
              /\ \A i \in 1..a : replies'[i] = replies[i]
  <2>1. replies' = Append(replies, y)
    BY <1>1, <1>11, <1>16
  <2> QED
    BY <1>13, <1>15, <2>1, AppendProperties
<1>17. ASSUME conn # "CONNECTED" PROVE replies' = replies
  BY <1>1, <1>17
<1>18. \E U : replies' \in Seq(U)
  BY <1>10, <1>16, <1>17
<1>19. conn' \in {"CONNECTED", "DISCONNECTING"}
  BY <1>1, <1>2 DEF TypeOK
<1>20. FreshRequest \in [state : States, line : Texts \cup {""}, headers : Seq(Texts),
                         body : Seq(Tokens)]
  BY DEF FreshRequest, States
<1>21. FreshParser \in [has_error_ : BOOLEAN, content_length_ : Nat]
  BY DEF FreshParser
<1>22. script' = script
  BY <1>1 DEF script
<1>23. TypeOK'
  BY <1>1, <1>2, <1>3, <1>9, <1>18, <1>19, <1>20, <1>21, <1>22 DEF TypeOK
<1>24. done = d /\ answered = a /\ done' = d + 1
  BY <1>8, <1>9, <1>13 DEF done, answered
<1>25. conn = "CONNECTED" => answered' = a + 1
  BY <1>16 DEF answered
<1>26. conn # "CONNECTED" => answered' = a
  BY <1>13, <1>17 DEF answered
<1> QED
  BY <1>1, <1>5, <1>9, <1>11, <1>16, <1>17, <1>22, <1>23, <1>24, <1>25, <1>26

(***************************************************************************)
(* A parser in its place gives http_callback_ the request it is in.        *)
(***************************************************************************)
LEMMA RequestGiven ==
  ASSUME HttpInv, on_request, InPlace
  PROVE  /\ done < Len(script) /\ served'[done + 1] = Current /\ WellFormedRequest(Current)
         /\ ~parser.has_error_ /\ keep_alive(request) = keep_alive(Current)
         /\ \E p \in Nat : p <= arrived /\ Unread(p) /\ p = End(script, done + 1)
<1>1. pc = "complete"
  BY RequestHistory
<1>2. PICK p \in Nat : p <= arrived /\ Unread(p) /\ Place(p) /\ ~parser.has_error_
  BY <1>1 DEF HttpInv, PlaceInv
<1>3. done < Len(script) /\ AtEnd(p)
  BY <1>1, <1>2 DEF Place
<1>4. /\ p = End(script, done + 1) /\ WellFormedRequest(Current)
      /\ request.line = Current.line /\ request.headers = Current.headers
      /\ request.body = Current.body
  BY <1>3 DEF AtEnd
<1>5. Current \in Requests
  <2>1. TypeOK
    BY DEF HttpInv
  <2> QED
    BY <1>3, <2>1, CurrentFacts
<1>6. Current = [line |-> Current.line, headers |-> Current.headers, body |-> Current.body]
  BY <1>5 DEF Requests
<1>7. served'[done + 1] = [line |-> request.line, headers |-> request.headers,
                           body |-> request.body]
  BY RequestHistory
<1>8. served'[done + 1] = Current
  BY <1>4, <1>6, <1>7
<1>9. keep_alive(request) = keep_alive(Current)
  BY <1>4, SameHeaders
<1> QED
  BY <1>2, <1>3, <1>4, <1>8, <1>9

(***************************************************************************)
(* on_request(): the place in the stream.                                  *)
(***************************************************************************)
LEMMA RequestPlace ==
  ASSUME HttpInv, on_request
  PROVE  ServedInv' /\ PlaceInv' /\ ArrivedInv' /\ AnsweredInv'
<1>1. TypeOK /\ ServedInv /\ ArrivedInv /\ AnsweredInv
  BY DEF HttpInv
<1>2. /\ pc = "complete" /\ pc' = "wait" /\ done' = done + 1 /\ script' = script
      /\ \A i \in 1..done : served'[i] = served[i]
      /\ conn = "CONNECTED" => answered' = answered + 1
      /\ conn # "CONNECTED" => answered' = answered
      /\ conn' = IF Reply.close_connection_ THEN "DISCONNECTING" ELSE conn
      /\ done \in Nat /\ answered \in Nat
  BY RequestHistory
<1>3. /\ usage' = usage /\ arrived' = arrived /\ buffer' = buffer
      /\ request' = FreshRequest /\ parser' = FreshParser
  BY DEF on_request
<1>4. conn' = "CONNECTED" => conn = "CONNECTED"
  BY <1>2
<1>5. KeepsPlace' = KeepsPlace /\ AllWellFormed' = AllWellFormed
  BY <1>2, <1>3 DEF KeepsPlace, AllWellFormed
<1>6. InPlace' => InPlace
  BY <1>4, <1>5 DEF InPlace
<1>7. Len(script) \in Nat /\ LaidOut(script, Len(script)) /\ DOMAIN script = 1..Len(script)
  BY <1>1, ScriptFacts
<1>8. ASSUME InPlace
      PROVE  /\ done + 1 <= Len(script)
             /\ \A i \in 1..done + 1 : served'[i] = script[i] /\ WellFormedRequest(script[i])
  <2>1. done < Len(script) /\ served'[done + 1] = Current /\ WellFormedRequest(Current)
    BY <1>8, RequestGiven
  <2>2. \A i \in 1..done : served[i] = script[i] /\ WellFormedRequest(script[i])
    BY <1>1, <1>8 DEF ServedInv
  <2>3. \A i \in 1..done + 1 : i \in 1..done \/ i = done + 1
    BY <1>2
  <2>4. done + 1 <= Len(script)
    BY <1>2, <1>7, <2>1
  <2> QED
    BY <1>2, <2>1, <2>2, <2>3, <2>4 DEF Current
<1>9. ServedInv'
  BY <1>2, <1>6, <1>8 DEF ServedInv
<1>10. PlaceInv'
  <2>1. ASSUME InPlace
        PROVE  ~parser'.has_error_ /\ \E p \in Nat : p <= arrived' /\ Unread(p)' /\ Place(p)'
    <3>1. PICK p \in Nat : p <= arrived /\ Unread(p) /\ p = End(script, done + 1)
      BY <2>1, RequestGiven
    <3>2. Unread(p)'
      BY <1>2, <1>3, <3>1 DEF Unread
    <3>3. AtLine(p)'
      BY <1>2, <1>3, <3>1 DEF AtLine
    <3>4. Place(p)'
      BY <1>2, <3>3 DEF Place
    <3>5. ~parser'.has_error_
      BY <1>3 DEF FreshParser
    <3> QED
      BY <1>3, <3>1, <3>2, <3>4, <3>5
  <2> QED
    BY <1>6, <2>1 DEF PlaceInv
<1>11. AnsweredInv'
  <2>1. conn' = "CONNECTED" => answered' = done'
    BY <1>1, <1>2, <1>4 DEF AnsweredInv
  <2>2. InPlace' => answered' <= done'
    <3>1. InPlace' => answered <= done
      BY <1>1, <1>6 DEF AnsweredInv
    <3>2. answered' <= answered + 1
      BY <1>2
    <3>3. answered' \in Nat
      BY <1>2
    <3> QED
      BY <1>2, <3>1, <3>2, <3>3
  <2>3. ASSUME KeepsPlace, NEW i \in DOMAIN script, ~WellFormedRequest(script[i])
        PROVE  answered' < i
    <3>1. answered < i
      BY <1>1, <2>3 DEF AnsweredInv
    <3>2. CASE conn = "CONNECTED"
      <4>1. InPlace
        BY <2>3, <3>2 DEF InPlace
      <4>2. i \notin 1..done + 1
        BY <1>8, <2>3, <4>1
      <4>3. i \in Nat /\ 1 <= i
        BY <1>7
      <4>4. answered' = done + 1
        BY <1>1, <1>2, <3>2 DEF AnsweredInv
      <4>5. done + 1 < i
        BY <1>2, <4>2, <4>3
      <4> QED
        BY <4>4, <4>5
    <3>3. CASE conn # "CONNECTED"
      BY <1>2, <3>1, <3>3
    <3> QED
      BY <3>2, <3>3
  <2> QED
    BY <1>2, <1>5, <2>1, <2>2, <2>3 DEF AnsweredInv
<1>12. ArrivedInv'
  <2>1. ASSUME InPlace, ~usage.pipelined
        PROVE  /\ \E m \in 0..Len(script) : m <= answered' + 1 /\ arrived <= End(script, m)
               /\ done + 1 = Len(script) \/ arrived < End(script, done + 1 + 1)
    <3>1. PICK m \in 0..Len(script) : m <= answered + 1 /\ arrived <= End(script, m)
      BY <1>1, <2>1 DEF ArrivedInv
    <3>2. m <= answered' + 1
      BY <1>2, <3>1
    <3>3. answered <= done
      BY <1>1, <2>1 DEF AnsweredInv
    <3>4. ASSUME done + 1 # Len(script) PROVE arrived < End(script, done + 1 + 1)
      <4>1. done + 1 + 1 \in 0..Len(script)
        <5>1. done + 1 <= Len(script)
          BY <1>8, <2>1
        <5>2. PICK x, y \in Nat : x = done /\ y = Len(script)
          BY <1>2, <1>7
        <5>3. x + 1 + 1 \in 0..y
          BY <3>4, <5>1, <5>2
        <5> QED
          BY <5>2, <5>3
      <4>2. m < done + 1 + 1
        BY <1>2, <3>1, <3>3
      <4>3. End(script, m) < End(script, done + 1 + 1)
        BY <1>7, <4>1, <4>2 DEF LaidOut
      <4>4. End(script, m) \in Nat /\ End(script, done + 1 + 1) \in Nat
        BY <1>7, <4>1 DEF LaidOut
      <4>5. arrived \in Nat
        BY <1>1 DEF TypeOK
      <4> QED
        BY <3>1, <4>3, <4>4, <4>5
    <3> QED
      BY <3>1, <3>2, <3>4
  <2>2. usage.whole_segments => \E j \in 0..Len(script) : arrived = End(script, j)
    BY <1>1 DEF ArrivedInv
  <2> QED
    BY <1>2, <1>3, <1>6, <2>1, <2>2 DEF ArrivedInv
<1> QED
  BY <1>9, <1>10, <1>11, <1>12

(***************************************************************************)
(* on_request(): the connection and its responses.                         *)
(***************************************************************************)
LEMMA RequestReply ==
  ASSUME HttpInv, on_request
  PROVE  KeepAliveInv' /\ FramedInv'
<1>1. TypeOK /\ ServedInv /\ AnsweredInv /\ KeepAliveInv /\ FramedInv
  BY DEF HttpInv
<1>2. /\ pc = "complete" /\ pc' = "wait" /\ done' = done + 1 /\ script' = script
      /\ \A i \in 1..done : served'[i] = served[i]
      /\ conn = "CONNECTED" =>
           /\ answered' = answered + 1
           /\ \A i \in 1..answered : replies'[i] = replies[i]
           /\ replies'[answered + 1] = Response!append_to_buffer(Reply)
      /\ conn # "CONNECTED" => replies' = replies /\ answered' = answered
      /\ conn' = IF Reply.close_connection_ THEN "DISCONNECTING" ELSE conn
      /\ done \in Nat /\ answered \in Nat
  BY RequestHistory
<1>3. usage' = usage
  BY DEF on_request
<1>4. Supported' = Supported /\ OneConnectionHeader' = OneConnectionHeader
  BY <1>2, <1>3 DEF Supported, KeepsPlace, OneConnectionHeader
<1>5. conn \in {"CONNECTED", "DISCONNECTING"} /\ usage.handler \in Seq(Response!Calls)
      /\ usage.keep_alive_enabled_ \in BOOLEAN
  BY <1>1, ScriptFacts DEF TypeOK
<1>6. PICK close \in BOOLEAN : close = (~keep_alive(request) \/ ~usage.keep_alive_enabled_)
  <2>1. (~keep_alive(request) \/ ~usage.keep_alive_enabled_) \in BOOLEAN
    OBVIOUS
  <2> QED
    BY <2>1, Zenon
<1>7. PICK c : c = IF close THEN "close" ELSE "keep-alive"
  OBVIOUS
<1>8. ASSUME Plain(usage.handler)
      PROVE  /\ Reply.close_connection_ = close
             /\ Response!append_to_buffer(Reply).connection = <<c, c>>
             /\ Response!append_to_buffer(Reply).length
                  = <<Response!append_to_buffer(Reply).body>>
  BY <1>5, <1>6, <1>7, <1>8, PlainReply
<1>9. ASSUME Plain(usage.handler), conn = "CONNECTED"
      PROVE  conn' = IF close THEN "DISCONNECTING" ELSE "CONNECTED"
  BY <1>2, <1>8, <1>9
<1> DEFINE Ends(i) == ~Persistent(served'[i]) \/ ~usage'.keep_alive_enabled_
<1>10. ASSUME Supported, Plain(usage.handler), OneConnectionHeader
       PROVE  /\ conn' = "CONNECTED" => \A i \in 1..done + 1 : ~Ends(i)
              /\ conn' = "DISCONNECTING" =>
                   /\ answered' \in 1..done + 1 /\ Ends(answered')
                   /\ \A i \in 1..answered' - 1 : ~Ends(i)
  <2>1. InPlace
    BY <1>10 DEF InPlace, Supported, AllWellFormed
  <2>2. /\ done < Len(script) /\ served'[done + 1] = Current
        /\ keep_alive(request) = keep_alive(Current)
    BY <2>1, RequestGiven
  <2>3. /\ Current.headers \in Seq(Texts) /\ done + 1 \in 1..Len(script)
        /\ DOMAIN script = 1..Len(script)
    BY <1>1, <2>2, CurrentFacts, ScriptFacts
  <2>4. \A j, k \in get_header(Current, ConnectionTexts) : j = k
    BY <1>10, <2>3 DEF OneConnectionHeader, Current
  <2>5. keep_alive(Current) <=> Persistent(Current)
    BY <2>3, <2>4, KeepAliveIsPersistent
  <2>6. Ends(done + 1) <=> close
    BY <1>3, <1>6, <2>2, <2>5
  <2>7. \A i \in 1..done : Ends(i) <=> EndsAfter(i)
    BY <1>2, <1>3 DEF EndsAfter
  <2> HIDE DEF Ends
  <2>8. PICK d \in Nat : d = done
    BY <1>2
  <2>9. CASE conn = "CONNECTED"
    <3>1. \A i \in 1..d : ~Ends(i)
      BY <1>1, <1>10, <2>7, <2>8, <2>9 DEF KeepAliveInv
    <3>2. answered' = d + 1
      BY <1>1, <1>2, <2>8, <2>9 DEF AnsweredInv
    <3>3. conn' = IF close THEN "DISCONNECTING" ELSE "CONNECTED"
      BY <1>9, <1>10, <2>9
    <3>4. \A i \in 1..d + 1 : i \in 1..d \/ i = d + 1
      OBVIOUS
    <3>5. d + 1 \in 1..d + 1 /\ d + 1 - 1 = d
      OBVIOUS
    <3>6. CASE close
      <4>1. conn' = "DISCONNECTING" /\ Ends(d + 1)
        BY <2>6, <2>8, <3>3, <3>6
      <4> QED
        BY <2>8, <3>1, <3>2, <3>5, <4>1
    <3>7. CASE ~close
      <4>1. conn' = "CONNECTED" /\ ~Ends(d + 1)
        BY <2>6, <2>8, <3>3, <3>7
      <4> QED
        BY <2>8, <3>1, <3>4, <4>1
    <3> QED
      BY <3>6, <3>7
  <2>10. CASE conn = "DISCONNECTING"
    <3>1. PICK a \in Nat : a = answered
      BY <1>2
    <3>2. /\ a \in 1..d /\ EndsAfter(a) /\ \A i \in 1..a - 1 : ~EndsAfter(i)
      BY <1>1, <1>10, <2>8, <2>10, <3>1 DEF KeepAliveInv
    <3>3. conn' = "DISCONNECTING" /\ answered' = a
      BY <1>2, <2>10, <3>1
    <3>4. a \in 1..d + 1 /\ \A i \in 1..a - 1 : i \in 1..d
      BY <3>2
    <3>5. Ends(a) /\ \A i \in 1..a - 1 : ~Ends(i)
      BY <2>7, <2>8, <3>2, <3>4
    <3> QED
      BY <2>8, <3>3, <3>4, <3>5
  <2> QED
    BY <1>5, <2>9, <2>10
<1>11. KeepAliveInv'
  BY <1>2, <1>3, <1>4, <1>10 DEF KeepAliveInv, EndsAfter
<1> HIDE DEF Ends
<1>12. PICK a \in Nat : a = answered
  BY <1>2
<1>13. ASSUME Plain(usage.handler)
       PROVE  /\ \A i \in 1..answered' :
                   /\ replies'[i].length = <<replies'[i].body>>
                   /\ \/ replies'[i].connection = <<"keep-alive", "keep-alive">>
                      \/ /\ replies'[i].connection = <<"close", "close">>
                         /\ conn' = "DISCONNECTING" /\ i = answered'
              /\ Supported /\ conn' = "DISCONNECTING" =>
                   answered' > 0 /\ replies'[answered'].connection = <<"close", "close">>
  <2>1. /\ \A i \in 1..a :
             /\ replies[i].length = <<replies[i].body>>
             /\ \/ replies[i].connection = <<"keep-alive", "keep-alive">>
                \/ /\ replies[i].connection = <<"close", "close">>
                   /\ conn = "DISCONNECTING" /\ i = a
        /\ Supported /\ conn = "DISCONNECTING" =>
             a > 0 /\ replies[a].connection = <<"close", "close">>
    BY <1>1, <1>12, <1>13 DEF FramedInv
  <2>2. CASE conn = "CONNECTED"
    <3>1. /\ answered' = a + 1 /\ \A i \in 1..a : replies'[i] = replies[i]
          /\ replies'[a + 1] = Response!append_to_buffer(Reply)
      BY <1>2, <1>12, <2>2
    <3>2. /\ replies'[a + 1].connection = <<c, c>>
          /\ replies'[a + 1].length = <<replies'[a + 1].body>>
      BY <1>8, <1>13, <3>1
    <3>3. conn' = IF close THEN "DISCONNECTING" ELSE "CONNECTED"
      BY <1>9, <1>13, <2>2
    <3>4. \A i \in 1..a + 1 : i \in 1..a \/ i = a + 1
      OBVIOUS
    <3>5. \A i \in 1..a : /\ replies'[i].length = <<replies'[i].body>>
                         /\ replies'[i].connection = <<"keep-alive", "keep-alive">>
      BY <2>1, <2>2, <3>1
    <3>6. a + 1 > 0
      OBVIOUS
    <3>7. CASE close
      <4>1. replies'[a + 1].connection = <<"close", "close">> /\ conn' = "DISCONNECTING"
        BY <1>7, <3>2, <3>3, <3>7
      <4> QED
        BY <3>1, <3>2, <3>4, <3>5, <3>6, <4>1
    <3>8. CASE ~close
      <4>1. replies'[a + 1].connection = <<"keep-alive", "keep-alive">> /\ conn' = "CONNECTED"
        BY <1>7, <3>2, <3>3, <3>8
      <4> QED
        BY <3>1, <3>2, <3>4, <3>5, <4>1
    <3> QED
      BY <3>7, <3>8
  <2>3. CASE conn = "DISCONNECTING"
    <3>1. replies' = replies /\ answered' = a /\ conn' = "DISCONNECTING"
      BY <1>2, <1>12, <2>3
    <3> QED
      BY <2>1, <2>3, <3>1
  <2> QED
    BY <1>5, <2>2, <2>3
<1>14. FramedInv'
  BY <1>3, <1>4, <1>13 DEF FramedInv
<1> QED
  BY <1>11, <1>14

(***************************************************************************)
(* on_request().                                                           *)
(***************************************************************************)
LEMMA RequestStep ==
  ASSUME HttpInv, on_request
  PROVE  HttpInv'
<1>1. TypeOK'
  BY RequestHistory
<1> QED
  BY <1>1, RequestPlace, RequestReply DEF HttpInv

(***************************************************************************)
(* A segment is a part of the stream that the client may send.             *)
(***************************************************************************)
LEMMA SegmentFacts ==
  ASSUME TypeOK, NEW n \in Nat, n > 0, on_message(n)
  PROVE  /\ arrived \in Nat /\ Len(Stream(script)) \in Nat
         /\ arrived + n <= Len(Stream(script))
         /\ ~usage.pipelined =>
              answered + 1 \in 0..Len(script) /\ arrived + n <= End(script, answered + 1)
         /\ usage.whole_segments => \E j \in 0..Len(script) : arrived + n = End(script, j)
<1>1. /\ Len(script) \in Nat /\ answered \in Nat /\ LaidOut(script, Len(script))
      /\ DOMAIN script = 1..Len(script)
  BY ScriptFacts
<1>2. PICK x \in Nat : x = Len(script)
  BY <1>1
<1>3. PICK a \in Nat : a = answered
  BY <1>1
<1>4. PICK v \in Nat : v = arrived
  BY DEF TypeOK
<1>5. /\ \A k \in 0..x : End(script, k) \in Nat
      /\ End(script, x) = Len(Stream(script))
      /\ \A j, k \in 0..x : j < k => End(script, j) < End(script, k)
  BY <1>1, <1>2 DEF LaidOut
<1>6. x \in 0..x
  OBVIOUS
<1>7. PICK l \in Nat : l = Len(Stream(script)) /\ l = End(script, x)
  BY <1>5, <1>6
<1>8. /\ v + n <= (IF usage.pipelined THEN l
                   ELSE IF a < x THEN End(script, a + 1) ELSE 0)
      /\ usage.whole_segments => \E i \in DOMAIN script : v + n = End(script, i)
  BY <1>2, <1>3, <1>4, <1>7 DEF on_message
<1>9. ASSUME ~usage.pipelined
      PROVE  a + 1 \in 0..x /\ v + n <= End(script, a + 1) /\ End(script, a + 1) <= l
  <2>1. a < x
    <3>1. ASSUME ~(a < x) PROVE FALSE
      <4>1. v + n <= 0
        BY <1>8, <1>9, <3>1
      <4> QED
        BY <4>1
    <3> QED
      BY <3>1
  <2>2. a + 1 \in 0..x
    BY <2>1
  <2>3. v + n <= End(script, a + 1)
    BY <1>8, <1>9, <2>1
  <2>4. CASE a + 1 = x
    <3>1. End(script, a + 1) = l
      BY <1>7, <2>4
    <3> QED
      BY <2>2, <2>3, <3>1
  <2>5. CASE a + 1 # x
    <3>1. a + 1 < x
      BY <2>1, <2>5
    <3>2. End(script, a + 1) < l /\ End(script, a + 1) \in Nat
      BY <1>5, <1>6, <1>7, <2>2, <3>1
    <3>3. End(script, a + 1) <= l
      BY <3>2
    <3> QED
      BY <2>2, <2>3, <3>3
  <2> QED
    BY <2>4, <2>5
<1>10. v + n <= l
  <2>1. CASE usage.pipelined
    BY <1>8, <2>1
  <2>2. CASE ~usage.pipelined
    <3>1. PICK e \in Nat : e = End(script, a + 1)
      BY <1>5, <1>9, <2>2
    <3>2. v + n <= e /\ e <= l
      BY <1>9, <2>2, <3>1
    <3> QED
      BY <3>2
  <2> QED
    BY <2>1, <2>2
<1>11. ASSUME usage.whole_segments PROVE \E j \in 0..x : v + n = End(script, j)
  <2>1. PICK j \in 1..x : v + n = End(script, j)
    BY <1>1, <1>2, <1>8, <1>11
  <2>2. j \in 0..x
    OBVIOUS
  <2> QED
    BY <2>1, <2>2
<1> QED
  BY <1>2, <1>3, <1>4, <1>7, <1>9, <1>10, <1>11

(***************************************************************************)
(* handle_read() appends a segment: the buffer holds the stream from the   *)
(* same place on.                                                          *)
(***************************************************************************)
LEMMA SegmentAppended ==
  ASSUME TypeOK, NEW n \in Nat, n > 0, on_message(n)
  PROVE  /\ buffer' \in Seq(Tokens)
         /\ \A p \in Nat : p <= arrived /\ Unread(p) => Unread(p)'
<1>1. PICK v \in Nat : v = arrived /\ arrived' = v + n
  BY DEF TypeOK, on_message
<1>2. PICK t \in Seq(Tokens) : t = Stream(script)
  BY ScriptFacts DEF LaidOut
<1>3. v + n \in Nat /\ v <= v + n /\ v + n <= Len(t) /\ v + n - v = n
  BY <1>1, <1>2, SegmentFacts
<1>4. PICK s : s = SubSeq(t, v + 1, v + n)
  OBVIOUS
<1>5. s \in Seq(Tokens) /\ Len(s) = v + n - v /\ \A i \in 1..v + n - v : s[i] = t[v + i]
  BY <1>3, <1>4, Part
<1>6. Len(s) = n /\ \A i \in 1..n : s[i] = t[v + i]
  BY <1>3, <1>5
<1>7. PICK b \in Seq(Tokens) : b = buffer
  BY DEF TypeOK
<1>8. PICK m \in Nat : m = Len(b)
  OBVIOUS
<1>9. buffer' = b \o s
  BY <1>1, <1>2, <1>4, <1>7 DEF on_message
<1>10. buffer' \in Seq(Tokens) /\ Glued(buffer', b, m, s, n)
  BY <1>5, <1>6, <1>8, <1>9, Behind
<1>11. script' = script
  BY DEF on_message, script
<1>12. ASSUME NEW p \in Nat, p <= arrived, Unread(p) PROVE Unread(p)'
  <2>1. m = v - p /\ \A i \in 1..m : b[i] = t[p + i]
    BY <1>1, <1>2, <1>7, <1>8, <1>12 DEF Unread
  <2>2. Len(buffer') = m + n
    BY <1>10 DEF Glued
  <2>3. m + n = v + n - p
    BY <1>1, <1>12, <2>1
  <2>4. ASSUME NEW i \in 1..m + n PROVE buffer'[i] = t[p + i]
    <3>1. CASE i <= m
      <4>1. i \in 1..m
        BY <3>1
      <4> QED
        BY <1>10, <2>1, <4>1 DEF Glued
    <3>2. CASE ~(i <= m)
      <4>1. PICK j \in 1..n : i = m + j /\ v + j = p + i
        <5>1. i - m \in 1..n /\ i = m + (i - m) /\ v + (i - m) = p + i
          BY <1>1, <1>12, <2>1, <3>2
        <5> QED
          BY <5>1
      <4>2. buffer'[m + j] = s[j] /\ s[j] = t[v + j]
        BY <1>6, <1>10 DEF Glued
      <4> QED
        BY <4>1, <4>2
    <3> QED
      BY <3>1, <3>2
  <2> QED
    BY <1>1, <1>2, <1>11, <2>2, <2>3, <2>4 DEF Unread
<1> QED
  BY <1>10, <1>12

(***************************************************************************)
(* on_message().                                                           *)
(***************************************************************************)
LEMMA MessageStep ==
  ASSUME HttpInv, NEW n \in Nat, n > 0, on_message(n)
  PROVE  HttpInv'
<1>1. /\ pc = "wait" /\ pc' = "parse" /\ arrived' = arrived + n
      /\ request' = IF usage.keep_request THEN request ELSE FreshRequest
      /\ UNCHANGED <<usage, parser, conn, served, replies>>
  BY DEF on_message
<1>2. /\ AnsweredInv' /\ KeepAliveInv' /\ FramedInv'
      /\ InPlace' = InPlace /\ script' = script /\ done' = done /\ Current' = Current
      /\ answered' = answered
  BY <1>1, HistoryKept
<1>3. TypeOK /\ ServedInv /\ PlaceInv /\ ArrivedInv
  BY DEF HttpInv
<1>4. /\ arrived \in Nat /\ Len(Stream(script)) \in Nat
      /\ arrived + n <= Len(Stream(script))
      /\ ~usage.pipelined =>
           answered + 1 \in 0..Len(script) /\ arrived + n <= End(script, answered + 1)
      /\ usage.whole_segments => \E j \in 0..Len(script) : arrived + n = End(script, j)
  BY <1>3, SegmentFacts
<1>5. /\ buffer' \in Seq(Tokens)
      /\ \A p \in Nat : p <= arrived /\ Unread(p) => Unread(p)'
  BY <1>3, SegmentAppended
<1>6. FreshRequest \in [state : States, line : Texts \cup {""}, headers : Seq(Texts),
                        body : Seq(Tokens)]
  BY DEF FreshRequest, States
<1>7. TypeOK'
  <2>1. request' \in [state : States, line : Texts \cup {""}, headers : Seq(Texts),
                      body : Seq(Tokens)]
    BY <1>1, <1>3, <1>6 DEF TypeOK
  <2>2. arrived' \in Nat /\ arrived' <= Len(Stream(script'))
    BY <1>1, <1>2, <1>4
  <2> QED
    BY <1>1, <1>2, <1>3, <1>5, <2>1, <2>2 DEF TypeOK
<1>8. ServedInv'
  <2>1. pc' # "failed" /\ served' = served
    BY <1>1
  <2> QED
    BY <1>2, <1>3, <2>1 DEF ServedInv
<1>9. /\ Len(script) \in Nat /\ done \in Nat /\ LaidOut(script, Len(script))
      /\ usage.keep_request \in BOOLEAN
  BY <1>3, ScriptFacts
<1>10. ASSUME InPlace
       PROVE  /\ ~parser.has_error_ /\ done < Len(script)
              /\ \E p \in Nat : /\ p <= arrived /\ Unread(p)
                                /\ \/ AtLine(p)
                                   \/ usage.keep_request /\ (AtHeaders(p) \/ AtBody(p))
  <2>1. PICK p \in Nat : p <= arrived /\ Unread(p) /\ Place(p) /\ ~parser.has_error_
    BY <1>1, <1>3, <1>10 DEF PlaceInv
  <2>2. AtLine(p) \/ /\ usage.keep_request /\ done < Len(script)
                     /\ AtHeaders(p) \/ AtBody(p)
    BY <1>1, <2>1 DEF Place
  <2>3. done <= Len(script)
    BY <1>3, <1>10 DEF ServedInv
  <2>4. done # Len(script)
    <3>1. ASSUME done = Len(script) PROVE FALSE
      <4>1. AtLine(p)
        BY <1>9, <2>2, <3>1
      <4>2. p = Len(Stream(script))
        BY <1>9, <3>1, <4>1 DEF AtLine, LaidOut
      <4>3. p <= arrived /\ arrived + n <= p
        BY <1>4, <2>1, <4>2
      <4> QED
        BY <1>4, <4>3
    <3> QED
      BY <3>1
  <2>5. done < Len(script)
    BY <1>9, <2>3, <2>4
  <2> QED
    BY <2>1, <2>2, <2>5
<1>11. PlaceInv'
  <2>1. ASSUME InPlace
        PROVE  ~parser'.has_error_ /\ \E p \in Nat : p <= arrived' /\ Unread(p)' /\ Place(p)'
    <3>1. PICK p \in Nat : /\ p <= arrived /\ Unread(p)
                           /\ \/ AtLine(p)
                              \/ usage.keep_request /\ (AtHeaders(p) \/ AtBody(p))
      BY <1>10, <2>1
    <3>2. Unread(p)' /\ p <= arrived'
      BY <1>1, <1>4, <1>5, <3>1
    <3>3. AtLine(p) => AtLine(p)'
      BY <1>1, <1>2 DEF AtLine
    <3>4. usage.keep_request /\ AtHeaders(p) => AtHeaders(p)'
      BY <1>1, <1>2 DEF AtHeaders
    <3>5. usage.keep_request /\ AtBody(p) => AtBody(p)'
      BY <1>1, <1>2 DEF AtBody
    <3>6. Place(p)'
      BY <1>1, <1>2, <1>10, <2>1, <3>1, <3>3, <3>4, <3>5 DEF Place
    <3> QED
      BY <1>1, <1>10, <2>1, <3>2, <3>6
  <2> QED
    BY <1>2, <2>1 DEF PlaceInv
<1>12. ArrivedInv'
  <2>1. ASSUME InPlace, ~usage.keep_request PROVE End(script, done + 1) <= arrived + n
    <3>1. usage.whole_segments
      BY <2>1 DEF InPlace, KeepsPlace
    <3>2. PICK j \in 0..Len(script) : arrived + n = End(script, j)
      BY <1>4, <3>1
    <3>3. PICK p \in Nat : p <= arrived /\ AtLine(p) /\ done < Len(script)
      BY <1>10, <2>1
    <3>4. p = End(script, done)
      BY <3>3 DEF AtLine
    <3>5. PICK d, x \in Nat : d = done /\ x = Len(script) /\ d < x
      BY <1>9, <3>3
    <3>6. /\ \A k \in 0..x : End(script, k) \in Nat
          /\ \A i, k \in 0..x : i < k => End(script, i) < End(script, k)
      BY <1>9, <3>5 DEF LaidOut
    <3>7. End(script, d) < End(script, j)
      BY <1>4, <3>2, <3>3, <3>4, <3>5
    <3>8. j \in 0..x /\ d \in 0..x /\ d + 1 \in 0..x
      BY <3>5
    <3>9. ~(j <= d)
      <4>1. ASSUME j < d PROVE FALSE
        <5>1. End(script, j) < End(script, d)
          BY <3>6, <3>8, <4>1
        <5>2. End(script, j) \in Nat /\ End(script, d) \in Nat
          BY <3>6, <3>8
        <5> QED
          BY <3>7, <5>1, <5>2
      <4>2. ASSUME j = d PROVE FALSE
        <5>1. End(script, d) \in Nat
          BY <3>6, <3>8
        <5> QED
          BY <3>7, <4>2, <5>1
      <4> QED
        BY <3>8, <4>1, <4>2
    <3>10. d + 1 = j \/ d + 1 < j
      BY <3>8, <3>9
    <3>11. End(script, d + 1) <= End(script, j)
      <4>1. End(script, d + 1) \in Nat /\ End(script, j) \in Nat
        BY <3>6, <3>8
      <4>2. d + 1 = j \/ End(script, d + 1) < End(script, j)
        BY <3>6, <3>8, <3>10
      <4> QED
        BY <4>1, <4>2
    <3> QED
      BY <3>2, <3>5, <3>11
  <2>2. ASSUME ~usage.pipelined
        PROVE  \E m \in 0..Len(script) : m <= answered + 1 /\ arrived + n <= End(script, m)
    <3>1. answered + 1 \in 0..Len(script) /\ arrived + n <= End(script, answered + 1)
      BY <1>4, <2>2
    <3>2. answered + 1 <= answered + 1
      BY <3>1
    <3> QED
      BY <3>1, <3>2
  <2> QED
    BY <1>1, <1>2, <1>4, <2>1, <2>2 DEF ArrivedInv
<1> QED
  BY <1>2, <1>7, <1>8, <1>11, <1>12 DEF HttpInv

-----------------------------------------------------------------------------
(***************************************************************************)
(* The invariant holds at first.                                           *)
(***************************************************************************)
LEMMA HttpInit ==
  ASSUME Init
  PROVE  HttpInv
<1>1. /\ usage \in Usages /\ arrived = 0 /\ buffer = << >> /\ pc = "wait"
      /\ request = FreshRequest /\ parser = FreshParser /\ conn = "CONNECTED"
      /\ served = << >> /\ replies = << >>
  BY DEF Init
<1>2. PICK u \in Usages : u = usage
  BY <1>1
<1>3. u.script \in Seq(Requests)
  BY UsagesAssumption
<1>4. PICK x \in Nat : x = Len(u.script)
  BY <1>3
<1>5. LaidOut(u.script, x)
  BY <1>3, <1>4, StreamLayout
<1>6. Stream(u.script) \in Seq(Tokens)
  BY <1>5 DEF LaidOut
<1>7. Len(Stream(u.script)) \in Nat
  BY <1>6
<1>8. script = u.script /\ done = 0 /\ answered = 0
  BY <1>1, <1>2 DEF script, done, answered
<1>9. TypeOK
  <2>1. FreshRequest \in [state : States, line : Texts \cup {""}, headers : Seq(Texts),
                          body : Seq(Tokens)]
    BY DEF FreshRequest, States
  <2>2. FreshParser \in [has_error_ : BOOLEAN, content_length_ : Nat]
    BY DEF FreshParser
  <2>3. 0 <= Len(Stream(script))
    BY <1>7, <1>8
  <2>4. \E S : replies \in Seq(S)
    <3>1. << >> \in Seq({})
      OBVIOUS
    <3> QED
      BY <1>1, <3>1
  <2>5. buffer \in Seq(Tokens)
    BY <1>1
  <2>6. served \in Seq([line : Texts \cup {""}, headers : Seq(Texts), body : Seq(Tokens)])
    <3>1. PICK R : R = [line : Texts \cup {""}, headers : Seq(Texts), body : Seq(Tokens)]
      OBVIOUS
    <3>2. served \in Seq(R)
      BY <1>1
    <3> QED
      BY <3>1, <3>2
  <2>7. arrived \in Nat /\ arrived <= Len(Stream(script))
    BY <1>1, <2>3
  <2> QED
    BY <1>1, <2>1, <2>2, <2>4, <2>5, <2>6, <2>7 DEF TypeOK
<1>10. ServedInv
  BY <1>1, <1>4, <1>8 DEF ServedInv
<1>11. End(script, 0) = 0
  BY <1>5, <1>8 DEF LaidOut
<1>12. PlaceInv
  <2>1. Unread(0)
    BY <1>1 DEF Unread
  <2>2. AtLine(0)
    BY <1>1, <1>8, <1>11 DEF AtLine
  <2>3. Place(0)
    BY <1>1, <2>2 DEF Place
  <2>4. ~parser.has_error_
    BY <1>1 DEF FreshParser
  <2>5. 0 \in Nat /\ 0 <= arrived
    BY <1>1
  <2> QED
    BY <2>1, <2>3, <2>4, <2>5 DEF PlaceInv
<1>13. ArrivedInv
  <2>1. 0 \in 0..Len(script) /\ 0 <= answered + 1 /\ arrived <= End(script, 0)
    BY <1>1, <1>4, <1>8, <1>11
  <2>2. done = Len(script) \/ arrived < End(script, done + 1)
    <3>1. ASSUME x # 0 PROVE 0 < End(u.script, 0 + 1)
      <4>1. 0 \in 0..x /\ 1 \in 0..x /\ 0 < 1
        BY <3>1
      <4>2. End(u.script, 0) < End(u.script, 1)
        BY <1>5, <4>1 DEF LaidOut
      <4> QED
        BY <1>8, <1>11, <4>2
    <3> QED
      BY <1>1, <1>4, <1>8, <3>1
  <2>3. \E m \in 0..Len(script) : m <= answered + 1 /\ arrived <= End(script, m)
    BY <2>1
  <2>4. \E j \in 0..Len(script) : arrived = End(script, j)
    BY <1>1, <1>11, <2>1
  <2> QED
    BY <1>1, <2>2, <2>3, <2>4 DEF ArrivedInv
<1>14. AnsweredInv
  <2>1. \A i \in DOMAIN script : 0 < i
    BY <1>3, <1>8
  <2> QED
    BY <1>8, <2>1 DEF AnsweredInv
<1>15. KeepAliveInv /\ FramedInv
  BY <1>1, <1>8 DEF KeepAliveInv, FramedInv
<1> QED
  BY <1>9, <1>10, <1>12, <1>13, <1>14, <1>15 DEF HttpInv

(***************************************************************************)
(* Every step preserves it.                                                *)
(***************************************************************************)
LEMMA HttpNext ==
  ASSUME HttpInv, [Next]_vars
  PROVE  HttpInv'
<1>1. CASE UNCHANGED vars
  <2>1. UNCHANGED <<usage, arrived, buffer, pc, request, parser, conn, served, replies>>
    BY <1>1 DEF vars
  <2>2. /\ AnsweredInv' /\ KeepAliveInv' /\ FramedInv'
        /\ InPlace' = InPlace /\ script' = script /\ done' = done /\ Current' = Current
        /\ answered' = answered
    BY <2>1, HistoryKept
  <2>3. TypeOK /\ ServedInv /\ PlaceInv /\ ArrivedInv
    BY DEF HttpInv
  <2>4. TypeOK'
    BY <2>1, <2>2, <2>3 DEF TypeOK
  <2>5. ServedInv'
    BY <2>1, <2>2, <2>3 DEF ServedInv
  <2>6. ArrivedInv'
    BY <2>1, <2>2, <2>3 DEF ArrivedInv
  <2>7. \A p \in Nat : Unread(p) => Unread(p)'
    BY <2>1, <2>2 DEF Unread
  <2>8. \A p \in Nat : Place(p) => Place(p)'
    <3>1. ASSUME NEW p \in Nat, Place(p) PROVE Place(p)'
      <4>1. AtLine(p) => AtLine(p)'
        BY <2>1, <2>2 DEF AtLine
      <4>2. AtHeaders(p) => AtHeaders(p)'
        BY <2>1, <2>2 DEF AtHeaders
      <4>3. AtBody(p) => AtBody(p)'
        BY <2>1, <2>2 DEF AtBody
      <4>4. AtEnd(p) => AtEnd(p)'
        BY <2>1, <2>2 DEF AtEnd
      <4>5. pc' = pc /\ usage' = usage
        BY <2>1
      <4> QED
        BY <2>2, <3>1, <4>1, <4>2, <4>3, <4>4, <4>5 DEF Place
    <3> QED
      BY <3>1
  <2>9. PlaceInv'
    BY <2>1, <2>2, <2>3, <2>7, <2>8 DEF PlaceInv
  <2> QED
    BY <2>2, <2>4, <2>5, <2>6, <2>9 DEF HttpInv
<1>2. CASE parse_request_line
  BY <1>2, RequestLineStep
<1>3. CASE parse_header_line
  BY <1>3, HeaderLineStep
<1>4. CASE parse_blank_line
  BY <1>4, BlankLineStep
<1>5. CASE parse_body
  BY <1>5, BodyStep
<1>6. CASE need_more
  BY <1>6, NeedMoreStep
<1>7. CASE parse_failed
  BY <1>7, FailedStep
<1>8. CASE on_request
  BY <1>8, RequestStep
<1>9. CASE \E n \in 1..Len(Stream(script)) : on_message(n)
  <2>1. PICK n \in 1..Len(Stream(script)) : on_message(n)
    BY <1>9
  <2>2. n \in Nat /\ n > 0
    OBVIOUS
  <2> QED
    BY <2>1, <2>2, MessageStep
<1> QED
  BY <1>1, <1>2, <1>3, <1>4, <1>5, <1>6, <1>7, <1>8, <1>9 DEF Next, Parse

(***************************************************************************)
(* The inductive invariant.                                                *)
(***************************************************************************)
THEOREM HttpInvariant == Spec => []HttpInv
<1>1. Init => HttpInv
  BY HttpInit
<1>2. HttpInv /\ [Next]_vars => HttpInv'
  BY HttpNext
<1> QED
  BY <1>1, <1>2, PTL DEF Spec

(***************************************************************************)
(* The connection, its parser and its buffer keep their types              *)
(* (on_message, parse_request).                                            *)
(***************************************************************************)
THEOREM TypeCorrect == Spec => []TypeOK
<1>1. HttpInv => TypeOK
  BY DEF HttpInv
<1> QED
  BY <1>1, HttpInvariant, PTL

-----------------------------------------------------------------------------
(* The requests served.                                                    *)

(***************************************************************************)
(* The last request that has arrived is the last one served, if the next   *)
(* one has not arrived.                                                    *)
(***************************************************************************)
LEMMA MostRecentIs ==
  ASSUME TypeOK, NEW d \in 0..Len(script), End(script, d) <= arrived,
         d = Len(script) \/ arrived < End(script, d + 1)
  PROVE  MostRecent = d
<1>1. PICK x \in Nat : x = Len(script)
  BY ScriptFacts
<1>2. /\ \A k \in 0..x : End(script, k) \in Nat
      /\ \A j, k \in 0..x : j < k => End(script, j) < End(script, k)
  BY <1>1, ScriptFacts DEF LaidOut
<1>3. PICK a \in Nat : a = arrived
  BY DEF TypeOK
<1>4. Complete = {i \in 0..x : End(script, i) <= a}
  BY <1>1, <1>3 DEF Complete
<1>5. d \in Complete
  BY <1>1, <1>3, <1>4
<1>6. ASSUME NEW j \in Complete PROVE j <= d
  <2>1. j \in 0..x /\ d \in 0..x /\ End(script, j) <= a
    BY <1>1, <1>4
  <2>2. ASSUME ~(j <= d) PROVE FALSE
    <3>1. d # x /\ d + 1 \in 0..x /\ (d + 1 = j \/ d + 1 < j)
      BY <2>1, <2>2
    <3>2. a < End(script, d + 1)
      BY <1>1, <1>3, <3>1
    <3>3. d + 1 = j \/ End(script, d + 1) < End(script, j)
      BY <1>2, <2>1, <3>1
    <3>4. End(script, d + 1) \in Nat /\ End(script, j) \in Nat
      BY <1>2, <2>1, <3>1
    <3> QED
      BY <2>1, <3>2, <3>3, <3>4
  <2> QED
    BY <2>2
<1>7. ASSUME NEW i \in Complete, \A j \in Complete : j <= i PROVE i = d
  <2>1. d <= i /\ i <= d /\ i \in 0..x /\ d \in 0..x
    BY <1>1, <1>4, <1>5, <1>6, <1>7
  <2> QED
    BY <2>1
<1>8. PICK m : m = MostRecent
  OBVIOUS
<1>9. m \in Complete /\ \A j \in Complete : j <= m
  <2>1. \E i \in Complete : \A j \in Complete : j <= i
    BY <1>5, <1>6
  <2> QED
    BY <1>8, <2>1, Zenon DEF MostRecent
<1> QED
  BY <1>7, <1>8, <1>9

(***************************************************************************)
(* The first requests of the script.                                       *)
(***************************************************************************)
LEMMA ServedIsPrefix ==
  ASSUME HttpInv, InPlace
  PROVE  served = SubSeq(script, 1, done) /\ IsPrefix(served, script)
<1>1. TypeOK /\ ServedInv
  BY DEF HttpInv
<1>2. PICK d \in Nat : d = done /\ d = Len(served)
  BY <1>1, ScriptFacts DEF done
<1>3. PICK x \in Nat : x = Len(script) /\ d <= x
  BY <1>1, <1>2, ScriptFacts DEF ServedInv
<1>4. PICK R : /\ R = [line : Texts \cup {""}, headers : Seq(Texts), body : Seq(Tokens)]
  OBVIOUS
<1>5. served \in Seq(R)
  BY <1>1, <1>4 DEF TypeOK
<1>6. PICK s \in Seq(Requests) : s = script
  BY <1>1, ScriptFacts
<1>7. PICK c : c = SubSeq(s, 0 + 1, d)
  OBVIOUS
<1>8. c \in Seq(Requests) /\ Len(c) = d - 0 /\ \A i \in 1..d - 0 : c[i] = s[0 + i]
  <2>1. 0 \in Nat /\ 0 <= d /\ d <= Len(s)
    BY <1>3, <1>6
  <2> QED
    BY <1>7, <2>1, Part
<1>9. Len(c) = d /\ \A i \in 1..d : c[i] = s[i]
  <2>1. d - 0 = d /\ \A i \in 1..d : 0 + i = i
    OBVIOUS
  <2> QED
    BY <1>8, <2>1
<1>10. \A i \in 1..d : served[i] = c[i]
  BY <1>1, <1>2, <1>6, <1>9 DEF ServedInv
<1>11. served = [i \in 1..d |-> served[i]] /\ c = [i \in 1..d |-> c[i]]
  BY <1>2, <1>5, <1>8, <1>9
<1>12. served = c
  BY <1>10, <1>11
<1>13. c = SubSeq(script, 1, d)
  BY <1>6, <1>7
<1>14. SubSeq(served, 1, d) = served
  <2>1. PICK b : b = SubSeq(c, 0 + 1, d)
    OBVIOUS
  <2>2. b \in Seq(Requests) /\ Len(b) = d - 0 /\ \A i \in 1..d - 0 : b[i] = c[0 + i]
    <3>1. 0 \in Nat /\ 0 <= d /\ d <= Len(c)
      BY <1>9
    <3> QED
      BY <1>8, <2>1, <3>1, Part
  <2>3. Len(b) = Len(c) /\ \A i \in 1..Len(b) : b[i] = c[i]
    <3>1. d - 0 = d /\ \A i \in 1..d : 0 + i = i
      OBVIOUS
    <3> QED
      BY <1>9, <2>2, <3>1
  <2>4. b = c
    BY <1>8, <2>2, <2>3, SeqEqual
  <2> QED
    BY <1>12, <2>1, <2>4
<1> QED
  BY <1>2, <1>3, <1>12, <1>13, <1>14 DEF IsPrefix

(***************************************************************************)
(* What http_callback_ is given depends on the bytes, not on where the     *)
(* segments were cut, for every caller that keeps its HttpRequest and for  *)
(* every client whose segments are requests (parse_request, on_message).   *)
(***************************************************************************)
THEOREM RequestsAreServed == Spec => []RequestsServed
<1>1. ASSUME HttpInv PROVE RequestsServed
  <2>1. ASSUME Supported PROVE IsPrefix(served, script) /\ (usage.pipelined \/ EveryRequestServed)
    <3>1. InPlace
      BY <2>1 DEF InPlace, Supported, AllWellFormed
    <3>2. served = SubSeq(script, 1, done) /\ IsPrefix(served, script)
      BY <1>1, <3>1, ServedIsPrefix
    <3>3. TypeOK /\ ServedInv /\ PlaceInv /\ ArrivedInv
      BY <1>1 DEF HttpInv
    <3>4. ASSUME ~usage.pipelined, pc = "wait" PROVE served = SubSeq(script, 1, MostRecent)
      <4>1. done = Len(script) \/ arrived < End(script, done + 1)
        BY <3>1, <3>3, <3>4 DEF ArrivedInv
      <4>2. done <= Len(script)
        BY <3>1, <3>3 DEF ServedInv
      <4>3. done \in Nat /\ Len(script) \in Nat /\ LaidOut(script, Len(script))
        BY <3>3, ScriptFacts
      <4>4. done \in 0..Len(script)
        BY <4>2, <4>3
      <4>5. PICK e \in Nat : e = End(script, done)
        BY <4>3, <4>4 DEF LaidOut
      <4>6. PICK p \in Nat : p <= arrived /\ Place(p)
        BY <3>1, <3>3, <3>4 DEF PlaceInv
      <4>7. e <= p
        <5>1. CASE AtLine(p)
          BY <4>5, <5>1 DEF AtLine
        <5>2. CASE AtHeaders(p)
          <6>1. request.headers \in Seq(Texts)
            BY <3>3 DEF TypeOK
          <6>2. PICK k \in Nat : k = Len(request.headers)
            BY <6>1
          <6>3. p = e + 3 + 3 * k
            BY <4>5, <5>2, <6>2 DEF AtHeaders
          <6> QED
            BY <6>3
        <5>3. CASE AtBody(p) /\ done < Len(script)
          <6>1. PICK k \in Nat : k = Len(Current.headers)
            BY <3>3, <5>3, CurrentFacts
          <6>2. p = e + 5 + 3 * k
            BY <4>5, <5>3, <6>1 DEF AtBody
          <6> QED
            BY <6>2
        <5> QED
          BY <3>4, <4>6, <5>1, <5>2, <5>3 DEF Place
      <4>8. arrived \in Nat
        BY <3>3 DEF TypeOK
      <4>9. End(script, done) <= arrived
        BY <4>5, <4>6, <4>7, <4>8
      <4>10. MostRecent = done
        BY <3>3, <4>1, <4>4, <4>9, MostRecentIs
      <4> QED
        BY <3>2, <4>10
    <3> QED
      BY <3>2, <3>4 DEF EveryRequestServed
  <2> QED
    BY <2>1 DEF RequestsServed
<1> QED
  BY <1>1, HttpInvariant, PTL

-----------------------------------------------------------------------------
(* The connection.                                                         *)

(***************************************************************************)
(* The connection ends after the first request that says so, which is      *)
(* answered, and no earlier, for scripts whose requests send the           *)
(* Connection header at most once (keep_alive, on_request).                *)
(***************************************************************************)
THEOREM KeepAliveIsHonoured == Spec => [](OneConnectionHeader => KeepAliveHonoured)
<1>1. ASSUME HttpInv, OneConnectionHeader PROVE KeepAliveHonoured
  <2>1. ASSUME Supported, pc = "wait", Plain(usage.handler), NEW ends,
               ends = {i \in DOMAIN served : ~Persistent(served[i])
                                               \/ ~usage.keep_alive_enabled_}
        PROVE  /\ conn = "DISCONNECTING" <=> ends # {}
               /\ answered = IF ends = {} THEN Len(served)
                             ELSE CHOOSE i \in ends : \A j \in ends : i <= j
    <3>1. TypeOK /\ AnsweredInv /\ KeepAliveInv
      BY <1>1 DEF HttpInv
    <3>2. PICK d \in Nat : d = done /\ d = Len(served)
      BY <3>1, ScriptFacts DEF done
    <3>3. DOMAIN served = 1..d
      <4>1. PICK S : served \in Seq(S)
        BY <3>1 DEF TypeOK
      <4> QED
        BY <3>2, <4>1
    <3>4. ends = {i \in 1..d : EndsAfter(i)}
      BY <2>1, <3>3 DEF EndsAfter
    <3>5. /\ conn = "CONNECTED" => \A i \in 1..d : ~EndsAfter(i)
          /\ conn = "DISCONNECTING" => /\ answered \in 1..d /\ EndsAfter(answered)
                                       /\ \A i \in 1..answered - 1 : ~EndsAfter(i)
      BY <1>1, <2>1, <3>1, <3>2 DEF KeepAliveInv
    <3>6. conn \in {"CONNECTED", "DISCONNECTING"}
      BY <3>1 DEF TypeOK
    <3>7. CASE conn = "CONNECTED"
      <4>1. ends = {}
        BY <3>4, <3>5, <3>7
      <4>2. answered = Len(served)
        BY <3>1, <3>2, <3>7 DEF AnsweredInv
      <4> QED
        BY <3>7, <4>1, <4>2
    <3>8. CASE conn = "DISCONNECTING"
      <4>1. PICK a \in 1..d : a = answered
        BY <3>5, <3>8
      <4>2. a \in ends
        BY <3>4, <3>5, <3>8, <4>1
      <4>3. ASSUME NEW j \in ends PROVE a <= j
        <5>1. j \in 1..d /\ EndsAfter(j)
          BY <3>4
        <5>2. j \notin 1..a - 1
          BY <3>5, <3>8, <4>1, <5>1
        <5> QED
          BY <5>1, <5>2
      <4>4. ASSUME NEW i \in ends, \A j \in ends : i <= j PROVE i = a
        <5>1. i <= a /\ a <= i /\ i \in 1..d
          BY <3>4, <4>2, <4>3, <4>4
        <5> QED
          BY <5>1
      <4>5. PICK m : m = CHOOSE i \in ends : \A j \in ends : i <= j
        OBVIOUS
      <4>6. m \in ends /\ \A j \in ends : m <= j
        <5>1. \E i \in ends : \A j \in ends : i <= j
          BY <4>2, <4>3
        <5> QED
          BY <4>5, <5>1, Zenon
      <4>7. m = a
        BY <4>4, <4>6
      <4> QED
        BY <3>8, <4>1, <4>2, <4>5, <4>7
    <3> QED
      BY <3>6, <3>7, <3>8
  <2> QED
    BY <2>1 DEF KeepAliveHonoured
<1> QED
  BY <1>1, HttpInvariant, PTL

(***************************************************************************)
(* Two lines that agree.                                                   *)
(***************************************************************************)
LEMMA ToSetOfPair ==
  ASSUME NEW c
  PROVE  ToSet(<<c, c>>) = {c}
BY DEF ToSet

(***************************************************************************)
(* A request that cannot be parsed is never answered and costs the client  *)
(* its connection, as long as the parser keeps its place and the client    *)
(* waits for its answers (parse_request_line, parse_header_line,           *)
(* on_message).                                                            *)
(***************************************************************************)
THEOREM MalformedIsRefused == Spec => [](KeepsPlace => MalformedRefused)
<1>1. ASSUME HttpInv, KeepsPlace PROVE MalformedRefused
  <2>1. ASSUME ~usage.pipelined, NEW i \in DOMAIN script, ~WellFormedRequest(script[i])
        PROVE  /\ answered < i
               /\ pc = "wait" /\ End(script, i) <= arrived => conn = "DISCONNECTING"
    <3>1. TypeOK /\ ServedInv /\ ArrivedInv /\ AnsweredInv
      BY <1>1 DEF HttpInv
    <3>2. answered < i
      BY <1>1, <2>1, <3>1 DEF AnsweredInv
    <3>3. ASSUME pc = "wait", End(script, i) <= arrived, conn # "DISCONNECTING" PROVE FALSE
      <4>1. conn = "CONNECTED"
        BY <3>1, <3>3 DEF TypeOK
      <4>2. InPlace
        BY <1>1, <4>1 DEF InPlace
      <4>3. PICK x \in Nat : x = Len(script) /\ DOMAIN script = 1..x
        BY <3>1, ScriptFacts
      <4>4. PICK d \in Nat : d = done
        BY <3>1, ScriptFacts
      <4>5. /\ \A k \in 0..x : End(script, k) \in Nat
            /\ \A j, k \in 0..x : j < k => End(script, j) < End(script, k)
        BY <3>1, <4>3, ScriptFacts DEF LaidOut
      <4>6. d <= x /\ \A j \in 1..d : WellFormedRequest(script[j])
        BY <3>1, <4>2, <4>3, <4>4 DEF ServedInv
      <4>7. i \in 1..x /\ i \notin 1..d
        BY <2>1, <4>3, <4>6
      <4>8. d # x /\ d + 1 \in 0..x /\ i \in 0..x /\ (d + 1 = i \/ d + 1 < i)
        BY <4>6, <4>7
      <4>9. arrived < End(script, d + 1)
        BY <2>1, <3>1, <3>3, <4>2, <4>3, <4>4, <4>8 DEF ArrivedInv
      <4>10. d + 1 = i \/ End(script, d + 1) < End(script, i)
        BY <4>5, <4>8
      <4>11. End(script, d + 1) \in Nat /\ End(script, i) \in Nat /\ arrived \in Nat
        BY <3>1, <4>5, <4>8 DEF TypeOK
      <4> QED
        BY <3>3, <4>9, <4>10, <4>11
    <3> QED
      BY <3>2, <3>3
  <2> QED
    BY <2>1 DEF MalformedRefused
<1> QED
  BY <1>1, HttpInvariant, PTL

(***************************************************************************)
(* The length of every response is its body's, and its connection lines    *)
(* agree with each other and with what the server does next, as long as    *)
(* the parser keeps its place (ensure_content_length, on_request,          *)
(* append_to_buffer).                                                      *)
(***************************************************************************)
THEOREM ResponsesAreFramed == Spec => [](KeepsPlace => ResponsesFramed)
<1>1. ASSUME HttpInv, KeepsPlace PROVE ResponsesFramed
  <2>1. ASSUME Plain(usage.handler), NEW i \in DOMAIN replies
        PROVE  /\ replies[i].length = <<replies[i].body>>
               /\ \/ /\ ToSet(replies[i].connection) = {"keep-alive"}
                     /\ \/ conn = "CONNECTED" \/ i < answered
                        \/ \E j \in DOMAIN script : ~WellFormedRequest(script[j])
                  \/ /\ ToSet(replies[i].connection) = {"close"} /\ conn = "DISCONNECTING"
                     /\ i = answered
    <3>1. TypeOK /\ FramedInv
      BY <1>1 DEF HttpInv
    <3>2. PICK a \in Nat : a = answered /\ DOMAIN replies = 1..a
      <4>1. PICK S : replies \in Seq(S)
        BY <3>1 DEF TypeOK
      <4> QED
        BY <4>1 DEF answered
    <3>3. conn \in {"CONNECTED", "DISCONNECTING"}
      BY <3>1 DEF TypeOK
    <3>4. /\ i \in 1..a /\ replies[i].length = <<replies[i].body>>
          /\ \/ replies[i].connection = <<"keep-alive", "keep-alive">>
             \/ /\ replies[i].connection = <<"close", "close">>
                /\ conn = "DISCONNECTING" /\ i = a
      BY <2>1, <3>1, <3>2 DEF FramedInv
    <3>5. CASE replies[i].connection = <<"keep-alive", "keep-alive">>
      <4>1. ToSet(replies[i].connection) = {"keep-alive"}
        BY <3>5, ToSetOfPair
      <4>2. ASSUME conn = "DISCONNECTING", ~(i < a),
                   \A j \in DOMAIN script : WellFormedRequest(script[j])
            PROVE  FALSE
        <5>1. Supported
          BY <1>1, <4>2 DEF Supported
        <5>2. replies[a].connection = <<"close", "close">>
          BY <2>1, <3>1, <3>2, <4>2, <5>1 DEF FramedInv
        <5>3. i = a
          BY <3>4, <4>2
        <5>4. <<"close", "close">> # <<"keep-alive", "keep-alive">>
          OBVIOUS
        <5> QED
          BY <3>5, <5>2, <5>3, <5>4
      <4> QED
        BY <3>2, <3>3, <3>4, <4>1, <4>2
    <3>6. CASE /\ replies[i].connection = <<"close", "close">>
               /\ conn = "DISCONNECTING" /\ i = a
      <4>1. ToSet(replies[i].connection) = {"close"}
        BY <3>6, ToSetOfPair
      <4> QED
        BY <3>2, <3>4, <3>6, <4>1
    <3> QED
      BY <3>4, <3>5, <3>6
  <2> QED
    BY <2>1 DEF ResponsesFramed
<1> QED
  BY <1>1, HttpInvariant, PTL
=============================================================================
