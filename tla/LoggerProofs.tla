---------------------------- MODULE LoggerProofs ----------------------------
(***************************************************************************)
(* Proofs about Logger for any limits on the number and the size of the    *)
(* files, lines of any length and any number of interruptions.             *)
(***************************************************************************)
EXTENDS Logger, FiniteSetTheorems, SequenceTheorems, WellFoundedInduction, TLAPS

(***************************************************************************)
(* The types, and what the history of the limits says of the present ones. *)
(***************************************************************************)
TypeOK ==
  /\ files \in [Files -> Seq(Nat)] /\ is_open \in BOOLEAN /\ current_file_size_ \in Nat
  /\ max_file_size_ \in SizeLimits /\ max_files_ \in FileLimits
  /\ pc \in {"idle", "shift", "reopen"} /\ index \in Nat /\ written \in Nat
  /\ interrupts \in Nat
  /\ limits \in [fewest : Nat, most : Nat, largest : Nat, extra : {0, 1}]
  /\ 2 <= limits.fewest /\ limits.fewest <= AtLeastTwo(max_files_)
  /\ 2 <= limits.most /\ max_files_ <= limits.most
  /\ max_file_size_ <= limits.largest
  /\ \A k \in Nat : k <= limits.most => k \in Files

(***************************************************************************)
(* Where rotate_log_file() is: the stream is closed, the name it moves a   *)
(* file to next is free, unless it is the last of those kept or one        *)
(* beyond, and the current file is there until it is moved itself.  The    *)
(* index is below the present limit as long as nobody changed it on the    *)
(* way, and always below the highest one.                                  *)
(***************************************************************************)
RotationInv ==
  /\ is_open => pc = "idle" /\ current_file_size_ = Len(files[0])
  /\ pc = "shift" => /\ index < limits.most /\ files[0] # << >>
                     /\ limits.extra = 0 => index < max_files_
                     /\ index + 2 < limits.fewest => files[index + 1] = << >>
  /\ pc = "reopen" => files[0] = << >>

(***************************************************************************)
(* Between two rotations the current file is below the size limit, but for *)
(* a line for every rotation that was interrupted.                         *)
(***************************************************************************)
SizeInv ==
  /\ DiskBounded
  /\ pc = "idle" => Len(files[0]) < limits.largest + MaxLine * interrupts

(***************************************************************************)
(* The bytes after the m-th up to the n-th.                                *)
(***************************************************************************)
Bytes(m, n) == [i \in 1..(n - m) |-> m + i]

(***************************************************************************)
(* The files within the lowest limit cut the log into consecutive pieces:  *)
(* file k holds the bytes after cut[k + 1] up to cut[k].                   *)
(***************************************************************************)
CutAt(cut) ==
  /\ cut \in [0..limits.fewest -> Nat] /\ cut[0] = written
  /\ \A k \in 0..limits.fewest - 1 : /\ cut[k + 1] <= cut[k]
                                     /\ files[k] = Bytes(cut[k + 1], cut[k])

PiecesInv ==
  /\ \E cut : CutAt(cut)
  /\ written > 0 => files[0] # << >> \/ files[1] # << >>

LogInv == TypeOK /\ RotationInv /\ SizeInv /\ PiecesInv
-----------------------------------------------------------------------------
(* Limits.                                                                 *)

(***************************************************************************)
(* The maximum and the minimum of two numbers.                             *)
(***************************************************************************)
LEMMA PairExtremes ==
  ASSUME NEW a \in Nat, NEW b \in Nat
  PROVE  /\ Max({a, b}) = IF a >= b THEN a ELSE b
         /\ Min({a, b}) = IF a <= b THEN a ELSE b
<1>1. \E x \in {a, b} : \A y \in {a, b} : x >= y
  OBVIOUS
<1>2. Max({a, b}) \in {a, b} /\ \A y \in {a, b} : Max({a, b}) >= y
  BY <1>1 DEF Max
<1>3. \E x \in {a, b} : \A y \in {a, b} : x =< y
  OBVIOUS
<1>4. Min({a, b}) \in {a, b} /\ \A y \in {a, b} : Min({a, b}) =< y
  BY <1>3 DEF Min
<1> QED
  BY <1>2, <1>4

(***************************************************************************)
(* At least two files are kept, whatever the limit.                        *)
(***************************************************************************)
LEMMA AtLeastTwoIs ==
  ASSUME NEW n \in Nat
  PROVE  AtLeastTwo(n) = IF n >= 2 THEN n ELSE 2
BY PairExtremes DEF AtLeastTwo

(***************************************************************************)
(* A set of naturals that is not empty has a least element.                *)
(***************************************************************************)
LEMMA LeastNatural ==
  ASSUME NEW T \in SUBSET Nat, T # {}
  PROVE  \E m \in T : \A n \in T : m <= n
<1>1. \A m, n \in Nat : <<n, m>> \notin OpToRel(<, Nat) => ~(n < m)
  BY Zenon DEF OpToRel
<1>2. \E m \in T : \A n \in T : ~(<<n, m>> \in OpToRel(<, Nat))
  BY NatLessThanWellFounded, WFMin, Zenon
<1>3. PICK m \in T : \A n \in T : ~(n < m)
  BY <1>1, <1>2, Zenon
<1> QED
  BY <1>3

(***************************************************************************)
(* A finite set of naturals has a bound.                                   *)
(***************************************************************************)
LEMMA FiniteIsBounded ==
  ASSUME NEW S \in SUBSET Nat, IsFiniteSet(S)
  PROVE  \E b \in Nat : \A x \in S : x <= b
<1>1. Cardinality(S) \in Nat /\ ExistsBijection(1..Cardinality(S), S)
  BY FS_CardinalityType
<1>2. PICK f : f \in Bijection(1..Cardinality(S), S)
  BY <1>1 DEF ExistsBijection
<1> DEFINE n == Cardinality(S)
<1>3. f \in [1..n -> S] /\ \A x \in S : \E i \in 1..n : f[i] = x
  BY <1>2 DEF Bijection, Surjection
<1>4. n \in Nat
  BY <1>1
<1> HIDE DEF n
<1> DEFINE Good(k) == \E b \in Nat : \A i \in 1..n : i <= k => f[i] <= b
           Bad == {k \in 0..n : ~Good(k)}
<1>5. ASSUME Bad # {} PROVE FALSE
  <2>0. Bad \in SUBSET Nat
    BY <1>4
  <2>1. PICK k \in Bad : \A m \in Bad : k <= m
    BY <1>5, <2>0, LeastNatural
  <2>2. k \in 0..n /\ ~Good(k)
    OBVIOUS
  <2>3. k # 0
    <3>1. \A i \in 1..n : i <= 0 => f[i] <= 0
      BY <1>4
    <3> QED
      BY <2>2, <3>1
  <2>4. k - 1 \in 0..n /\ ~(k <= k - 1) /\ k \in 1..n
    BY <1>4, <2>2, <2>3
  <2>5. Good(k - 1)
    BY <2>1, <2>4
  <2>6. PICK b \in Nat : \A i \in 1..n : i <= k - 1 => f[i] <= b
    BY <2>5
  <2>7. PICK c \in Nat : c >= b /\ c >= f[k]
    <3>1. f[k] \in Nat
      BY <1>3, <2>4
    <3>2. b + f[k] \in Nat /\ b + f[k] >= b /\ b + f[k] >= f[k]
      BY <3>1
    <3> QED
      BY <3>2
  <2>8. ASSUME NEW i \in 1..n, i <= k PROVE f[i] <= c
    <3>1. f[i] \in Nat
      BY <1>3
    <3>2. i = k \/ i <= k - 1
      BY <1>4, <2>4, <2>8
    <3> QED
      BY <2>6, <2>7, <3>1, <3>2
  <2> QED
    BY <2>2, <2>8
<1>6. n \in 0..n /\ Bad = {}
  BY <1>4, <1>5
<1>7. PICK b \in Nat : \A i \in 1..n : i <= n => f[i] <= b
  BY <1>6
<1> QED
  BY <1>3, <1>4, <1>7

(***************************************************************************)
(* The names of files go up to the highest limit, and there are two.       *)
(***************************************************************************)
LEMMA FileNames ==
  /\ Files \subseteq Nat /\ 0 \in Files /\ 1 \in Files
  /\ \A n \in FileLimits : \A k \in Nat : k <= AtLeastTwo(n) => k \in Files
<1> DEFINE S == FileLimits \cup {2}
           above == {b \in Nat : \A x \in S : x <= b}
           top == Max(S)
<1>1. S \in SUBSET Nat /\ IsFiniteSet(S) /\ 2 \in S
  BY LoggerAssumption, FS_AddElement
<1>2. above # {}
  BY <1>1, FiniteIsBounded
<1>3. PICK m \in above : \A b \in above : m <= b
  BY <1>2, LeastNatural
<1>4. m \in Nat /\ (\A x \in S : x <= m) /\ m >= 2
  BY <1>1, <1>3
<1>5. m \in S
  <2> SUFFICES ASSUME m \notin S PROVE FALSE
    OBVIOUS
  <2>1. ASSUME NEW x \in S PROVE x <= m - 1
    <3>1. x \in Nat /\ x <= m /\ x # m
      BY <1>1, <1>4
    <3> QED
      BY <1>4, <3>1
  <2>2. m - 1 \in Nat /\ ~(m <= m - 1)
    BY <1>4
  <2>3. m - 1 \in above
    BY <2>1, <2>2
  <2> QED
    BY <1>3, <2>2, <2>3
<1>6. \A y \in S : m >= y
  BY <1>1, <1>4
<1>7. top \in S /\ \A y \in S : top >= y
  BY <1>5, <1>6 DEF Max
<1>8. Files = 0..top
  BY DEF Files
<1>9. top \in Nat /\ top >= 2 /\ \A n \in FileLimits : n \in Nat /\ top >= n
  BY <1>1, <1>7
<1> HIDE DEF top
<1>10. Files \subseteq Nat /\ 0 \in Files /\ 1 \in Files
  BY <1>8, <1>9
<1>11. ASSUME NEW n \in FileLimits, NEW k \in Nat, k <= AtLeastTwo(n) PROVE k \in Files
  <2>1. AtLeastTwo(n) <= top
    BY <1>9, AtLeastTwoIs
  <2>2. AtLeastTwo(n) \in Nat
    BY <1>9, AtLeastTwoIs
  <2>3. k <= top
    BY <1>9, <1>11, <2>1, <2>2
  <2> QED
    BY <1>8, <1>9, <2>3
<1> QED
  BY <1>10, <1>11

-----------------------------------------------------------------------------
(* Pieces of the log.                                                      *)

(***************************************************************************)
(* FlattenSeq() is the last of any functions g that puts the sequences     *)
(* behind each other one by one.                                           *)
(***************************************************************************)
LEMMA FlattenIs ==
  ASSUME NEW n \in Nat \ {0}, NEW s \in [1..n -> Seq(Nat)], NEW g \in [1..n -> Seq(Nat)],
         g[1] = s[1], \A i \in 1..n : i # 1 => g[i] = g[i - 1] \o s[i]
  PROVE  FlattenSeq(s) = g[n]
<1> DEFINE flatten[i \in 1..Len(s)] == IF i = 1 THEN s[i] ELSE flatten[i - 1] \o s[i]
<1>1. Len(s) = n /\ Len(s) # 0
  OBVIOUS
<1>2. g = [i \in 1..Len(s) |-> IF i = 1 THEN s[i] ELSE g[i - 1] \o s[i]]
  <2>1. g = [i \in 1..n |-> g[i]]
    OBVIOUS
  <2>2. \A i \in 1..n : g[i] = IF i = 1 THEN s[i] ELSE g[i - 1] \o s[i]
    OBVIOUS
  <2> QED
    BY <1>1, <2>1, <2>2
<1>3. flatten = [i \in 1..Len(s) |-> IF i = 1 THEN s[i] ELSE flatten[i - 1] \o s[i]]
  BY <1>2, Zenon
<1>4. FlattenSeq(s) = flatten[n]
  BY <1>1 DEF FlattenSeq
<1> HIDE DEF flatten
<1>5. \A i \in 1..n : flatten[i] = IF i = 1 THEN s[i] ELSE flatten[i - 1] \o s[i]
  BY <1>1, <1>3
<1> DEFINE Bad == {i \in 1..n : flatten[i] # g[i]}
<1>6. ASSUME Bad # {} PROVE FALSE
  <2>1. Bad \in SUBSET Nat
    OBVIOUS
  <2>2. PICK i \in Bad : \A j \in Bad : i <= j
    BY <1>6, <2>1, LeastNatural
  <2>3. i \in 1..n /\ flatten[i] # g[i]
    OBVIOUS
  <2>4. i # 1
    BY <1>5, <2>3
  <2>5. i - 1 \in 1..n /\ ~(i <= i - 1)
    BY <2>3, <2>4
  <2>6. flatten[i - 1] = g[i - 1]
    BY <2>2, <2>5
  <2> QED
    BY <1>5, <2>3, <2>4, <2>6
<1>7. n \in 1..n
  OBVIOUS
<1> QED
  BY <1>4, <1>6, <1>7

(***************************************************************************)
(* The bytes after the m-th up to the n-th are n - m of them.              *)
(***************************************************************************)
LEMMA BytesAre ==
  ASSUME NEW m \in Nat, NEW n \in Nat, m <= n
  PROVE  /\ Bytes(m, n) \in Seq(Nat) /\ Len(Bytes(m, n)) = n - m
         /\ \A i \in 1..(n - m) : Bytes(m, n)[i] = m + i
         /\ Bytes(m, n) = << >> <=> m = n
<1>1. n - m \in Nat /\ \A i \in 1..(n - m) : m + i \in Nat
  OBVIOUS
<1>2. /\ Bytes(m, n) \in Seq(Nat) /\ Len(Bytes(m, n)) = n - m
      /\ \A i \in 1..(n - m) : Bytes(m, n)[i] = m + i
  BY <1>1 DEF Bytes
<1>3. Bytes(m, n) = << >> <=> Len(Bytes(m, n)) = 0
  BY <1>2
<1> QED
  BY <1>2, <1>3

(***************************************************************************)
(* Between a cut and itself there is nothing, and only there.              *)
(***************************************************************************)
LEMMA EmptyPiece ==
  ASSUME NEW m \in Nat
  PROVE  /\ Bytes(m, m) = << >>
         /\ \A n \in Nat : m <= n /\ Bytes(m, n) = << >> => m = n
<1>1. m <= m
  OBVIOUS
<1>2. Bytes(m, m) = << >>
  BY <1>1, BytesAre
<1>3. ASSUME NEW n \in Nat, m <= n, Bytes(m, n) = << >> PROVE m = n
  BY <1>3, BytesAre
<1> QED
  BY <1>2, <1>3

(***************************************************************************)
(* Consecutive pieces join without a gap.                                  *)
(***************************************************************************)
LEMMA BytesJoin ==
  ASSUME NEW l \in Nat, NEW m \in Nat, NEW n \in Nat, l <= m, m <= n
  PROVE  Bytes(l, m) \o Bytes(m, n) = Bytes(l, n)
<1>1. l <= n
  OBVIOUS
<1>2. /\ Bytes(l, m) \in Seq(Nat) /\ Len(Bytes(l, m)) = m - l
      /\ \A i \in 1..(m - l) : Bytes(l, m)[i] = l + i
  BY BytesAre
<1>3. /\ Bytes(m, n) \in Seq(Nat) /\ Len(Bytes(m, n)) = n - m
      /\ \A i \in 1..(n - m) : Bytes(m, n)[i] = m + i
  BY BytesAre
<1>4. /\ Bytes(l, n) \in Seq(Nat) /\ Len(Bytes(l, n)) = n - l
      /\ \A i \in 1..(n - l) : Bytes(l, n)[i] = l + i
  BY <1>1, BytesAre
<1> DEFINE a == Bytes(l, m)
           b == Bytes(m, n)
           c == Bytes(l, n)
<1>5. /\ a \in Seq(Nat) /\ b \in Seq(Nat) /\ c \in Seq(Nat) /\ Len(a) = m - l
      /\ Len(b) = n - m /\ Len(c) = n - l
      /\ \A i \in 1..(m - l) : a[i] = l + i
      /\ \A i \in 1..(n - m) : b[i] = m + i
      /\ \A i \in 1..(n - l) : c[i] = l + i
  BY <1>2, <1>3, <1>4
<1> HIDE DEF a, b, c
<1>6. a \o b \in Seq(Nat) /\ Len(a \o b) = n - l
  <2>1. a \o b \in Seq(Nat) /\ Len(a \o b) = Len(a) + Len(b)
    BY <1>5, ConcatProperties
  <2>2. (m - l) + (n - m) = n - l
    OBVIOUS
  <2> QED
    BY <1>5, <2>1, <2>2
<1>7. ASSUME NEW i \in 1..(n - l) PROVE (a \o b)[i] = c[i]
  <2>1. CASE i <= m - l
    <3>1. i \in 1..(m - l) /\ (a \o b)[i] = a[i]
      BY <1>5, <2>1
    <3> QED
      BY <1>5, <3>1
  <2>2. CASE i > m - l
    <3>0. i - (m - l) \in 1..(n - m) /\ i \in 1..((m - l) + (n - m)) /\ ~(i <= m - l)
      BY <2>2
    <3>1. i - (m - l) \in 1..(n - m) /\ (a \o b)[i] = b[i - (m - l)]
      <4>1. i \in 1..(Len(a) + Len(b)) /\ ~(i <= Len(a))
        BY <1>5, <3>0
      <4>2. (a \o b)[i] = b[i - Len(a)]
        BY <1>5, <4>1, ConcatProperties
      <4> QED
        BY <1>5, <3>0, <4>2
    <3>2. b[i - (m - l)] = m + (i - (m - l))
      BY <1>5, <3>1
    <3>3. m + (i - (m - l)) = l + i
      OBVIOUS
    <3> QED
      BY <1>5, <3>1, <3>2, <3>3
  <2>3. i <= m - l \/ i > m - l
    OBVIOUS
  <2> QED
    BY <2>1, <2>2, <2>3
<1>8. a \o b = c
  BY <1>5, <1>6, <1>7, SeqEqual
<1> QED
  BY <1>8 DEF a, b, c

(***************************************************************************)
(* A line of n bytes, as log() writes it.                                  *)
(***************************************************************************)
LEMMA LineIs ==
  ASSUME NEW w \in Nat, NEW n \in Nat
  PROVE  [k \in 1..n |-> w + k] = Bytes(w, w + n)
<1>1. (w + n) - w = n
  OBVIOUS
<1> QED
  BY <1>1 DEF Bytes

(***************************************************************************)
(* The cuts descend, and the files from the oldest down to k are the bytes *)
(* after the last cut up to the k-th.                                      *)
(***************************************************************************)
LEMMA CutsDescend ==
  ASSUME NEW n \in Nat, NEW cut \in [0..n -> Nat],
         \A k \in 0..(n - 1) : cut[k + 1] <= cut[k]
  PROVE  \A k \in 0..n : cut[n] <= cut[k]
<1> DEFINE Bad == {d \in 0..n : ~(cut[n] <= cut[n - d])}
<1>1. ASSUME Bad # {} PROVE FALSE
  <2>1. Bad \in SUBSET Nat
    OBVIOUS
  <2>2. PICK d \in Bad : \A e \in Bad : d <= e
    BY <1>1, <2>1, LeastNatural
  <2>3. d \in 0..n /\ ~(cut[n] <= cut[n - d])
    OBVIOUS
  <2>4. d # 0
    BY <2>3
  <2>5. d - 1 \in 0..n /\ ~(d <= d - 1)
    BY <2>3, <2>4
  <2>6. cut[n] <= cut[n - (d - 1)]
    BY <2>2, <2>5
  <2>7. n - d \in 0..(n - 1) /\ (n - d) + 1 = n - (d - 1) /\ n - (d - 1) \in 0..n /\ n \in 0..n
        /\ n - d \in 0..n
    BY <2>3, <2>4
  <2>8. cut[n - (d - 1)] <= cut[n - d]
    BY <2>7
  <2> QED
    BY <2>3, <2>6, <2>7, <2>8
<1>2. ASSUME NEW k \in 0..n PROVE cut[n] <= cut[k]
  <2>1. n - k \in 0..n /\ n - (n - k) = k
    OBVIOUS
  <2> QED
    BY <1>1, <2>1
<1> QED
  BY <1>2

(***************************************************************************)
(* So the property follows from the cuts.                                  *)
(***************************************************************************)
LEMMA PiecesAreContiguous ==
  ASSUME TypeOK, PiecesInv
  PROVE  LogContiguous
<1>1. PICK n \in Nat : n = limits.fewest /\ n >= 2
  BY DEF TypeOK
<1>2. PICK cut : CutAt(cut)
  BY DEF PiecesInv
<1>3. /\ cut \in [0..n -> Nat] /\ cut[0] = written /\ written \in Nat
      /\ \A k \in 0..(n - 1) : cut[k + 1] <= cut[k] /\ files[k] = Bytes(cut[k + 1], cut[k])
  BY <1>1, <1>2 DEF CutAt, TypeOK
<1>4. \A k \in 0..n : cut[n] <= cut[k]
  BY <1>3, CutsDescend
<1> DEFINE s == [k \in 1..n |-> files[n - k]]
           g == [i \in 1..n |-> Bytes(cut[n], cut[n - i])]
<1>5. \A i \in 1..n : /\ n - i \in 0..(n - 1) /\ n - i \in 0..n /\ n \in 0..n
                      /\ (n - i) + 1 \in 0..n /\ (n - i) + 1 = n - (i - 1)
  OBVIOUS
<1>6. ASSUME NEW i \in 1..n
      PROVE  s[i] = Bytes(cut[(n - i) + 1], cut[n - i]) /\ s[i] \in Seq(Nat)
  <2>1. s[i] = Bytes(cut[(n - i) + 1], cut[n - i])
    BY <1>3, <1>5
  <2>2. cut[(n - i) + 1] \in Nat /\ cut[n - i] \in Nat /\ cut[(n - i) + 1] <= cut[n - i]
    BY <1>3, <1>5
  <2> QED
    BY <2>1, <2>2, BytesAre
<1>7. ASSUME NEW i \in 1..n PROVE g[i] = Bytes(cut[n], cut[n - i]) /\ g[i] \in Seq(Nat)
  <2>1. cut[n] \in Nat /\ cut[n - i] \in Nat /\ cut[n] <= cut[n - i]
    BY <1>3, <1>4, <1>5
  <2> QED
    BY <2>1, BytesAre
<1>8. s \in [1..n -> Seq(Nat)] /\ g \in [1..n -> Seq(Nat)]
  BY <1>6, <1>7
<1>9. Kept = FlattenSeq(s)
  BY <1>1 DEF Kept
<1> HIDE DEF s, g
<1>10. g[1] = s[1]
  <2>1. 1 \in 1..n /\ (n - 1) + 1 = n
    BY <1>1
  <2> QED
    BY <1>6, <1>7, <2>1
<1>11. ASSUME NEW i \in 1..n, i # 1 PROVE g[i] = g[i - 1] \o s[i]
  <2>1. i - 1 \in 1..n
    BY <1>11
  <2>2. g[i - 1] = Bytes(cut[n], cut[n - (i - 1)])
    BY <1>7, <2>1
  <2>3. /\ cut[n] \in Nat /\ cut[n - (i - 1)] \in Nat /\ cut[n - i] \in Nat
        /\ cut[n] <= cut[n - (i - 1)] /\ cut[n - (i - 1)] <= cut[n - i]
    BY <1>3, <1>4, <1>5
  <2>4. s[i] = Bytes(cut[n - (i - 1)], cut[n - i])
    BY <1>5, <1>6
  <2>5. Bytes(cut[n], cut[n - (i - 1)]) \o Bytes(cut[n - (i - 1)], cut[n - i])
          = Bytes(cut[n], cut[n - i])
    BY <2>3, BytesJoin
  <2>6. g[i] = Bytes(cut[n], cut[n - i])
    BY <1>7
  <2> QED
    BY <2>2, <2>4, <2>5, <2>6
<1>12. Kept = g[n]
  <2>1. n \in Nat \ {0}
    BY <1>1
  <2>2. \A i \in 1..n : i # 1 => g[i] = g[i - 1] \o s[i]
    BY <1>11
  <2> QED
    BY <1>8, <1>9, <1>10, <2>1, <2>2, FlattenIs
<1>13. n \in 1..n /\ n - n = 0 /\ 0 \in 0..n /\ n \in 0..n /\ 1 \in 0..n /\ 2 \in 0..n
       /\ 0 \in 0..(n - 1) /\ 1 \in 0..(n - 1)
  BY <1>1
<1>14. PICK low \in Nat : low = cut[n] /\ low <= written /\ Kept = Bytes(low, written)
  <2>1. Kept = Bytes(cut[n], written)
    BY <1>3, <1>7, <1>12, <1>13
  <2>2. cut[n] \in Nat /\ cut[n] <= written
    BY <1>3, <1>4, <1>13
  <2> QED
    BY <2>1, <2>2
<1>15. Len(Kept) = written - low
  BY <1>3, <1>14, BytesAre
<1>16. Kept = [k \in 1..Len(Kept) |-> written - Len(Kept) + k]
  <2>1. written - (written - low) = low
    BY <1>3, <1>14
  <2>2. Kept = [k \in 1..(written - low) |-> low + k]
    BY <1>14 DEF Bytes
  <2> QED
    BY <1>15, <2>1, <2>2
<1>17. ASSUME written > 0 PROVE Kept # << >>
  <2>1. files[0] # << >> \/ files[1] # << >>
    BY <1>17 DEF PiecesInv
  <2>2. /\ cut[0] \in Nat /\ cut[1] \in Nat /\ cut[2] \in Nat
        /\ cut[1] <= cut[0] /\ cut[2] <= cut[1]
        /\ files[0] = Bytes(cut[1], cut[0]) /\ files[1] = Bytes(cut[2], cut[1])
    <3>1. 0 + 1 = 1 /\ 1 + 1 = 2
      OBVIOUS
    <3> QED
      BY <1>3, <1>13, <3>1
  <2>3. cut[1] # cut[0] \/ cut[2] # cut[1]
    BY <2>1, <2>2, BytesAre
  <2>4. low <= cut[1] /\ low <= cut[2]
    BY <1>4, <1>13, <1>14
  <2>5. low # written
    BY <1>3, <1>14, <2>2, <2>3, <2>4
  <2> QED
    BY <1>3, <1>14, <2>5, BytesAre
<1> QED
  BY <1>16, <1>17 DEF LogContiguous

-----------------------------------------------------------------------------
(* Steps.                                                                  *)

(***************************************************************************)
(* The constants and the members as numbers.                               *)
(***************************************************************************)
LEMMA Numbers ==
  ASSUME TypeOK
  PROVE  /\ MaxLine \in Nat /\ max_files_ \in Nat \ {0} /\ max_file_size_ \in Nat \ {0}
         /\ limits.fewest \in Nat /\ limits.most \in Nat /\ limits.largest \in Nat \ {0}
         /\ limits.fewest <= max_files_ \/ limits.fewest = 2
         /\ \A k \in 0..(limits.fewest - 1) : k \in Files
         /\ limits.extra \in {0, 1} /\ limits.most + limits.extra \in Nat
         /\ 0 \in Files /\ 1 \in Files /\ Files \subseteq Nat
<1>1. /\ MaxLine \in Nat /\ max_files_ \in Nat \ {0} /\ max_file_size_ \in Nat \ {0}
      /\ limits.fewest \in Nat /\ limits.most \in Nat /\ limits.largest \in Nat
      /\ max_file_size_ <= limits.largest /\ 2 <= limits.fewest
      /\ limits.fewest <= AtLeastTwo(max_files_) /\ max_files_ \in FileLimits
  BY LoggerAssumption DEF TypeOK
<1>2. AtLeastTwo(max_files_) = IF max_files_ >= 2 THEN max_files_ ELSE 2
  BY <1>1, AtLeastTwoIs
<1>3. \A k \in Nat : k <= AtLeastTwo(max_files_) => k \in Files
  BY <1>1, FileNames
<1>4. \A k \in 0..(limits.fewest - 1) : k \in Nat /\ k <= AtLeastTwo(max_files_)
  BY <1>1, <1>2
<1>5. limits.extra \in {0, 1} /\ limits.most + limits.extra \in Nat
  BY <1>1 DEF TypeOK
<1>6. limits.largest # 0 /\ (limits.fewest <= max_files_ \/ limits.fewest = 2)
  BY <1>1, <1>2
<1> QED
  BY <1>1, <1>3, <1>4, <1>5, <1>6, FileNames

(***************************************************************************)
(* The initial state satisfies the invariant.                              *)
(***************************************************************************)
LEMMA LogInit == Init => LogInv
<1> SUFFICES ASSUME Init PROVE LogInv
  OBVIOUS
<1>1. /\ max_files_ \in Nat \ {0} /\ max_file_size_ \in Nat \ {0} /\ MaxLine \in Nat
      /\ max_files_ \in FileLimits /\ max_file_size_ \in SizeLimits
  BY LoggerAssumption DEF Init
<1>2. /\ AtLeastTwo(max_files_) \in Nat /\ 2 <= AtLeastTwo(max_files_)
      /\ max_files_ <= AtLeastTwo(max_files_)
  BY <1>1, AtLeastTwoIs
<1>3. << >> \in Seq(Nat) /\ Len(<< >>) = 0
  OBVIOUS
<1>4. TypeOK
  <2>1. files \in [Files -> Seq(Nat)]
    BY <1>3 DEF Init
  <2>2. /\ limits \in [fewest : Nat, most : Nat, largest : Nat, extra : {0, 1}]
        /\ limits.fewest = AtLeastTwo(max_files_) /\ limits.most = AtLeastTwo(max_files_)
        /\ limits.largest = max_file_size_
        /\ \A k \in Nat : k <= limits.most => k \in Files
    BY <1>1, <1>2, FileNames DEF Init
  <2>3. AtLeastTwo(max_files_) <= AtLeastTwo(max_files_) /\ max_file_size_ <= max_file_size_
    BY <1>1, <1>2
  <2>4. /\ is_open = FALSE /\ current_file_size_ = 0 /\ pc = "idle" /\ index = 0
        /\ written = 0 /\ interrupts = 0
    BY DEF Init
  <2> QED
    BY <1>1, <1>2, <2>1, <2>2, <2>3, <2>4 DEF TypeOK
<1>5. \A k \in Files : files[k] = << >>
  BY DEF Init
<1>6. RotationInv
  BY <1>3, <1>5 DEF Init, RotationInv
<1>7. SizeInv
  <2>1. limits.largest = max_file_size_ /\ interrupts = 0
    BY DEF Init
  <2>2. MaxLine * (1 + 0) \in Nat /\ MaxLine * 0 = 0
    BY <1>1
  <2>3. \A k \in Files : Len(files[k]) = 0
    BY <1>3, <1>5
  <2>4. 0 < max_file_size_ + MaxLine * (1 + 0) /\ 0 < max_file_size_ + MaxLine * 0
    BY <1>1, <2>2
  <2> QED
    BY <1>5, <2>1, <2>3, <2>4, FileNames DEF SizeInv, DiskBounded
<1>8. PiecesInv
  <2> DEFINE cut == [k \in 0..limits.fewest |-> 0]
  <2>1. limits.fewest \in Nat /\ limits.fewest >= 2 /\ written = 0
    BY <1>4 DEF TypeOK, Init
  <2>2. Bytes(0, 0) = << >>
    BY BytesAre
  <2>3. \A k \in 0..limits.fewest - 1 : k \in 0..limits.fewest /\ k + 1 \in 0..limits.fewest
    BY <2>1
  <2>4. \A k \in 0..limits.fewest - 1 : files[k] = << >>
    BY <1>4, <1>5, Numbers
  <2>5. CutAt(cut)
    BY <2>1, <2>2, <2>3, <2>4 DEF CutAt
  <2> QED
    BY <2>1, <2>5 DEF PiecesInv
<1> QED
  BY <1>4, <1>6, <1>7, <1>8 DEF LogInv

(***************************************************************************)
(* A step that leaves the files, what was written and the limits alone     *)
(* keeps the pieces.                                                       *)
(***************************************************************************)
LEMMA SamePieces ==
  ASSUME PiecesInv, UNCHANGED <<files, written, limits>>
  PROVE  PiecesInv'
<1>1. PICK cut : CutAt(cut)
  BY DEF PiecesInv
<1>2. CutAt(cut)'
  BY <1>1 DEF CutAt
<1> QED
  BY <1>2 DEF PiecesInv

(***************************************************************************)
(* One more interruption allows one more line.                             *)
(***************************************************************************)
LEMMA OneMoreLine ==
  ASSUME NEW line \in Nat, NEW i \in Nat
  PROVE  /\ line * (1 + i) = line + line * i /\ line * i \in Nat
         /\ line * (i + 1) = line + line * i
         /\ line * (1 + (i + 1)) = line + (line + line * i)
OBVIOUS

(***************************************************************************)
(* set_output_file() takes the size from where the file ends.              *)
(***************************************************************************)
LEMMA SetOutputFile ==
  ASSUME LogInv, NEW opens \in BOOLEAN, set_output_file(opens)
  PROVE  LogInv'
<1>1. /\ pc = "idle" /\ pc' = "idle" /\ is_open' = opens
      /\ current_file_size_' = IF opens THEN Len(files[0]) ELSE 0
      /\ UNCHANGED <<files, max_file_size_, max_files_, limits, index, written, interrupts>>
  BY DEF set_output_file, configVars
<1>2. TypeOK /\ files[0] \in Seq(Nat)
  BY FileNames DEF LogInv, TypeOK
<1>3. TypeOK'
  <2>1. Len(files[0]) \in Nat
    BY <1>2
  <2>2. current_file_size_' \in Nat
    BY <1>1, <2>1
  <2> QED
    BY <1>1, <1>2, <2>2 DEF TypeOK
<1>4. RotationInv'
  BY <1>1 DEF LogInv, RotationInv
<1>5. SizeInv'
  BY <1>1 DEF LogInv, SizeInv, DiskBounded
<1>6. PiecesInv'
  BY <1>1, SamePieces DEF LogInv
<1> QED
  BY <1>3, <1>4, <1>5, <1>6 DEF LogInv

(***************************************************************************)
(* A lower limit on the files keeps fewer of the cuts.                     *)
(***************************************************************************)
LEMMA SetMaxFiles ==
  ASSUME LogInv, NEW n \in FileLimits, set_max_files(n)
  PROVE  LogInv'
<1>1. /\ max_files_' = n
      /\ limits' = [limits EXCEPT !.fewest = Min({@, AtLeastTwo(n)}), !.most = Max({@, n}),
                                  !.extra = IF pc = "idle" THEN @ ELSE 1]
      /\ UNCHANGED <<files, is_open, current_file_size_, max_file_size_, pc, index, written,
                     interrupts>>
  BY DEF set_max_files
<1>2. TypeOK /\ n \in Nat
  BY LoggerAssumption DEF LogInv
<1>3. limits \in [fewest : Nat, most : Nat, largest : Nat, extra : {0, 1}]
  BY <1>2 DEF TypeOK
<1>4. /\ AtLeastTwo(n) \in Nat /\ 2 <= AtLeastTwo(n)
  BY <1>2, AtLeastTwoIs
<1>5. /\ Min({limits.fewest, AtLeastTwo(n)}) \in Nat
      /\ Min({limits.fewest, AtLeastTwo(n)}) <= limits.fewest
      /\ Min({limits.fewest, AtLeastTwo(n)}) <= AtLeastTwo(n)
      /\ limits.fewest >= 2 => Min({limits.fewest, AtLeastTwo(n)}) >= 2
  <2>1. limits.fewest \in Nat
    BY <1>3
  <2>2. Min({limits.fewest, AtLeastTwo(n)})
          = IF limits.fewest <= AtLeastTwo(n) THEN limits.fewest ELSE AtLeastTwo(n)
    BY <1>4, <2>1, PairExtremes
  <2> QED
    BY <1>4, <2>1, <2>2
<1>6. /\ Max({limits.most, n}) \in Nat /\ Max({limits.most, n}) >= limits.most
      /\ Max({limits.most, n}) >= n
  BY <1>2, <1>3, PairExtremes
<1>7. /\ limits' \in [fewest : Nat, most : Nat, largest : Nat, extra : {0, 1}]
      /\ limits'.fewest = Min({limits.fewest, AtLeastTwo(n)})
      /\ limits'.most = Max({limits.most, n}) /\ limits'.largest = limits.largest
      /\ limits'.extra = IF pc = "idle" THEN limits.extra ELSE 1
  BY <1>1, <1>3, <1>5, <1>6
<1>8. limits.fewest >= 2 /\ limits.most >= 2 /\ limits.fewest \in Nat /\ limits.most \in Nat
  BY <1>2 DEF TypeOK
<1>9. /\ 2 <= limits'.fewest /\ limits'.fewest <= AtLeastTwo(n) /\ limits'.fewest <= limits.fewest
      /\ 2 <= limits'.most /\ n <= limits'.most /\ limits.most <= limits'.most
  <2>1. limits'.fewest \in Nat /\ limits'.most \in Nat
    BY <1>7
  <2> QED
    BY <1>2, <1>4, <1>5, <1>6, <1>7, <1>8, <2>1
<1>9a. \A k \in Nat : k <= limits'.most => k \in Files
  <2>1. Max({limits.most, n}) = IF limits.most >= n THEN limits.most ELSE n
    BY <1>2, <1>8, PairExtremes
  <2>2. \A k \in Nat : k <= n => k <= AtLeastTwo(n)
    BY <1>2, AtLeastTwoIs
  <2>3. \A k \in Nat : k <= n => k \in Files
    BY <2>2, FileNames
  <2>4. \A k \in Nat : k <= limits.most => k \in Files
    BY <1>2 DEF TypeOK
  <2> QED
    BY <1>7, <2>1, <2>3, <2>4
<1>10. TypeOK'
  BY <1>1, <1>2, <1>7, <1>9, <1>9a DEF TypeOK
<1>10a. limits'.fewest \in Nat /\ limits'.most \in Nat /\ index \in Nat
  BY <1>2, <1>7 DEF TypeOK
<1>11. RotationInv'
  <2>1. RotationInv
    BY DEF LogInv
  <2>2. ASSUME pc = "shift"
        PROVE  /\ index < limits'.most /\ files[0] # << >> /\ limits'.extra # 0
               /\ index + 2 < limits'.fewest => files[index + 1] = << >>
    <3>1. /\ index < limits.most /\ files[0] # << >>
          /\ index + 2 < limits.fewest => files[index + 1] = << >>
      BY <2>1, <2>2 DEF RotationInv
    <3>2. index < limits'.most /\ (index + 2 < limits'.fewest => index + 2 < limits.fewest)
      BY <1>8, <1>9, <1>10a, <3>1
    <3>3. limits'.extra = 1
      BY <1>7, <2>2
    <3> QED
      BY <3>1, <3>2, <3>3
  <2> QED
    BY <1>1, <2>1, <2>2 DEF RotationInv
<1>12. SizeInv'
  <2>1. \A k \in Files : k >= limits'.most + limits'.extra => k >= limits.most + limits.extra
    <3>1. limits.extra \in {0, 1} /\ limits'.extra \in {0, 1} /\ limits.extra <= limits'.extra
      <4>1. limits.extra \in {0, 1}
        BY <1>3
      <4> QED
        BY <1>7, <4>1
    <3> QED
      BY <1>8, <1>9, <1>10a, <3>1, FileNames
  <2> QED
    BY <1>1, <1>7, <2>1 DEF LogInv, SizeInv, DiskBounded
<1>13. PiecesInv'
  <2>1. PICK cut : CutAt(cut)
    BY DEF LogInv, PiecesInv
  <2>0. PICK new : new = [k \in 0..limits'.fewest |-> cut[k]]
    OBVIOUS
  <2>2. /\ cut \in [0..limits.fewest -> Nat] /\ cut[0] = written
        /\ \A k \in 0..limits.fewest - 1 : /\ cut[k + 1] <= cut[k]
                                           /\ files[k] = Bytes(cut[k + 1], cut[k])
    BY <2>1 DEF CutAt
  <2>3. limits'.fewest \in Nat
    BY <1>7
  <2>4. /\ \A k \in 0..limits'.fewest : k \in 0..limits.fewest
        /\ \A k \in 0..limits'.fewest - 1 : /\ k \in 0..limits'.fewest
                                            /\ k + 1 \in 0..limits'.fewest
                                            /\ k \in 0..limits.fewest - 1
        /\ 0 \in 0..limits'.fewest
    BY <1>8, <1>9, <2>3
  <2>5. CutAt(new)'
    <3>1. new \in [0..limits'.fewest -> Nat] /\ new[0] = written
      BY <2>0, <2>2, <2>4
    <3>2. \A k \in 0..limits'.fewest - 1 : new[k + 1] = cut[k + 1] /\ new[k] = cut[k]
      BY <2>0, <2>4
    <3> QED
      BY <1>1, <2>2, <2>4, <3>1, <3>2 DEF CutAt
  <2> QED
    BY <1>1, <2>5 DEF LogInv, PiecesInv
<1> QED
  BY <1>10, <1>11, <1>12, <1>13 DEF LogInv

(***************************************************************************)
(* A change of the size limit only raises the bound on the files.          *)
(***************************************************************************)
LEMMA SetMaxFileSize ==
  ASSUME LogInv, NEW n \in SizeLimits, set_max_file_size(n)
  PROVE  LogInv'
<1>1. /\ max_file_size_' = n
      /\ limits' = [limits EXCEPT !.largest = Max({@, n})]
      /\ UNCHANGED <<files, is_open, current_file_size_, max_files_, pc, index, written,
                     interrupts>>
  BY DEF set_max_file_size
<1>2. TypeOK /\ n \in Nat /\ limits \in [fewest : Nat, most : Nat, largest : Nat, extra : {0, 1}]
  BY LoggerAssumption DEF LogInv, TypeOK
<1>3. /\ Max({limits.largest, n}) \in Nat /\ Max({limits.largest, n}) >= limits.largest
      /\ Max({limits.largest, n}) >= n
  <2>1. limits.largest \in Nat
    BY <1>2
  <2>2. Max({limits.largest, n}) = IF limits.largest >= n THEN limits.largest ELSE n
    BY <1>2, <2>1, PairExtremes
  <2> QED
    BY <1>2, <2>1, <2>2
<1>4. /\ limits' \in [fewest : Nat, most : Nat, largest : Nat, extra : {0, 1}]
      /\ limits'.fewest = limits.fewest /\ limits'.most = limits.most
      /\ limits'.largest = Max({limits.largest, n}) /\ limits'.extra = limits.extra
  BY <1>1, <1>2, <1>3
<1>5. limits'.largest \in Nat /\ limits.largest \in Nat /\ limits'.largest >= limits.largest
      /\ n <= limits'.largest
  BY <1>2, <1>3, <1>4
<1>6. TypeOK'
  BY <1>1, <1>2, <1>4, <1>5 DEF TypeOK
<1>7. RotationInv'
  BY <1>1, <1>4 DEF LogInv, RotationInv
<1>8. SizeInv'
  <2>1. \A x, y \in Nat : x < limits.largest + y => x < limits'.largest + y
    BY <1>5
  <2>2. \A k \in Files : Len(files[k]) \in Nat
    BY <1>2 DEF TypeOK
  <2>3. MaxLine * (1 + interrupts) \in Nat /\ MaxLine * interrupts \in Nat
    <3>1. MaxLine \in Nat /\ interrupts \in Nat
      BY <1>2, Numbers DEF TypeOK
    <3> QED
      BY <3>1, OneMoreLine
  <2>4. pc = "idle" => Len(files[0]) < limits'.largest + MaxLine * interrupts
    BY <1>1, <2>1, <2>2, <2>3, FileNames DEF LogInv, SizeInv
  <2>5. \A k \in Files : Len(files[k]) < limits'.largest + MaxLine * (1 + interrupts)
    BY <2>1, <2>2, <2>3 DEF LogInv, SizeInv, DiskBounded
  <2> QED
    BY <1>1, <1>4, <2>4, <2>5 DEF LogInv, SizeInv, DiskBounded
<1>9. PiecesInv'
  <2>1. PICK cut : CutAt(cut)
    BY DEF LogInv, PiecesInv
  <2>2. CutAt(cut)'
    BY <1>1, <1>4, <2>1 DEF CutAt
  <2> QED
    BY <1>1, <2>2 DEF LogInv, PiecesInv
<1> QED
  BY <1>6, <1>7, <1>8, <1>9 DEF LogInv

(***************************************************************************)
(* log() adds the line to the current file, and at most one line beyond    *)
(* the limit.                                                              *)
(***************************************************************************)
LEMMA LogStep ==
  ASSUME LogInv, NEW n \in 1..MaxLine, log(n)
  PROVE  LogInv'
<1> DEFINE line == [k \in 1..n |-> written + k]
<1>1. /\ pc = "idle" /\ is_open /\ files' = [files EXCEPT ![0] = @ \o line]
      /\ written' = written + n /\ current_file_size_' = current_file_size_ + n
      /\ \/ /\ current_file_size_' >= max_file_size_
            /\ pc' = "shift" /\ index' = max_files_ - 1 /\ is_open' = FALSE
         \/ ~(current_file_size_' >= max_file_size_) /\ UNCHANGED <<pc, index, is_open>>
      /\ UNCHANGED <<max_file_size_, max_files_, limits, interrupts>>
  BY DEF log, configVars
<1>2. TypeOK /\ written \in Nat /\ current_file_size_ \in Nat /\ interrupts \in Nat
  BY DEF LogInv, TypeOK
<1>3. /\ MaxLine \in Nat /\ n \in Nat \ {0} /\ n <= MaxLine /\ max_files_ \in Nat \ {0}
      /\ max_file_size_ \in Nat \ {0}
      /\ limits.largest \in Nat /\ limits.fewest \in Nat /\ limits.fewest >= 2
      /\ max_file_size_ <= limits.largest
      /\ 0 \in Files /\ 1 \in Files
  BY <1>2, Numbers DEF TypeOK
<1>4. line = Bytes(written, written + n) /\ line \in Seq(Nat) /\ Len(line) = n
  <2>1. written + n \in Nat /\ written <= written + n /\ (written + n) - written = n
    BY <1>2, <1>3
  <2>2. line = Bytes(written, written + n)
    BY <1>2, <1>3, LineIs
  <2>3. /\ Bytes(written, written + n) \in Seq(Nat)
        /\ Len(Bytes(written, written + n)) = (written + n) - written
    BY <1>2, <2>1, BytesAre
  <2> HIDE DEF line
  <2> QED
    BY <2>1, <2>2, <2>3
<1> HIDE DEF line
<1>5. /\ files[0] \in Seq(Nat) /\ files[0] \o line \in Seq(Nat) /\ Len(files[0]) \in Nat
      /\ Len(files[0] \o line) = Len(files[0]) + n
  <2>1. files[0] \in Seq(Nat)
    BY <1>2, <1>3 DEF TypeOK
  <2>2. Len(files[0]) \in Nat
    BY <2>1
  <2>3. /\ files[0] \o line \in Seq(Nat)
        /\ Len(files[0] \o line) = Len(files[0]) + Len(line)
    BY <1>4, <2>1, ConcatProperties
  <2> QED
    BY <1>4, <2>1, <2>2, <2>3
<1>6. files'[0] = files[0] \o line /\ \A k \in Files : k # 0 => files'[k] = files[k]
  BY <1>1, <1>2, <1>3 DEF TypeOK
<1>7. files' \in [Files -> Seq(Nat)]
  BY <1>1, <1>2, <1>5 DEF TypeOK
<1>8. TypeOK'
  <2>1. written' \in Nat /\ current_file_size_' \in Nat
    BY <1>1, <1>2, <1>3
  <2>2. index' \in Nat /\ pc' \in {"idle", "shift", "reopen"} /\ is_open' \in BOOLEAN
    <3>1. max_files_ - 1 \in Nat /\ index \in Nat /\ is_open \in BOOLEAN
      BY <1>2, <1>3 DEF TypeOK
    <3> QED
      BY <1>1, <3>1
  <2> QED
    BY <1>1, <1>2, <1>7, <2>1, <2>2 DEF TypeOK
<1>9. Len(files'[0]) = Len(files[0]) + n /\ files'[0] # << >>
  <2>1. Len(files'[0]) # 0
    BY <1>3, <1>5, <1>6
  <2> QED
    BY <1>5, <1>6, <2>1
<1>10. current_file_size_' = Len(files'[0])
  BY <1>1, <1>9 DEF LogInv, RotationInv
<1>11. RotationInv'
  <2>0. /\ limits.fewest <= max_files_ \/ limits.fewest = 2
        /\ max_files_ <= limits.most /\ limits.most \in Nat
    BY <1>2, Numbers DEF TypeOK
  <2>1. pc' = "shift" => /\ index' < max_files_ /\ index' < limits.most
                         /\ ~(index' + 2 < limits.fewest)
    BY <1>1, <1>3, <2>0
  <2> QED
    BY <1>1, <1>9, <1>10, <2>1 DEF RotationInv
<1>12. SizeInv'
  <2>1. /\ MaxLine * (1 + interrupts) = MaxLine + MaxLine * interrupts
        /\ MaxLine * interrupts \in Nat
    BY <1>2, <1>3, OneMoreLine
  <2>2. Len(files[0]) < limits.largest + MaxLine * interrupts
    BY <1>1 DEF LogInv, SizeInv
  <2>3. Len(files'[0]) < limits.largest + MaxLine * (1 + interrupts)
    BY <1>3, <1>5, <1>9, <2>1, <2>2
  <2>4. pc' = "idle" => Len(files'[0]) < limits.largest + MaxLine * interrupts
    <3> SUFFICES ASSUME pc' = "idle" PROVE Len(files'[0]) < limits.largest + MaxLine * interrupts
      OBVIOUS
    <3>1. ~(Len(files'[0]) >= max_file_size_) /\ Len(files'[0]) \in Nat
      BY <1>1, <1>3, <1>5, <1>9, <1>10
    <3> QED
      BY <1>3, <2>1, <3>1
  <2>5. limits.most \in Nat /\ limits.most >= 2 /\ limits.extra \in {0, 1}
    BY <1>2 DEF TypeOK
  <2>6. ~(0 >= limits.most + limits.extra)
    BY <2>5
  <2> QED
    BY <1>1, <1>6, <2>3, <2>4, <2>6 DEF LogInv, SizeInv, DiskBounded
<1>13. PiecesInv'
  <2>1. PICK cut : CutAt(cut)
    BY DEF LogInv, PiecesInv
  <2>2. /\ cut \in [0..limits.fewest -> Nat] /\ cut[0] = written
        /\ \A k \in 0..limits.fewest - 1 : /\ cut[k + 1] <= cut[k]
                                           /\ files[k] = Bytes(cut[k + 1], cut[k])
    BY <2>1 DEF CutAt
  <2>3. PICK new : new = [cut EXCEPT ![0] = written + n]
    OBVIOUS
  <2>4. /\ 0 \in 0..limits.fewest /\ 0 \in 0..limits.fewest - 1 /\ 0 + 1 \in 0..limits.fewest
        /\ \A k \in 0..limits.fewest - 1 : /\ k + 1 # 0 /\ k + 1 \in 0..limits.fewest
                                           /\ k \in 0..limits.fewest
    BY <1>3
  <2>5. new \in [0..limits.fewest -> Nat] /\ new[0] = written + n
        /\ \A k \in 0..limits.fewest : k # 0 => new[k] = cut[k]
    BY <1>2, <1>3, <2>2, <2>3, <2>4
  <2>6. /\ cut[0 + 1] \in Nat /\ cut[0 + 1] <= written
        /\ files[0] = Bytes(cut[0 + 1], written)
    BY <2>2, <2>4
  <2>7. files'[0] = Bytes(cut[0 + 1], written + n) /\ cut[0 + 1] <= written + n
    <3>1. written <= written + n /\ written + n \in Nat
      BY <1>2, <1>3
    <3>2. Bytes(cut[0 + 1], written) \o Bytes(written, written + n) = Bytes(cut[0 + 1], written + n)
      BY <1>2, <2>6, <3>1, BytesJoin
    <3>3. cut[0 + 1] <= written + n
      BY <1>2, <2>6, <3>1
    <3>4. files'[0] = Bytes(cut[0 + 1], written) \o Bytes(written, written + n)
      BY <1>4, <1>6, <2>6
    <3> QED
      BY <3>2, <3>3, <3>4
  <2>8. ASSUME NEW k \in 0..limits.fewest - 1
        PROVE  new[k + 1] <= new[k] /\ files'[k] = Bytes(new[k + 1], new[k])
    <3>1. new[k + 1] = cut[k + 1]
      BY <2>4, <2>5
    <3>2. CASE k = 0
      BY <2>5, <2>7, <3>1, <3>2
    <3>3. CASE k # 0
      <4>1. k \in Files
        BY <1>2, Numbers
      <4> QED
        BY <1>6, <2>2, <2>4, <2>5, <3>1, <3>3, <4>1
    <3> QED
      BY <3>2, <3>3
  <2>9. CutAt(new)'
    BY <1>1, <2>5, <2>8 DEF CutAt
  <2> QED
    BY <1>9, <2>9 DEF PiecesInv
<1> QED
  BY <1>8, <1>11, <1>12, <1>13 DEF LogInv

(***************************************************************************)
(* What rename() leaves in each file.                                      *)
(***************************************************************************)
LEMMA RenamedFiles ==
  ASSUME TypeOK, NEW i \in Nat, i \in Files, i + 1 \in Files, files' = Renamed(i, i + 1)
  PROVE  /\ files' \in [Files -> Seq(Nat)] /\ files'[i] = << >> /\ files'[i + 1] = files[i]
         /\ \A k \in Files : k # i /\ k # i + 1 => files'[k] = files[k]
<1>1. files \in [Files -> Seq(Nat)] /\ << >> \in Seq(Nat) /\ i # i + 1
  BY DEF TypeOK
<1> QED
  BY <1>1 DEF Renamed

(***************************************************************************)
(* Moving a file to a name that is free, or is the last of those kept,     *)
(* moves the cuts with it.                                                 *)
(***************************************************************************)
LEMMA MovePieces ==
  ASSUME TypeOK, PiecesInv, NEW i \in Nat, i \in Files, i + 1 \in Files,
         files' = Renamed(i, i + 1), UNCHANGED <<written, limits>>,
         files[i + 1] = << >> \/ limits.fewest <= i + 2
  PROVE  \E cut : CutAt(cut)'
<1>1. PICK n \in Nat : n = limits.fewest /\ n >= 2
  BY DEF TypeOK
<1>2. PICK cut : CutAt(cut)
  BY DEF PiecesInv
<1>3. /\ cut \in [0..n -> Nat] /\ cut[0] = written
      /\ \A k \in 0..(n - 1) : cut[k + 1] <= cut[k] /\ files[k] = Bytes(cut[k + 1], cut[k])
  BY <1>1, <1>2 DEF CutAt
<1>4. /\ files'[i] = << >> /\ files'[i + 1] = files[i]
      /\ \A k \in Files : k # i /\ k # i + 1 => files'[k] = files[k]
  BY RenamedFiles
<1>5. \A k \in 0..(n - 1) : k \in Files
  BY <1>1, Numbers
<1>6. PICK new : new = [k \in 0..n |-> IF k = i + 1 THEN cut[i]
                                      ELSE IF k = i + 2 THEN cut[i + 1] ELSE cut[k]]
  OBVIOUS
<1>7. \A k \in 0..n : new[k] = IF k = i + 1 THEN cut[i]
                              ELSE IF k = i + 2 THEN cut[i + 1] ELSE cut[k]
  BY <1>6
<1>8. \A k \in 0..n : new[k] \in Nat
  <2>1. \A k \in 0..n : k = i + 1 => i \in 0..n
    OBVIOUS
  <2>2. \A k \in 0..n : k = i + 2 => i + 1 \in 0..n
    OBVIOUS
  <2> QED
    BY <1>3, <1>7, <2>1, <2>2
<1>9. new \in [0..n -> Nat] /\ new[0] = written
  <2>1. 0 \in 0..n /\ 0 # i + 1 /\ 0 # i + 2
    BY <1>1
  <2> QED
    BY <1>3, <1>6, <1>7, <1>8, <2>1
<1>10. ASSUME NEW k \in 0..(n - 1)
       PROVE  new[k + 1] <= new[k] /\ files'[k] = Bytes(new[k + 1], new[k])
  <2>1. /\ k \in 0..n /\ k + 1 \in 0..n /\ k \in Files /\ k \in Nat
        /\ cut[k + 1] <= cut[k] /\ files[k] = Bytes(cut[k + 1], cut[k])
        /\ cut[k] \in Nat /\ cut[k + 1] \in Nat
    BY <1>1, <1>3, <1>5
  <2>2. CASE k < i
    <3>1. k + 1 # i + 1 /\ k + 1 # i + 2 /\ k # i + 1 /\ k # i + 2 /\ k # i
      BY <2>1, <2>2
    <3> QED
      BY <1>4, <1>7, <2>1, <3>1
  <2>3. CASE k = i
    <3>1. k + 1 = i + 1 /\ k # i + 1 /\ k # i + 2
      BY <2>1, <2>3
    <3>2. new[k + 1] = cut[k] /\ new[k] = cut[k]
      BY <1>7, <2>1, <2>3, <3>1
    <3>3. Bytes(cut[k], cut[k]) = << >> /\ cut[k] <= cut[k]
      BY <2>1, EmptyPiece
    <3> QED
      BY <1>4, <2>1, <2>3, <3>2, <3>3
  <2>4. CASE k = i + 1
    <3>1. k + 1 = i + 2 /\ k + 1 # i + 1 /\ i \in 0..(n - 1)
      BY <2>1, <2>4
    <3>2. new[k + 1] = cut[i + 1] /\ new[k] = cut[i]
      BY <1>7, <2>1, <2>4, <3>1
    <3>3. cut[i + 1] <= cut[i] /\ files[i] = Bytes(cut[i + 1], cut[i])
      BY <1>3, <3>1
    <3> QED
      BY <1>4, <2>4, <3>2, <3>3
  <2>5. CASE k = i + 2
    <3>1. /\ k + 1 # i + 1 /\ k + 1 # i + 2 /\ k # i + 1 /\ k # i /\ ~(n <= i + 2)
          /\ i + 1 \in 0..(n - 1) /\ (i + 1) + 1 = k /\ i + 1 \in 0..n
      BY <1>1, <2>1, <2>5
    <3>2. files[i + 1] = << >>
      BY <1>1, <3>1
    <3>3. cut[k] <= cut[i + 1] /\ files[i + 1] = Bytes(cut[k], cut[i + 1]) /\ cut[i + 1] \in Nat
      BY <1>3, <3>1
    <3>4. cut[i + 1] = cut[k]
      BY <2>1, <3>2, <3>3, EmptyPiece
    <3>5. new[k + 1] = cut[k + 1] /\ new[k] = cut[k]
      BY <1>7, <2>1, <2>5, <3>1, <3>4
    <3> QED
      BY <1>4, <2>1, <3>1, <3>5
  <2>6. CASE k > i + 2
    <3>1. k + 1 # i + 1 /\ k + 1 # i + 2 /\ k # i + 1 /\ k # i + 2 /\ k # i
      BY <2>1, <2>6
    <3> QED
      BY <1>4, <1>7, <2>1, <3>1
  <2>7. k < i \/ k = i \/ k = i + 1 \/ k = i + 2 \/ k > i + 2
    BY <2>1
  <2> QED
    BY <2>2, <2>3, <2>4, <2>5, <2>6, <2>7
<1>11. CutAt(new)'
  BY <1>1, <1>9, <1>10 DEF CutAt
<1> QED
  BY <1>11

(***************************************************************************)
(* Removing the last of the files kept, or one beyond, takes the oldest    *)
(* piece away.                                                             *)
(***************************************************************************)
LEMMA DropPieces ==
  ASSUME TypeOK, PiecesInv, NEW i \in Nat, i \in Files,
         files' = [files EXCEPT ![i] = << >>], UNCHANGED <<written, limits>>,
         limits.fewest <= i + 1
  PROVE  \E cut : CutAt(cut)'
<1>1. PICK n \in Nat : n = limits.fewest /\ n >= 2
  BY DEF TypeOK
<1>2. PICK cut : CutAt(cut)
  BY DEF PiecesInv
<1>3. /\ cut \in [0..n -> Nat] /\ cut[0] = written
      /\ \A k \in 0..(n - 1) : cut[k + 1] <= cut[k] /\ files[k] = Bytes(cut[k + 1], cut[k])
  BY <1>1, <1>2 DEF CutAt
<1>4. /\ files'[i] = << >>
      /\ \A k \in Files : k # i => files'[k] = files[k]
  BY DEF TypeOK
<1>5. \A k \in 0..(n - 1) : k \in Files
  BY <1>1, Numbers
<1>6. PICK new : new = [k \in 0..n |-> IF k = i + 1 THEN cut[i] ELSE cut[k]]
  OBVIOUS
<1>7. \A k \in 0..n : new[k] = IF k = i + 1 THEN cut[i] ELSE cut[k]
  BY <1>6
<1>8. \A k \in 0..n : new[k] \in Nat
  <2>1. \A k \in 0..n : k = i + 1 => i \in 0..n
    OBVIOUS
  <2> QED
    BY <1>3, <1>7, <2>1
<1>9. new \in [0..n -> Nat] /\ new[0] = written
  <2>1. 0 \in 0..n /\ 0 # i + 1
    BY <1>1
  <2> QED
    BY <1>3, <1>6, <1>7, <1>8, <2>1
<1>10. ASSUME NEW k \in 0..(n - 1)
       PROVE  new[k + 1] <= new[k] /\ files'[k] = Bytes(new[k + 1], new[k])
  <2>0. n <= i + 1
    BY <1>1
  <2>1. /\ k \in 0..n /\ k + 1 \in 0..n /\ k \in Files /\ k \in Nat /\ k # i + 1
        /\ cut[k + 1] <= cut[k] /\ files[k] = Bytes(cut[k + 1], cut[k])
        /\ cut[k] \in Nat /\ cut[k + 1] \in Nat
    <3>1. k \in 0..n /\ k + 1 \in 0..n /\ k \in Nat /\ k # i + 1
      BY <1>1, <2>0
    <3> QED
      BY <1>3, <1>5, <3>1
  <2>2. CASE k # i
    <3>1. k + 1 # i + 1
      BY <2>1, <2>2
    <3> QED
      BY <1>4, <1>7, <2>1, <2>2, <3>1
  <2>3. CASE k = i
    <3>1. new[k + 1] = cut[k] /\ new[k] = cut[k]
      BY <1>7, <2>1, <2>3
    <3>2. Bytes(cut[k], cut[k]) = << >> /\ cut[k] <= cut[k]
      BY <2>1, EmptyPiece
    <3> QED
      BY <1>4, <2>1, <2>3, <3>1, <3>2
  <2> QED
    BY <2>2, <2>3
<1>11. CutAt(new)'
  BY <1>1, <1>9, <1>10 DEF CutAt
<1> QED
  BY <1>11

(***************************************************************************)
(* No file is longer than the longest was.                                 *)
(***************************************************************************)
LEMMA NoFileGrows ==
  ASSUME TypeOK, DiskBounded, UNCHANGED <<limits, interrupts>>,
         \A k \in Files : \/ files'[k] = << >>
                          \/ \E j \in Files : files'[k] = files[j],
         \A k \in Files : k >= limits.most + limits.extra => files'[k] = << >>
  PROVE  DiskBounded'
<1>1. /\ MaxLine \in Nat /\ interrupts \in Nat /\ limits.largest \in Nat \ {0}
  BY Numbers DEF TypeOK
<1>2. MaxLine * (1 + interrupts) \in Nat
  BY <1>1
<1>3. 0 < limits.largest + MaxLine * (1 + interrupts)
  BY <1>1, <1>2
<1>4. Len(<< >>) = 0
  OBVIOUS
<1>5. \A k \in Files : Len(files'[k]) < limits.largest + MaxLine * (1 + interrupts)
  BY <1>3, <1>4 DEF DiskBounded
<1> QED
  BY <1>5 DEF DiskBounded

(***************************************************************************)
(* A turn of the loop: the file is missing, is the last and is removed, or *)
(* moves to the name the turn before has freed, or to one that is not      *)
(* kept: the one above the limit, if that has changed.                     *)
(***************************************************************************)
LEMMA ShiftStep ==
  ASSUME LogInv, Shift
  PROVE  LogInv'
<1>1. /\ pc = "shift" /\ pc' = "shift" /\ index > 0 /\ index' = index - 1
      /\ UNCHANGED <<is_open, current_file_size_, max_file_size_, max_files_, limits,
                     written, interrupts>>
  BY DEF Shift, configVars
<1>2. TypeOK /\ RotationInv /\ DiskBounded /\ PiecesInv
  BY DEF LogInv, SizeInv
<1>3. /\ index < limits.most /\ files[0] # << >> /\ ~is_open
      /\ limits.extra = 0 => index < max_files_
      /\ index + 2 < limits.fewest => files[index + 1] = << >>
  BY <1>1, <1>2 DEF RotationInv
<1>4. /\ index \in Nat /\ max_files_ \in Nat /\ limits.fewest \in Nat /\ limits.most \in Nat
      /\ max_files_ <= limits.most /\ 2 <= limits.fewest /\ limits.extra \in {0, 1}
      /\ limits.fewest <= max_files_ \/ limits.fewest = 2
  BY <1>2, Numbers DEF TypeOK
<1>5. /\ index # 0 /\ index - 1 \in Nat /\ index + 1 \in Nat
      /\ (index - 1) + 1 = index /\ index - 1 < limits.most /\ index # index + 1
      /\ index + 1 # 0 /\ (index < max_files_ => index - 1 < max_files_)
  BY <1>1, <1>3, <1>4
<1>6. index \in Files /\ 0 \in Files /\ index + 1 \in Files
  <2>1. index <= limits.most /\ index + 1 <= limits.most
    BY <1>3, <1>4
  <2>2. \A k \in Nat : k <= limits.most => k \in Files
    BY <1>2 DEF TypeOK
  <2> QED
    BY <1>2, <1>4, <1>5, <2>1, <2>2, Numbers
<1>7. /\ files' \in [Files -> Seq(Nat)] /\ files'[index] = << >> /\ files'[0] = files[0]
      /\ DiskBounded' /\ \E cut : CutAt(cut)'
  <2>1. CASE files[index] = << >>
    <3>1. files' = files
      BY <2>1 DEF Shift
    <3>2. PiecesInv'
      BY <1>1, <1>2, <3>1, SamePieces
    <3>3. DiskBounded'
      BY <1>1, <1>2, <3>1 DEF DiskBounded
    <3> QED
      BY <1>2, <2>1, <3>1, <3>2, <3>3 DEF TypeOK, PiecesInv
  <2>2. CASE files[index] # << >> /\ index = max_files_ - 1
    <3>1. files' = [files EXCEPT ![index] = << >>]
      BY <2>2 DEF Shift
    <3>2. << >> \in Seq(Nat) /\ files \in [Files -> Seq(Nat)]
      BY <1>2 DEF TypeOK
    <3>3. /\ files' \in [Files -> Seq(Nat)] /\ files'[index] = << >>
          /\ \A k \in Files : k # index => files'[k] = files[k]
      BY <1>6, <3>1, <3>2
    <3>4. DiskBounded'
      BY <1>1, <1>2, <3>3, NoFileGrows DEF DiskBounded
    <3>5. limits.fewest <= index + 1
      BY <1>1, <1>4, <2>2
    <3>6. \E cut : CutAt(cut)'
      BY <1>1, <1>2, <1>4, <1>6, <3>1, <3>5, DropPieces
    <3> QED
      BY <1>5, <1>6, <3>3, <3>4, <3>6
  <2>3. CASE files[index] # << >> /\ index # max_files_ - 1
    <3>1. files' = Renamed(index, index + 1)
      BY <2>3 DEF Shift
    <3>2. files[index + 1] = << >> \/ limits.fewest <= index + 2
      BY <1>3, <1>4
    <3>4. /\ files' \in [Files -> Seq(Nat)] /\ files'[index] = << >>
          /\ files'[index + 1] = files[index]
          /\ \A k \in Files : k # index /\ k # index + 1 => files'[k] = files[k]
      BY <1>2, <1>4, <1>6, <3>1, RenamedFiles
    <3>5. ~(index + 1 >= limits.most + limits.extra)
      <4>1. CASE limits.extra = 0
        BY <1>3, <1>4, <2>3, <4>1
      <4>2. CASE limits.extra = 1
        BY <1>3, <1>4, <4>2
      <4> QED
        BY <1>4, <4>1, <4>2
    <3>6. DiskBounded'
      <4>1. \A k \in Files : k >= limits.most + limits.extra => files'[k] = << >>
        BY <1>2, <3>4, <3>5 DEF DiskBounded
      <4>2. \A k \in Files : \/ files'[k] = << >> \/ \E j \in Files : files'[k] = files[j]
        BY <1>6, <3>4
      <4> QED
        BY <1>1, <1>2, <4>1, <4>2, NoFileGrows
    <3>7. \E cut : CutAt(cut)'
      BY <1>1, <1>2, <1>4, <1>6, <3>1, <3>2, MovePieces
    <3> QED
      BY <1>5, <1>6, <3>4, <3>6, <3>7
  <2> QED
    BY <2>1, <2>2, <2>3
<1>8. TypeOK'
  BY <1>1, <1>2, <1>5, <1>7 DEF TypeOK
<1>9. RotationInv'
  <2>1. (index - 1) + 1 = index
    BY <1>5
  <2> QED
    BY <1>1, <1>3, <1>5, <1>7, <2>1 DEF RotationInv
<1>10. SizeInv'
  BY <1>1, <1>7 DEF SizeInv
<1>11. PiecesInv'
  BY <1>3, <1>7 DEF PiecesInv
<1> QED
  BY <1>8, <1>9, <1>10, <1>11 DEF LogInv

(***************************************************************************)
(* The current file moves to .1: that name is free, or .1 is the oldest    *)
(* of the two that are kept.                                               *)
(***************************************************************************)
LEMMA ShiftCurrentStep ==
  ASSUME LogInv, ShiftCurrent
  PROVE  LogInv'
<1>1. /\ pc = "shift" /\ pc' = "reopen" /\ index = 0
      /\ UNCHANGED <<is_open, current_file_size_, max_file_size_, max_files_, limits, index,
                     written, interrupts>>
  BY DEF ShiftCurrent, configVars
<1>2. TypeOK /\ RotationInv /\ DiskBounded /\ PiecesInv
  BY DEF LogInv, SizeInv
<1>3. files[0] # << >> /\ ~is_open /\ (0 + 2 < limits.fewest => files[0 + 1] = << >>)
  BY <1>1, <1>2 DEF RotationInv
<1>4. /\ max_files_ \in Nat /\ limits.fewest \in Nat /\ 2 <= limits.fewest
      /\ limits.most \in Nat /\ 2 <= limits.most /\ limits.extra \in {0, 1}
      /\ 0 \in Files /\ 0 + 1 \in Files
  BY <1>2, Numbers DEF TypeOK
<1>5. files' = Renamed(0, 0 + 1)
  BY <1>3 DEF ShiftCurrent
<1>6. files[0 + 1] = << >> \/ limits.fewest <= 0 + 2
  BY <1>3, <1>4
<1>7. /\ files' \in [Files -> Seq(Nat)] /\ files'[0] = << >> /\ files'[1] = files[0]
      /\ \A k \in Files : k # 0 /\ k # 1 => files'[k] = files[k]
  BY <1>2, <1>4, <1>5, RenamedFiles
<1>8. DiskBounded'
  <2>1. ~(0 >= limits.most + limits.extra) /\ ~(1 >= limits.most + limits.extra)
    BY <1>4
  <2>2. \A k \in Files : k >= limits.most + limits.extra => files'[k] = << >>
    BY <1>2, <1>7, <2>1 DEF DiskBounded
  <2>3. \A k \in Files : \/ files'[k] = << >> \/ \E j \in Files : files'[k] = files[j]
    BY <1>4, <1>7
  <2> QED
    BY <1>1, <1>2, <2>2, <2>3, NoFileGrows
<1>9. \E cut : CutAt(cut)'
  BY <1>1, <1>2, <1>4, <1>5, <1>6, MovePieces
<1>10. TypeOK'
  BY <1>1, <1>2, <1>7 DEF TypeOK
<1>11. RotationInv'
  BY <1>1, <1>3, <1>7 DEF RotationInv
<1>12. SizeInv'
  BY <1>1, <1>8 DEF SizeInv
<1>13. PiecesInv'
  BY <1>3, <1>7, <1>9 DEF PiecesInv
<1> QED
  BY <1>10, <1>11, <1>12, <1>13 DEF LogInv

(***************************************************************************)
(* The reopened file is truncated, but it was moved away: nothing is lost. *)
(***************************************************************************)
LEMMA ReopenStep ==
  ASSUME LogInv, NEW opens \in BOOLEAN, Reopen(opens)
  PROVE  LogInv'
<1>1. /\ pc = "reopen" /\ pc' = "idle" /\ is_open' = opens /\ current_file_size_' = 0
      /\ files' = IF opens THEN [files EXCEPT ![0] = << >>] ELSE files
      /\ UNCHANGED <<max_file_size_, max_files_, limits, index, written, interrupts>>
  BY DEF Reopen, configVars
<1>2. TypeOK /\ RotationInv /\ DiskBounded /\ PiecesInv /\ files \in [Files -> Seq(Nat)]
  BY DEF LogInv, SizeInv, TypeOK
<1>3. files[0] = << >> /\ 0 \in Files
  BY <1>1, <1>2, FileNames DEF RotationInv
<1>4. files' = files
  <2>1. [files EXCEPT ![0] = << >>] = files
    BY <1>2, <1>3
  <2> QED
    BY <1>1, <2>1
<1>5. Len(files'[0]) = 0
  BY <1>3, <1>4
<1>6. TypeOK'
  BY <1>1, <1>2, <1>4 DEF TypeOK
<1>7. RotationInv'
  BY <1>1, <1>5 DEF RotationInv
<1>8. SizeInv'
  <2>1. /\ MaxLine \in Nat /\ interrupts \in Nat /\ limits.largest \in Nat \ {0}
    BY <1>2, Numbers DEF TypeOK
  <2>2. MaxLine * interrupts \in Nat
    BY <2>1
  <2>3. 0 < limits.largest + MaxLine * interrupts
    BY <2>1, <2>2
  <2>4. DiskBounded'
    BY <1>1, <1>2, <1>4 DEF DiskBounded
  <2> QED
    BY <1>1, <1>5, <2>3, <2>4 DEF SizeInv
<1>9. PiecesInv'
  BY <1>1, <1>2, <1>4, SamePieces
<1> QED
  BY <1>6, <1>7, <1>8, <1>9 DEF LogInv

(***************************************************************************)
(* A rotation that is cut short leaves every file where it is, and the     *)
(* current one may be a line longer than between rotations.                *)
(***************************************************************************)
LEMMA Interrupted ==
  ASSUME LogInv, pc' = "idle", index' = 0, is_open' = FALSE, current_file_size_' \in Nat,
         interrupts' = interrupts + 1,
         UNCHANGED <<files, max_file_size_, max_files_, limits, written>>
  PROVE  LogInv'
<1>1. TypeOK /\ DiskBounded /\ PiecesInv
  BY DEF LogInv, SizeInv
<1>2. MaxLine \in Nat /\ interrupts \in Nat /\ limits.largest \in Nat /\ 0 \in Files
  BY <1>1, Numbers DEF TypeOK
<1>3. TypeOK'
  <2>1. interrupts' \in Nat /\ index' \in Nat
    BY <1>2
  <2>2. is_open' \in BOOLEAN /\ pc' \in {"idle", "shift", "reopen"}
    BY Zenon
  <2> QED
    BY <1>1, <2>1, <2>2 DEF TypeOK
<1>4. RotationInv'
  BY DEF RotationInv
<1>5. SizeInv'
  <2>1. PICK less \in Nat : /\ MaxLine * (1 + interrupts) = less
                           /\ MaxLine * interrupts' = less
                           /\ MaxLine * (1 + interrupts') = MaxLine + less
    <3>1. /\ MaxLine * (1 + interrupts) = MaxLine + MaxLine * interrupts
          /\ MaxLine * interrupts \in Nat
          /\ MaxLine * (interrupts + 1) = MaxLine + MaxLine * interrupts
          /\ MaxLine * (1 + (interrupts + 1)) = MaxLine + (MaxLine + MaxLine * interrupts)
      BY <1>2, OneMoreLine
    <3>2. MaxLine + MaxLine * interrupts \in Nat
      BY <1>2, <3>1
    <3> QED
      BY <3>1, <3>2
  <2>2. \A k \in Files : Len(files[k]) \in Nat /\ Len(files[k]) < limits.largest + less
    BY <1>1, <2>1 DEF TypeOK, DiskBounded
  <2>3. \A x \in Nat : x < limits.largest + less => x < limits.largest + (MaxLine + less)
    BY <1>2
  <2>4. DiskBounded'
    BY <1>1, <2>1, <2>2, <2>3 DEF DiskBounded
  <2> QED
    BY <1>2, <2>1, <2>2, <2>4 DEF SizeInv
<1>6. PiecesInv'
  BY <1>1, SamePieces
<1> QED
  BY <1>3, <1>4, <1>5, <1>6 DEF LogInv

(***************************************************************************)
(* Every step keeps the invariant.                                         *)
(***************************************************************************)
LEMMA LogNext == LogInv /\ [Next]_vars => LogInv'
<1> SUFFICES ASSUME LogInv, [Next]_vars PROVE LogInv'
  OBVIOUS
<1>1. ASSUME NEW opens \in BOOLEAN, set_output_file(opens) PROVE LogInv'
  BY <1>1, SetOutputFile
<1>2. ASSUME NEW opens \in BOOLEAN, Reopen(opens) PROVE LogInv'
  BY <1>2, ReopenStep
<1>3. ASSUME NEW n \in FileLimits, set_max_files(n) PROVE LogInv'
  BY <1>3, SetMaxFiles
<1>4. ASSUME NEW n \in SizeLimits, set_max_file_size(n) PROVE LogInv'
  BY <1>4, SetMaxFileSize
<1>5. ASSUME NEW n \in 1..MaxLine, log(n) PROVE LogInv'
  BY <1>5, LogStep
<1>6. CASE Shift
  BY <1>6, ShiftStep
<1>7. CASE ShiftCurrent
  BY <1>7, ShiftCurrentStep
<1>8. CASE FilesystemError
  <2>1. ~is_open /\ is_open \in BOOLEAN /\ current_file_size_ \in Nat
    BY <1>8 DEF FilesystemError, LogInv, RotationInv, TypeOK
  <2>2. is_open' = FALSE /\ current_file_size_' \in Nat
    BY <1>8, <2>1 DEF FilesystemError
  <2> QED
    BY <1>8, <2>2, Interrupted DEF FilesystemError, configVars
<1>9. CASE Crash
  <2>1. current_file_size_' \in Nat
    BY <1>9 DEF Crash
  <2> QED
    BY <1>9, <2>1, Interrupted DEF Crash, configVars
<1>10. CASE UNCHANGED vars
  <2>1. PiecesInv'
    BY <1>10, SamePieces DEF LogInv, vars
  <2> QED
    BY <1>10, <2>1 DEF LogInv, TypeOK, RotationInv, SizeInv, DiskBounded, vars
<1> QED
  BY <1>1, <1>2, <1>3, <1>4, <1>5, <1>6, <1>7, <1>8, <1>9, <1>10 DEF Next

(***************************************************************************)
(* Logger keeps LogInv: at every step of rotate_log_file(), after a file   *)
(* system error and after a crash, the files cut the log into consecutive  *)
(* pieces.                                                                 *)
(***************************************************************************)
THEOREM LogInvariant == Spec => []LogInv
<1> QED
  BY LogInit, LogNext, PTL DEF Spec

(***************************************************************************)
(* The members of Logger keep their types, and the configured limits stay  *)
(* within the extremes the properties refer to.                            *)
(***************************************************************************)
THEOREM TypeCorrect == Spec => []TypeOK
<1>1. LogInv => TypeOK
  BY DEF LogInv
<1> QED
  BY <1>1, LogInvariant, PTL

(***************************************************************************)
(* The files kept hold the last bytes logged, each once, in order and      *)
(* without a gap (log, rotate_log_file, set_output_file).                  *)
(***************************************************************************)
THEOREM NothingIsLost == Spec => []LogContiguous
<1>1. LogInv => LogContiguous
  BY PiecesAreContiguous DEF LogInv
<1> QED
  BY <1>1, LogInvariant, PTL

(***************************************************************************)
(* The log takes no more files than the highest limit, and one more if a   *)
(* limit changed within a rotation; none is longer than the size limit by  *)
(* a line and one per interruption (log, rotate_log_file, set_max_files).  *)
(***************************************************************************)
THEOREM DiskIsBounded == Spec => []DiskBounded
<1>1. LogInv => DiskBounded
  BY DEF LogInv, SizeInv
<1> QED
  BY <1>1, LogInvariant, PTL
=============================================================================
