---------------------------- MODULE MemoryProofs ----------------------------
(***************************************************************************)
(* Proofs about the two keepers of memory of utils/.                       *)
(*                                                                         *)
(* Buffer, for any number of buffers, any sizes of the vector, of the      *)
(* prepend area and of extrabuf, and any size of a byte.                   *)
(*                                                                         *)
(* MemoryPool, for any threads, block size and number of blocks.           *)
(***************************************************************************)
EXTENDS Buffer, MemoryPool, FiniteSetTheorems, SequenceTheorems,
        WellFoundedInduction, TLAPS

-----------------------------------------------------------------------------
(* Buffer.                                                                 *)

(***************************************************************************)
(* b owes its reader s: its members have their types, the indices are in   *)
(* order, and the bytes of s are the ones that lie between them.  A vector *)
(* that can be used has its prepend area, which retrieve_all() relies on.  *)
(***************************************************************************)
Buffers == [buffer_ : Seq(Byte), read_index_ : Nat, write_index_ : Nat]

Owes(b, s) ==
  /\ b \in Buffers /\ s \in Seq(Byte)
  /\ InOrder(b)
  /\ Usable(b) => kCheapPrepend <= Len(b.buffer_)
  /\ Len(s) = readable_bytes(b)
  /\ \A i \in 1..Len(s) : s[i] = b.buffer_[b.read_index_ + i]

BufferInv ==
  /\ buf \in [Objects -> Buffers] /\ content \in [Objects -> Seq(Byte)]
  /\ \A o \in Objects : Owes(buf[o], content[o])

-----------------------------------------------------------------------------
(* The vector.                                                             *)

(***************************************************************************)
(* Bytes are natural numbers, and zero is one: resize() fills with it.     *)
(***************************************************************************)
LEMMA ByteType == 0 \in Byte /\ Byte \subseteq Nat
BY SizeAssumption DEF Byte

(***************************************************************************)
(* Copying data into a vector changes the cells it lands on and no other.  *)
(***************************************************************************)
LEMMA CopyToCells ==
  ASSUME NEW cells \in Seq(Byte), NEW at \in Nat, NEW data \in Seq(Byte)
  PROVE  /\ CopyTo(cells, at, data) \in Seq(Byte)
         /\ Len(CopyTo(cells, at, data)) = Len(cells)
         /\ \A i \in 1..Len(cells) :
              CopyTo(cells, at, data)[i] = IF i > at /\ i <= at + Len(data)
                                             THEN data[i - at] ELSE cells[i]
<1>1. \A i \in 1..Len(cells) : i > at /\ i <= at + Len(data) => data[i - at] \in Byte
  OBVIOUS
<1>2. CopyTo(cells, at, data) \in [1..Len(cells) -> Byte]
  BY <1>1 DEF CopyTo
<1>3. CopyTo(cells, at, data) \in Seq(Byte)
  BY <1>2
<1> QED
  BY <1>2, <1>3 DEF CopyTo

(***************************************************************************)
(* resize() keeps the cells the vector had and clears the new ones.        *)
(***************************************************************************)
LEMMA ResizedCells ==
  ASSUME NEW cells \in Seq(Byte), NEW n \in Nat
  PROVE  /\ Resized(cells, n) \in Seq(Byte) /\ Len(Resized(cells, n)) = n
         /\ \A i \in 1..n : Resized(cells, n)[i] = IF i <= Len(cells) THEN cells[i] ELSE 0
<1>1. Resized(cells, n) \in [1..n -> Byte]
  BY ByteType DEF Resized
<1> QED
  BY <1>1 DEF Resized

(***************************************************************************)
(* What a buffer owes is what to_string() returns.                         *)
(***************************************************************************)
LEMMA Unread ==
  ASSUME NEW b, NEW s, Owes(b, s)
  PROVE  to_string(b) = s
<1>1. /\ b.buffer_ \in Seq(Byte) /\ b.read_index_ \in Nat /\ b.write_index_ \in Nat
      /\ s \in Seq(Byte) /\ Len(s) = b.write_index_ - b.read_index_
      /\ b.read_index_ <= b.write_index_
      /\ \A i \in 1..Len(s) : s[i] = b.buffer_[b.read_index_ + i]
  BY DEF Owes, Buffers, InOrder, readable_bytes
<1>2. CASE b.read_index_ = b.write_index_
  <2>1. to_string(b) = << >>
    BY <1>1, <1>2, SubSeqEmpty DEF to_string
  <2> QED
    BY <1>1, <1>2, <2>1
<1>3. CASE b.read_index_ # b.write_index_
  <2>1. b.write_index_ <= Len(b.buffer_)
    BY <1>3 DEF Owes, InOrder, Usable, Hollow
  <2>2. \A i \in (b.read_index_ + 1)..b.write_index_ : b.buffer_[i] \in Byte
    BY <1>1, <2>1
  <2>3. /\ to_string(b) \in Seq(Byte)
        /\ Len(to_string(b)) = b.write_index_ - b.read_index_
        /\ \A i \in 1..Len(s) : to_string(b)[i] = b.buffer_[b.read_index_ + i]
    <3>1. b.read_index_ + 1 \in Int /\ b.write_index_ \in Int
          /\ b.read_index_ + 1 <= b.write_index_
      BY <1>1, <1>3
    <3>2. /\ to_string(b) \in Seq(Byte)
          /\ Len(to_string(b)) = b.write_index_ - (b.read_index_ + 1) + 1
          /\ \A i \in 1..(b.write_index_ - (b.read_index_ + 1) + 1) :
               to_string(b)[i] = b.buffer_[(b.read_index_ + 1) + i - 1]
      BY <2>2, <3>1, SubSeqProperties DEF to_string
    <3>3. /\ b.write_index_ - (b.read_index_ + 1) + 1 = Len(s)
          /\ \A i \in 1..Len(s) : (b.read_index_ + 1) + i - 1 = b.read_index_ + i
      BY <1>1
    <3> QED
      BY <1>1, <3>2, <3>3
  <2> QED
    BY <1>1, <2>3, SeqEqual
<1> QED
  BY <1>2, <1>3

-----------------------------------------------------------------------------
(* The operations.                                                         *)

(***************************************************************************)
(* The bytes written after the unread ones are found there.                *)
(***************************************************************************)
LEMMA WrittenCells ==
  ASSUME NEW b, NEW s, Owes(b, s), NEW data \in Seq(Byte),
         b.write_index_ + Len(data) <= Len(b.buffer_)
  PROVE  \A i \in 1..Len(s \o data) :
           (s \o data)[i] = CopyTo(b.buffer_, b.write_index_, data)[b.read_index_ + i]
<1> DEFINE cells == b.buffer_
           r == b.read_index_
           w == b.write_index_
           t == s \o data
           copy == CopyTo(cells, w, data)
<1>0. /\ cells \in Seq(Byte) /\ r \in Nat /\ w \in Nat /\ s \in Seq(Byte)
      /\ Len(s) = w - r /\ w + Len(data) <= Len(cells)
      /\ \A i \in 1..Len(s) : s[i] = cells[r + i]
  BY DEF Owes, Buffers, readable_bytes
<1> HIDE DEF cells, r, w
<1>1. Len(s) \in Nat /\ Len(data) \in Nat /\ Len(cells) \in Nat
  BY <1>0
<1>2. /\ Len(t) = Len(s) + Len(data)
      /\ \A i \in 1..Len(s) : t[i] = s[i]
      /\ \A i \in 1..Len(t) : i > Len(s) => t[i] = data[i - Len(s)]
  <2>0. s \in Seq(Byte)
    BY <1>0
  <2>1. Len(t) = Len(s) + Len(data)
    BY <2>0
  <2>2. \A i \in 1..Len(s) : t[i] = s[i]
    BY <1>0, <1>1
  <2>3. ASSUME NEW i \in 1..Len(t), i > Len(s) PROVE t[i] = data[i - Len(s)]
    BY <1>0, <1>1, <2>1, <2>3
  <2> QED
    BY <2>1, <2>2, <2>3
<1>3. \A i \in 1..Len(cells) :
        copy[i] = IF i > w /\ i <= w + Len(data) THEN data[i - w] ELSE cells[i]
  BY <1>0, CopyToCells
<1> HIDE DEF t, copy
<1>4. ASSUME NEW i \in 1..Len(t) PROVE t[i] = copy[r + i]
  <2>1. i \in Nat /\ i >= 1 /\ i <= Len(s) + Len(data)
    BY <1>1, <1>2
  <2>2. CASE i <= Len(s)
    <3>1. i \in 1..Len(s) /\ r + i \in 1..Len(cells) /\ ~(r + i > w)
      BY <1>0, <1>1, <2>1, <2>2
    <3> QED
      BY <1>0, <1>2, <1>3, <3>1
  <2>3. CASE i > Len(s)
    <3> DEFINE j == r + i
    <3>1. j \in 1..Len(cells) /\ j > w /\ j <= w + Len(data) /\ j - w = i - Len(s)
      BY <1>0, <1>1, <2>1, <2>3
    <3> HIDE DEF j
    <3>2. copy[j] = data[j - w]
      BY <1>3, <3>1
    <3>3. t[i] = data[i - Len(s)]
      BY <1>2, <2>3
    <3>4. t[i] = copy[j]
      BY <3>1, <3>2, <3>3
    <3> QED
      BY <3>4 DEF j
  <2> QED
    BY <1>1, <2>1, <2>2, <2>3
<1> QED
  BY <1>4 DEF t, copy, cells, r, w

(***************************************************************************)
(* Writing into the writable area adds the bytes to what is owed.          *)
(***************************************************************************)
LEMMA HasWrittenOwes ==
  ASSUME NEW b, NEW s, Owes(b, s), Usable(b), NEW data \in Seq(Byte),
         Len(data) <= writable_bytes(b)
  PROVE  /\ Owes(has_written(b, data), s \o data) /\ Usable(has_written(b, data))
         /\ writable_bytes(has_written(b, data)) = writable_bytes(b) - Len(data)
<1> DEFINE c == has_written(b, data)
           cells == CopyTo(b.buffer_, b.write_index_, data)
           t == s \o data
<1>1. /\ b.buffer_ \in Seq(Byte) /\ b.read_index_ \in Nat /\ b.write_index_ \in Nat
      /\ s \in Seq(Byte) /\ Len(s) = b.write_index_ - b.read_index_ /\ b \in Buffers
      /\ b.read_index_ <= b.write_index_ /\ b.write_index_ <= Len(b.buffer_)
      /\ \A i \in 1..Len(s) : s[i] = b.buffer_[b.read_index_ + i]
  BY DEF Owes, Buffers, InOrder, readable_bytes, Usable
<1>2. /\ Len(data) \in Nat /\ Len(b.buffer_) \in Nat
      /\ b.write_index_ + Len(data) <= Len(b.buffer_)
  <2>1. Len(data) \in Nat /\ Len(b.buffer_) \in Nat /\ Len(data) <= Len(b.buffer_) - b.write_index_
    BY <1>1 DEF writable_bytes
  <2> QED
    BY <1>1, <2>1
<1>3. cells \in Seq(Byte) /\ Len(cells) = Len(b.buffer_)
  BY <1>1, CopyToCells
<1>4. t \in Seq(Byte) /\ Len(t) = Len(s) + Len(data)
  BY <1>1, ConcatProperties
<1>5. \A i \in 1..Len(t) : t[i] = cells[b.read_index_ + i]
  BY <1>2, WrittenCells
<1>6. c = [b EXCEPT !.buffer_ = cells, !.write_index_ = b.write_index_ + Len(data)]
  BY <1>1 DEF has_written, Buffers
<1> HIDE DEF c, cells, t
<1>7. /\ c \in Buffers /\ c.buffer_ = cells /\ c.read_index_ = b.read_index_
      /\ c.write_index_ = b.write_index_ + Len(data)
  <2>1. b.write_index_ + Len(data) \in Nat
    BY <1>1, <1>2
  <2> QED
    BY <1>1, <1>3, <1>6, <2>1 DEF Buffers
<1>8. /\ c.read_index_ <= c.write_index_ /\ c.write_index_ <= Len(c.buffer_)
      /\ Len(t) = c.write_index_ - c.read_index_
      /\ Len(c.buffer_) - c.write_index_ = Len(b.buffer_) - b.write_index_ - Len(data)
  BY <1>1, <1>2, <1>3, <1>4, <1>7
<1>9. Owes(c, t)
  BY <1>3, <1>4, <1>5, <1>7, <1>8 DEF Owes, InOrder, Usable, readable_bytes
<1> QED
  BY <1>8, <1>9 DEF c, t, Usable, writable_bytes

(***************************************************************************)
(* make_space() by resizing keeps what is owed and makes the room asked    *)
(* for.                                                                    *)
(***************************************************************************)
LEMMA GrowOwes ==
  ASSUME NEW b, NEW s, Owes(b, s), Usable(b), NEW len \in Nat, writable_bytes(b) < len
  PROVE  /\ Owes(Grow(b, len), s) /\ Usable(Grow(b, len))
         /\ writable_bytes(Grow(b, len)) >= len
         /\ Grow(b, len).read_index_ <= b.read_index_
<1> DEFINE c == Grow(b, len)
           cells == Resized(b.buffer_, b.write_index_ + len)
<1>1. /\ b.buffer_ \in Seq(Byte) /\ b.read_index_ \in Nat /\ b.write_index_ \in Nat
      /\ s \in Seq(Byte) /\ Len(s) = b.write_index_ - b.read_index_
      /\ b.read_index_ <= b.write_index_ /\ b.write_index_ <= Len(b.buffer_)
      /\ Len(b.buffer_) - b.write_index_ < len /\ Len(b.buffer_) \in Nat
      /\ b.write_index_ + len \in Nat /\ kCheapPrepend <= Len(b.buffer_)
      /\ \A i \in 1..Len(s) : s[i] = b.buffer_[b.read_index_ + i]
  BY DEF Owes, Buffers, InOrder, readable_bytes, Usable, writable_bytes
<1>2. /\ cells \in Seq(Byte) /\ Len(cells) = b.write_index_ + len
      /\ \A i \in 1..(b.write_index_ + len) :
           cells[i] = IF i <= Len(b.buffer_) THEN b.buffer_[i] ELSE 0
  BY <1>1, ResizedCells
<1>3. /\ c \in Buffers /\ c.buffer_ = cells /\ c.read_index_ = b.read_index_
      /\ c.write_index_ = b.write_index_
  BY <1>1, <1>2 DEF Owes, Buffers, Grow
<1> HIDE DEF c, cells
<1>4. ASSUME NEW i \in 1..Len(s) PROVE s[i] = c.buffer_[c.read_index_ + i]
  <2>1. b.read_index_ + i \in 1..(b.write_index_ + len) /\ b.read_index_ + i <= Len(b.buffer_)
    BY <1>1
  <2> QED
    BY <1>1, <1>2, <1>3, <2>1
<1>5. /\ Usable(c) /\ InOrder(c) /\ readable_bytes(c) = Len(s)
      /\ writable_bytes(c) >= len /\ kCheapPrepend <= Len(c.buffer_)
  BY SizeAssumption, <1>1, <1>2, <1>3 DEF Usable, InOrder, readable_bytes, writable_bytes
<1> QED
  BY <1>1, <1>3, <1>4, <1>5 DEF c, Owes

(***************************************************************************)
(* make_space() by moving the bytes to the front keeps what is owed and    *)
(* makes the room asked for.                                               *)
(***************************************************************************)
LEMMA CompactOwes ==
  ASSUME NEW b, NEW s, Owes(b, s), Usable(b), NEW len \in Nat, writable_bytes(b) < len,
         writable_bytes(b) + prependable_bytes(b) >= len + kCheapPrepend
  PROVE  /\ Owes(Compact(b), s) /\ Usable(Compact(b))
         /\ writable_bytes(Compact(b)) >= len
         /\ Compact(b).read_index_ <= b.read_index_
<1> DEFINE c == Compact(b)
           cells == CopyTo(b.buffer_, kCheapPrepend, s)
<1>1. /\ b.buffer_ \in Seq(Byte) /\ b.read_index_ \in Nat /\ b.write_index_ \in Nat
      /\ s \in Seq(Byte) /\ Len(s) = b.write_index_ - b.read_index_
      /\ b.read_index_ <= b.write_index_ /\ b.write_index_ <= Len(b.buffer_)
      /\ Len(b.buffer_) - b.write_index_ < len /\ Len(b.buffer_) \in Nat
      /\ Len(b.buffer_) - b.write_index_ + b.read_index_ >= len + kCheapPrepend
      /\ kCheapPrepend \in Nat
  BY SizeAssumption DEF Owes, Buffers, InOrder, readable_bytes, Usable, writable_bytes,
     prependable_bytes
<1>2. kCheapPrepend <= b.read_index_ /\ kCheapPrepend + Len(s) + len <= Len(b.buffer_)
  BY <1>1
<1>3. /\ cells \in Seq(Byte) /\ Len(cells) = Len(b.buffer_)
      /\ \A i \in 1..Len(b.buffer_) :
           cells[i] = IF i > kCheapPrepend /\ i <= kCheapPrepend + Len(s)
                        THEN s[i - kCheapPrepend] ELSE b.buffer_[i]
  BY <1>1, CopyToCells
<1>4. to_string(b) = s /\ kCheapPrepend + Len(s) \in Nat /\ readable_bytes(b) = Len(s)
  BY <1>1, Unread DEF readable_bytes
<1>5. /\ c \in Buffers /\ c.buffer_ = cells /\ c.read_index_ = kCheapPrepend
      /\ c.write_index_ = kCheapPrepend + Len(s)
  BY <1>1, <1>3, <1>4 DEF Buffers, Compact
<1> HIDE DEF c, cells
<1>6. ASSUME NEW i \in 1..Len(s) PROVE s[i] = c.buffer_[c.read_index_ + i]
  <2>1. /\ kCheapPrepend + i \in 1..Len(b.buffer_) /\ kCheapPrepend + i > kCheapPrepend
        /\ kCheapPrepend + i <= kCheapPrepend + Len(s) /\ (kCheapPrepend + i) - kCheapPrepend = i
    BY <1>1, <1>2
  <2> QED
    BY <1>3, <1>5, <2>1
<1>7. /\ Usable(c) /\ InOrder(c) /\ readable_bytes(c) = Len(s)
      /\ writable_bytes(c) >= len /\ kCheapPrepend <= Len(c.buffer_)
  BY <1>1, <1>2, <1>3, <1>5 DEF Usable, InOrder, readable_bytes, writable_bytes
<1> QED
  BY <1>1, <1>2, <1>5, <1>6, <1>7 DEF c, Owes

(***************************************************************************)
(* ensure_writable_bytes() makes the room it was asked for, keeps the      *)
(* unread bytes and moves them towards the front only.                     *)
(***************************************************************************)
LEMMA EnsureOwes ==
  ASSUME NEW b, NEW s, Owes(b, s), Usable(b), NEW len \in Nat
  PROVE  /\ Owes(ensure_writable_bytes(b, len), s) /\ Usable(ensure_writable_bytes(b, len))
         /\ writable_bytes(ensure_writable_bytes(b, len)) >= len
         /\ ensure_writable_bytes(b, len).read_index_ <= b.read_index_
<1>1. /\ writable_bytes(b) \in Int /\ prependable_bytes(b) \in Int /\ kCheapPrepend \in Nat
      /\ b.read_index_ \in Nat
  BY SizeAssumption DEF Owes, Buffers, writable_bytes, prependable_bytes
<1>2. CASE writable_bytes(b) >= len
  BY <1>1, <1>2 DEF ensure_writable_bytes
<1>3. CASE /\ writable_bytes(b) < len
           /\ writable_bytes(b) + prependable_bytes(b) < len + kCheapPrepend
  BY <1>1, <1>3, GrowOwes DEF ensure_writable_bytes, make_space
<1>4. CASE /\ writable_bytes(b) < len
           /\ writable_bytes(b) + prependable_bytes(b) >= len + kCheapPrepend
  BY <1>1, <1>4, CompactOwes DEF ensure_writable_bytes, make_space
<1> QED
  BY <1>1, <1>2, <1>3, <1>4

(***************************************************************************)
(* append() adds the bytes to what is owed, whatever room there was.       *)
(***************************************************************************)
LEMMA AppendOwes ==
  ASSUME NEW b, NEW s, Owes(b, s), Usable(b), NEW data \in Seq(Byte)
  PROVE  Owes(append(b, data), s \o data) /\ Usable(append(b, data))
<1>1. Len(data) \in Nat
  OBVIOUS
<1> QED
  BY <1>1, EnsureOwes, HasWrittenOwes DEF append

(***************************************************************************)
(* retrieve() takes the bytes from the front, all of them if more are      *)
(* asked for.                                                              *)
(***************************************************************************)
LEMMA RetrieveOwes ==
  ASSUME NEW b, NEW s, Owes(b, s), Usable(b), NEW len \in Nat
  PROVE  Owes(retrieve(b, len), IF len < Len(s) THEN From(s, len) ELSE << >>)
<1> DEFINE c == retrieve(b, len)
<1>1. /\ b.buffer_ \in Seq(Byte) /\ b.read_index_ \in Nat /\ b.write_index_ \in Nat
      /\ s \in Seq(Byte) /\ Len(s) = b.write_index_ - b.read_index_ /\ b \in Buffers
      /\ b.read_index_ <= b.write_index_ /\ b.write_index_ <= Len(b.buffer_)
      /\ \A i \in 1..Len(s) : s[i] = b.buffer_[b.read_index_ + i]
      /\ kCheapPrepend \in Nat /\ kCheapPrepend <= Len(b.buffer_)
  BY SizeAssumption DEF Owes, Buffers, InOrder, readable_bytes, Usable
<1>2. CASE len < Len(s)
  <2> DEFINE t == From(s, len)
  <2>1. c = [b EXCEPT !.read_index_ = b.read_index_ + len]
    BY <1>1, <1>2 DEF retrieve, readable_bytes
  <2>2. b.read_index_ + len \in Nat /\ len + 1 \in Int /\ len + 1 <= Len(s) /\ Len(s) \in Nat
    BY <1>1, <1>2
  <2>3. /\ t \in Seq(Byte) /\ Len(t) = Len(s) - (len + 1) + 1
        /\ \A i \in 1..(Len(s) - (len + 1) + 1) : t[i] = s[(len + 1) + i - 1]
    <3>1. \A i \in (len + 1)..Len(s) : s[i] \in Byte
      BY <1>1, <2>2
    <3> QED
      BY <2>2, <3>1, SubSeqProperties DEF From
  <2> HIDE DEF c, t
  <2>4. /\ c \in Buffers /\ c.buffer_ = b.buffer_ /\ c.read_index_ = b.read_index_ + len
        /\ c.write_index_ = b.write_index_
    BY <1>1, <2>1, <2>2 DEF Buffers
  <2>5. Len(t) = Len(s) - len
    BY <2>2, <2>3
  <2>6. ASSUME NEW i \in 1..Len(t) PROVE t[i] = c.buffer_[c.read_index_ + i]
    <3>1. /\ len + i \in 1..Len(s) /\ (len + 1) + i - 1 = len + i
          /\ i \in 1..(Len(s) - (len + 1) + 1)
          /\ b.read_index_ + (len + i) = (b.read_index_ + len) + i
      BY <1>1, <2>2, <2>5
    <3>2. t[i] = s[len + i]
      BY <2>3, <3>1
    <3>3. s[len + i] = b.buffer_[b.read_index_ + (len + i)]
      BY <1>1, <3>1
    <3> QED
      BY <2>4, <3>1, <3>2, <3>3
  <2>7. c.read_index_ <= c.write_index_ /\ Len(t) = c.write_index_ - c.read_index_
    BY <1>1, <1>2, <2>4, <2>5
  <2>8. Owes(c, t)
    BY <1>1, <2>3, <2>4, <2>6, <2>7 DEF Owes, InOrder, Usable, readable_bytes
  <2> QED
    BY <1>2, <2>8 DEF c, t
<1>3. CASE ~(len < Len(s))
  <2>1. c = [b EXCEPT !.read_index_ = kCheapPrepend, !.write_index_ = kCheapPrepend]
    BY <1>1, <1>3 DEF retrieve, retrieve_all, readable_bytes
  <2> HIDE DEF c
  <2>2. /\ c \in Buffers /\ c.buffer_ = b.buffer_ /\ c.read_index_ = kCheapPrepend
        /\ c.write_index_ = kCheapPrepend
    BY <1>1, <2>1 DEF Buffers
  <2>3. << >> \in Seq(Byte) /\ Len(<< >>) = 0
    OBVIOUS
  <2>4. Owes(c, << >>)
    BY <1>1, <2>2, <2>3 DEF Owes, InOrder, Usable, readable_bytes
  <2> QED
    BY <1>3, <2>4 DEF c
<1> QED
  BY <1>2, <1>3

(***************************************************************************)
(* prepend() puts the bytes in front of the unread ones.                   *)
(***************************************************************************)
LEMMA PrependOwes ==
  ASSUME NEW b, NEW s, Owes(b, s), Usable(b), NEW data \in Seq(Byte),
         Len(data) <= prependable_bytes(b)
  PROVE  Owes(prepend(b, data), data \o s)
<1> DEFINE c == prepend(b, data)
           at == b.read_index_ - Len(data)
           cells == CopyTo(b.buffer_, at, data)
           t == data \o s
<1>1. /\ b.buffer_ \in Seq(Byte) /\ b.read_index_ \in Nat /\ b.write_index_ \in Nat
      /\ s \in Seq(Byte) /\ Len(s) = b.write_index_ - b.read_index_ /\ b \in Buffers
      /\ b.read_index_ <= b.write_index_ /\ b.write_index_ <= Len(b.buffer_)
      /\ \A i \in 1..Len(s) : s[i] = b.buffer_[b.read_index_ + i]
      /\ kCheapPrepend <= Len(b.buffer_) /\ Len(data) <= b.read_index_
  BY DEF Owes, Buffers, InOrder, readable_bytes, Usable, prependable_bytes
<1>2. /\ Len(data) \in Nat /\ Len(s) \in Nat /\ Len(b.buffer_) \in Nat
      /\ at \in Nat /\ at + Len(data) = b.read_index_
      /\ at + Len(data) + Len(s) = b.write_index_
  <2>1. Len(data) \in Nat /\ Len(s) \in Nat /\ Len(b.buffer_) \in Nat
    BY <1>1
  <2> QED
    BY <1>1, <2>1
<1>3. c = [b EXCEPT !.buffer_ = cells, !.read_index_ = at]
  BY <1>1 DEF prepend, Buffers
<1> HIDE DEF at
<1>4. /\ cells \in Seq(Byte) /\ Len(cells) = Len(b.buffer_)
      /\ \A i \in 1..Len(b.buffer_) :
           cells[i] = IF i > at /\ i <= at + Len(data) THEN data[i - at] ELSE b.buffer_[i]
  BY <1>1, <1>2, CopyToCells
<1>5. s \in Seq(Byte)
  BY <1>1
<1>6. /\ t \in Seq(Byte) /\ Len(t) = Len(data) + Len(s)
      /\ \A i \in 1..Len(data) : t[i] = data[i]
      /\ \A i \in 1..Len(t) : i > Len(data) => t[i] = s[i - Len(data)]
  <2>1. t \in Seq(Byte) /\ Len(t) = Len(data) + Len(s)
    BY <1>5
  <2>2. \A i \in 1..Len(data) : t[i] = data[i]
    BY <1>5
  <2>3. ASSUME NEW i \in 1..Len(t), i > Len(data) PROVE t[i] = s[i - Len(data)]
    BY <1>2, <1>5, <2>1, <2>3
  <2> QED
    BY <2>1, <2>2, <2>3
<1> HIDE DEF c, cells, t
<1>7. /\ c \in Buffers /\ c.buffer_ = cells /\ c.read_index_ = at
      /\ c.write_index_ = b.write_index_
  BY <1>1, <1>2, <1>3, <1>4 DEF Buffers
<1>8. ASSUME NEW i \in 1..Len(t) PROVE t[i] = cells[at + i]
  <2> DEFINE j == at + i
  <2>1. i \in Nat /\ i >= 1 /\ i <= Len(data) + Len(s)
    BY <1>2, <1>6
  <2>2. j \in 1..Len(b.buffer_) /\ j > at
    BY <1>1, <1>2, <2>1
  <2>3. CASE i <= Len(data)
    <3>1. j <= at + Len(data) /\ j - at = i /\ i \in 1..Len(data)
      BY <1>2, <2>1, <2>3
    <3> HIDE DEF j
    <3>2. cells[j] = data[j - at] /\ t[i] = data[i]
      BY <1>4, <1>6, <2>2, <3>1
    <3>3. cells[j] = t[i]
      BY <3>1, <3>2
    <3> QED
      BY <3>3 DEF j
  <2>4. CASE i > Len(data)
    <3> DEFINE k == i - Len(data)
    <3>1. ~(j <= at + Len(data)) /\ k \in 1..Len(s) /\ b.read_index_ + k = j
      BY <1>2, <2>1, <2>4
    <3>2. t[i] = s[k]
      BY <1>6, <2>4
    <3> HIDE DEF j, k
    <3>3. cells[j] = b.buffer_[j] /\ s[k] = b.buffer_[j]
      BY <1>1, <1>4, <2>2, <3>1
    <3>4. cells[j] = t[i]
      BY <3>2, <3>3
    <3> QED
      BY <3>4 DEF j
  <2> QED
    BY <1>2, <2>1, <2>3, <2>4
<1>9. c.read_index_ <= c.write_index_ /\ Len(t) = c.write_index_ - c.read_index_
  <2>1. at <= b.write_index_ /\ Len(data) + Len(s) = b.write_index_ - at
    BY <1>2
  <2> QED
    BY <1>6, <1>7, <2>1
<1>10. Owes(c, t)
  BY <1>1, <1>4, <1>6, <1>7, <1>8, <1>9 DEF Owes, InOrder, Usable, readable_bytes
<1> QED
  BY <1>10 DEF c, t

(***************************************************************************)
(* unwrite() takes the bytes back from the end.                            *)
(***************************************************************************)
LEMMA UnwriteOwes ==
  ASSUME NEW b, NEW s, Owes(b, s), Usable(b), NEW len \in Nat, len <= readable_bytes(b)
  PROVE  Owes([b EXCEPT !.write_index_ = @ - len], SubSeq(s, 1, Len(s) - len))
<1> DEFINE c == [b EXCEPT !.write_index_ = b.write_index_ - len]
           t == SubSeq(s, 1, Len(s) - len)
<1>1. /\ b.buffer_ \in Seq(Byte) /\ b.read_index_ \in Nat /\ b.write_index_ \in Nat
      /\ s \in Seq(Byte) /\ Len(s) = b.write_index_ - b.read_index_ /\ b \in Buffers
      /\ b.read_index_ <= b.write_index_ /\ b.write_index_ <= Len(b.buffer_)
      /\ \A i \in 1..Len(s) : s[i] = b.buffer_[b.read_index_ + i]
      /\ kCheapPrepend <= Len(b.buffer_) /\ len <= b.write_index_ - b.read_index_
  BY DEF Owes, Buffers, InOrder, readable_bytes, Usable
<1>2. Len(s) \in Nat /\ Len(s) - len \in Nat /\ b.write_index_ - len \in Nat
  BY <1>1
<1>3. /\ t \in Seq(Byte) /\ Len(t) = Len(s) - len
      /\ \A i \in 1..(Len(s) - len) : t[i] = s[i]
  <2>1. \A i \in 1..(Len(s) - len) : s[i] \in Byte
    BY <1>1, <1>2
  <2>2. s \in Seq(Byte)
    BY <1>1
  <2>3. /\ t \in Seq(Byte) /\ Len(t) = IF 1 <= Len(s) - len THEN Len(s) - len - 1 + 1 ELSE 0
        /\ \A i \in 1..(Len(s) - len - 1 + 1) : t[i] = s[1 + i - 1]
    BY <1>2, <2>1, SubSeqProperties
  <2> HIDE DEF t
  <2> QED
    BY <1>2, <2>3
<1> HIDE DEF t
<1>4. /\ c \in Buffers /\ c.buffer_ = b.buffer_ /\ c.read_index_ = b.read_index_
      /\ c.write_index_ = b.write_index_ - len
  BY <1>1, <1>2 DEF Buffers
<1>5. c = [b EXCEPT !.write_index_ = @ - len]
  BY <1>1 DEF Buffers
<1> HIDE DEF c
<1>6. /\ c.read_index_ <= c.write_index_ /\ c.write_index_ <= Len(c.buffer_)
      /\ Len(t) = c.write_index_ - c.read_index_
  BY <1>1, <1>2, <1>3, <1>4
<1>7. \A i \in 1..Len(t) : i \in 1..Len(s) /\ i \in 1..(Len(s) - len)
  BY <1>2, <1>3
<1>8. Owes(c, t)
  BY <1>1, <1>3, <1>4, <1>6, <1>7 DEF Owes, InOrder, Usable, readable_bytes
<1> QED
  BY <1>5, <1>8 DEF t

(***************************************************************************)
(* Concatenation of byte sequences is associative.                         *)
(***************************************************************************)
LEMMA Assoc ==
  ASSUME NEW a \in Seq(Byte), NEW b \in Seq(Byte), NEW c \in Seq(Byte)
  PROVE  (a \o b) \o c = a \o (b \o c)
<1>1. /\ a \o b \in Seq(Byte) /\ b \o c \in Seq(Byte)
      /\ Len(a) \in Nat /\ Len(b) \in Nat /\ Len(c) \in Nat
      /\ Len(a \o b) = Len(a) + Len(b) /\ Len(b \o c) = Len(b) + Len(c)
  BY ConcatProperties, LenProperties
<1>2. /\ (a \o b) \o c \in Seq(Byte) /\ a \o (b \o c) \in Seq(Byte)
      /\ Len((a \o b) \o c) = Len(a) + Len(b) + Len(c)
      /\ Len(a \o (b \o c)) = Len(a) + Len(b) + Len(c)
  BY <1>1, ConcatProperties
<1>3. ASSUME NEW i \in 1..(Len(a) + Len(b) + Len(c))
      PROVE  ((a \o b) \o c)[i] = (a \o (b \o c))[i]
  OBVIOUS
<1> QED
  BY <1>2, <1>3, SeqEqual

(***************************************************************************)
(* read_fd() adds what the socket gave, the part that came into its spill  *)
(* buffer included.                                                        *)
(***************************************************************************)
LEMMA ReadFdOwes ==
  ASSUME NEW b, NEW s, Owes(b, s), Usable(b), NEW data \in Seq(Byte)
  PROVE  Owes(read_fd(b, data), s \o data)
<1> DEFINE w == writable_bytes(b)
           first == SubSeq(data, 1, w)
           rest == SubSeq(data, w + 1, Len(data))
<1>1. w \in Nat /\ Len(data) \in Nat /\ s \in Seq(Byte)
  BY DEF Owes, Buffers, Usable, writable_bytes
<1>2. CASE Len(data) <= w
  BY <1>2, HasWrittenOwes DEF read_fd
<1>3. CASE ~(Len(data) <= w)
  <2> HIDE DEF w
  <2>1. /\ first \in Seq(Byte) /\ rest \in Seq(Byte) /\ Len(first) = w
    <3>1. /\ \A i \in 1..w : data[i] \in Byte
          /\ \A i \in (w + 1)..Len(data) : data[i] \in Byte
      BY <1>1, <1>3
    <3>2. first \in Seq(Byte) /\ Len(first) = IF 1 <= w THEN w - 1 + 1 ELSE 0
      BY <1>1, <3>1, SubSeqProperties
    <3>3. w + 1 \in Int /\ Len(data) \in Int
      BY <1>1
    <3>4. rest \in Seq(Byte)
      BY <3>1, <3>3, SubSeqProperties
    <3> HIDE DEF first, rest
    <3> QED
      BY <1>1, <3>2, <3>4
  <2>2. first \o rest = data
    <3>1. /\ 1 \in 1..(Len(data) + 1) /\ w \in (1 - 1)..Len(data)
          /\ Len(data) \in w..Len(data)
      BY <1>1, <1>3
    <3>2. first \o rest = SubSeq(data, 1, Len(data))
      BY <3>1, ConcatAdjacentSubSeq
    <3> QED
      BY <3>2, SubSeqFull
  <2>3. read_fd(b, data) = append(has_written(b, first), rest)
    BY <1>3 DEF read_fd, w
  <2> HIDE DEF first, rest
  <2>4. Owes(has_written(b, first), s \o first) /\ Usable(has_written(b, first))
    <3>1. Len(first) <= writable_bytes(b)
      BY <1>1, <2>1 DEF w
    <3> QED
      BY <2>1, <3>1, HasWrittenOwes
  <2>5. Owes(append(has_written(b, first), rest), (s \o first) \o rest)
    BY <2>1, <2>4, AppendOwes
  <2>6. (s \o first) \o rest = s \o data
    BY <1>1, <2>1, <2>2, Assoc
  <2> QED
    BY <2>3, <2>5, <2>6
<1> QED
  BY <1>2, <1>3

-----------------------------------------------------------------------------
(* The powers of Base.                                                     *)

(***************************************************************************)
(* A set of naturals that is not empty has a least element.                *)
(***************************************************************************)
LEMMA LeastNatural ==
  ASSUME NEW T \in SUBSET Nat, T # {}
  PROVE  \E m \in T : \A n \in T : m <= n
<1>1. \A m, n \in Nat : <<n, m>> \notin OpToRel(<, Nat) => ~(n < m)
  BY Zenon DEF OpToRel
<1>2. \E m \in T : \A n \in T : ~(<<n, m>> \in OpToRel(<, Nat))
  BY NatLessThanWellFounded, WFMin, Zenon
<1>3. PICK m \in T : \A n \in T : ~(n < m)
  BY <1>1, <1>2, Zenon
<1> QED
  BY <1>3

(***************************************************************************)
(* The recursion that defines Pow has a solution, built from the solutions *)
(* on the initial segments of Nat.                                         *)
(***************************************************************************)
PowUpTo(n, g) == /\ g \in [0..n -> Nat] /\ g[0] = 1
                 /\ \A k \in 1..n : g[k] = Base * g[k - 1]

(***************************************************************************)
(* The recursion of Pow has a solution up to every exponent.               *)
(***************************************************************************)
LEMMA PowUpToExists == \A n \in Nat : \E g : PowUpTo(n, g)
<1> DEFINE T == {n \in Nat : ~\E g : PowUpTo(n, g)}
<1> SUFFICES ASSUME T # {} PROVE FALSE
  OBVIOUS
<1>1. PICK m \in T : \A n \in T : m <= n
  <2>1. T \in SUBSET Nat
    OBVIOUS
  <2> HIDE DEF T
  <2> QED
    BY <2>1, LeastNatural
<1>2. m \in Nat /\ m # 0
  <2>1. PowUpTo(0, [i \in 0..0 |-> 1])
    BY DEF PowUpTo
  <2> QED
    BY <2>1
<1>3. m - 1 \in Nat /\ m - 1 \notin T
  BY <1>1, <1>2
<1>4. PICK g : PowUpTo(m - 1, g)
  BY <1>3
<1> DEFINE h == [i \in 0..m |-> IF i = m THEN Base * g[m - 1] ELSE g[i]]
<1>5. h \in [0..m -> Nat]
  <2>1. Base * g[m - 1] \in Nat
    BY <1>2, <1>3, <1>4, SizeAssumption DEF PowUpTo
  <2>2. \A i \in 0..m : i # m => g[i] \in Nat
    BY <1>2, <1>3, <1>4 DEF PowUpTo
  <2> QED
    BY <2>1, <2>2
<1>6. h[0] = 1
  BY <1>2, <1>4 DEF PowUpTo
<1>7. ASSUME NEW k \in 1..m PROVE h[k] = Base * h[k - 1]
  <2>1. h[k - 1] = g[k - 1]
    BY <1>2
  <2>2. CASE k = m
    BY <1>2, <2>1, <2>2
  <2>3. CASE k # m
    <3>1. k \in 1..(m - 1) /\ h[k] = g[k]
      BY <1>2, <2>3
    <3> QED
      BY <1>4, <2>1, <3>1 DEF PowUpTo
  <2> QED
    BY <2>2, <2>3
<1>8. PowUpTo(m, h)
  BY <1>5, <1>6, <1>7 DEF PowUpTo
<1> QED
  BY <1>1, <1>8

(***************************************************************************)
(* Two such solutions agree where both are defined.                        *)
(***************************************************************************)
LEMMA PowUpToUnique ==
  ASSUME NEW m \in Nat, NEW n \in Nat, NEW g, NEW h, PowUpTo(m, g), PowUpTo(n, h), m <= n
  PROVE  \A k \in 0..m : g[k] = h[k]
<1> DEFINE T == {k \in 0..m : g[k] # h[k]}
<1> SUFFICES ASSUME T # {} PROVE FALSE
  OBVIOUS
<1>1. PICK k \in T : \A i \in T : k <= i
  <2>1. T \in SUBSET Nat
    OBVIOUS
  <2> HIDE DEF T
  <2> QED
    BY <2>1, LeastNatural
<1>2. k # 0 /\ k \in 0..m
  BY DEF PowUpTo
<1>3. k - 1 \in 0..m /\ k - 1 \notin T /\ k \in 1..m /\ k \in 1..n
  BY <1>1, <1>2
<1>4. g[k - 1] = h[k - 1]
  BY <1>3
<1>5. g[k] = h[k]
  BY <1>3, <1>4 DEF PowUpTo
<1> QED
  BY <1>5

(***************************************************************************)
(* So the recursive definition of Pow defines a function that satisfies    *)
(* it.                                                                     *)
(***************************************************************************)
LEMMA PowDef ==
  /\ Pow[0] = 1
  /\ \A n \in Nat \ {0} : Pow[n] = Base * Pow[n - 1]
<1> DEFINE G(n) == CHOOSE g : PowUpTo(n, g)
           f == [n \in Nat |-> G(n)[n]]
<1>1. \A n \in Nat : PowUpTo(n, G(n))
  BY PowUpToExists
<1>2. f[0] = 1
  BY <1>1 DEF PowUpTo
<1>3. ASSUME NEW n \in Nat \ {0} PROVE f[n] = Base * f[n - 1]
  <2>1. n - 1 \in Nat /\ n - 1 <= n /\ n \in 1..n /\ n - 1 \in 0..(n - 1)
    OBVIOUS
  <2> HIDE DEF G
  <2>2. PowUpTo(n, G(n)) /\ PowUpTo(n - 1, G(n - 1))
    BY <1>1, <2>1
  <2>3. G(n - 1)[n - 1] = G(n)[n - 1]
    BY <2>1, <2>2, PowUpToUnique
  <2>4. G(n)[n] = Base * G(n)[n - 1]
    BY <2>1, <2>2 DEF PowUpTo
  <2> QED
    BY <2>1, <2>3, <2>4
<1> HIDE DEF f
<1>4. f = [n \in Nat |-> IF n = 0 THEN 1 ELSE Base * f[n - 1]]
  <2>1. f = [n \in Nat |-> f[n]]
    BY DEF f
  <2> QED
    BY <1>2, <1>3, <2>1
<1>5. Pow = [n \in Nat |-> IF n = 0 THEN 1 ELSE Base * Pow[n - 1]]
  BY <1>4, Zenon DEF Pow
<1> QED
  BY <1>5

(***************************************************************************)
(* A power of Base is a positive natural.                                  *)
(***************************************************************************)
LEMMA PowType == \A n \in Nat : Pow[n] \in Nat \ {0}
<1> DEFINE T == {n \in Nat : Pow[n] \notin Nat \ {0}}
<1> SUFFICES ASSUME T # {} PROVE FALSE
  OBVIOUS
<1>1. PICK n \in T : \A i \in T : n <= i
  <2>1. T \in SUBSET Nat
    OBVIOUS
  <2> HIDE DEF T
  <2> QED
    BY <2>1, LeastNatural
<1>2. n \in Nat \ {0}
  BY PowDef
<1>3. n - 1 \in Nat /\ n - 1 \notin T
  BY <1>1, <1>2
<1>4. Pow[n - 1] \in Nat \ {0}
  BY <1>3
<1>5. Base * Pow[n - 1] \in Nat \ {0}
  <2> DEFINE p == Pow[n - 1]
  <2> HIDE DEF p
  <2>1. p \in Nat \ {0} /\ Base \in Nat \ {0}
    BY <1>4, SizeAssumption DEF p
  <2>2. Base * p \in Nat \ {0}
    BY <2>1
  <2> QED
    BY <2>2 DEF p
<1> QED
  BY <1>2, <1>5, PowDef

(***************************************************************************)
(* The power of a sum is the product of the powers.                        *)
(***************************************************************************)
LEMMA PowSum == \A m, n \in Nat : Pow[m + n] = Pow[m] * Pow[n]
<1> SUFFICES ASSUME NEW m \in Nat PROVE \A n \in Nat : Pow[m + n] = Pow[m] * Pow[n]
  OBVIOUS
<1> DEFINE T == {n \in Nat : Pow[m + n] # Pow[m] * Pow[n]}
<1> SUFFICES ASSUME T # {} PROVE FALSE
  OBVIOUS
<1>1. PICK n \in T : \A i \in T : n <= i
  <2>1. T \in SUBSET Nat
    OBVIOUS
  <2> HIDE DEF T
  <2> QED
    BY <2>1, LeastNatural
<1>2. n \in Nat \ {0}
  <2>1. m + 0 = m /\ Pow[m] * 1 = Pow[m]
    BY PowType
  <2> QED
    BY <2>1, PowDef
<1>3. n - 1 \in Nat /\ n - 1 \notin T /\ m + n \in Nat \ {0} /\ (m + n) - 1 = m + (n - 1)
  BY <1>1, <1>2
<1> DEFINE a == Pow[m]
           b == Pow[n - 1]
<1>4. a \in Nat /\ b \in Nat /\ Pow[m + (n - 1)] = a * b
  BY <1>3, PowType
<1>5. Pow[m + n] = Base * (a * b) /\ Pow[n] = Base * b
  BY <1>2, <1>3, <1>4, PowDef
<1>6. Base * (a * b) = a * (Base * b)
  <2> HIDE DEF a, b
  <2> QED
    BY <1>4, SizeAssumption
<1> QED
  BY <1>5, <1>6

-----------------------------------------------------------------------------
(* Quotients and remainders.                                               *)

(***************************************************************************)
(* Quotient and remainder are the only ones of their kind.                 *)
(***************************************************************************)
LEMMA DivModUnique ==
  ASSUME NEW x \in Nat, NEW d \in Nat \ {0}, NEW q \in Nat, NEW r \in Nat, r < d, x = q * d + r
  PROVE  x \div d = q /\ x % d = r
<1> DEFINE p == x \div d
           u == x % d
<1>1. p \in Nat /\ u \in Nat /\ u < d /\ x = p * d + u
  OBVIOUS
<1> HIDE DEF p, u
<1>2. p = q
  <2>1. CASE p < q
    <3>1. (q - p - 1) * d >= 0 /\ (q - p - 1) * d = q * d - p * d - d
      BY <1>1, <2>1
    <3> QED
      BY <1>1, <3>1
  <2>2. CASE q < p
    <3>1. (p - q - 1) * d >= 0 /\ (p - q - 1) * d = p * d - q * d - d
      BY <1>1, <2>2
    <3> QED
      BY <1>1, <3>1
  <2> QED
    BY <1>1, <2>1, <2>2
<1>3. u = r
  BY <1>1, <1>2
<1> QED
  BY <1>2, <1>3 DEF p, u

(***************************************************************************)
(* Quotient and remainder give the number back.                            *)
(***************************************************************************)
LEMMA DivMod ==
  ASSUME NEW x \in Nat, NEW d \in Nat \ {0}
  PROVE  /\ x \div d \in Nat /\ x % d \in Nat /\ x % d < d
         /\ x = (x \div d) * d + (x % d)
OBVIOUS

(***************************************************************************)
(* Dividing twice is dividing by the product.                              *)
(***************************************************************************)
LEMMA DivDiv ==
  ASSUME NEW x \in Nat, NEW a \in Nat \ {0}, NEW b \in Nat \ {0}
  PROVE  (x \div a) \div b = x \div (a * b)
<1> DEFINE p == x \div a
           r == x % a
           q == p \div b
           t == p % b
<1>1. p \in Nat /\ r \in Nat /\ r < a /\ x = p * a + r
  BY DivMod
<1>2. q \in Nat /\ t \in Nat /\ t < b /\ p = q * b + t
  BY <1>1, DivMod
<1> HIDE DEF p, r, q, t
<1>3. a * b \in Nat \ {0} /\ t * a + r \in Nat
  BY <1>1, <1>2
<1>4. x = q * (a * b) + (t * a + r)
  BY <1>1, <1>2
<1>5. t * a + r < a * b
  <2>1. (b - t - 1) * a >= 0 /\ (b - t - 1) * a = a * b - t * a - a
    BY <1>2
  <2> QED
    BY <1>1, <1>2, <2>1
<1>6. x \div (a * b) = q
  <2> DEFINE d == a * b
             v == t * a + r
  <2>1. d \in Nat \ {0} /\ v \in Nat /\ v < d /\ x = q * d + v
    BY <1>3, <1>4, <1>5
  <2> HIDE DEF d, v
  <2>2. x \div d = q
    BY <1>2, <2>1, DivModUnique
  <2> QED
    BY <2>2 DEF d
<1> QED
  BY <1>6 DEF p, q

Factors(A, a, b, c) == A = a * (b * c)

(***************************************************************************)
(* A digit below the cut of a remainder is the digit of the number itself. *)
(***************************************************************************)
LEMMA DivOfMod ==
  ASSUME NEW x \in Nat, NEW a \in Nat \ {0}, NEW b \in Nat \ {0}, NEW c \in Nat \ {0},
         NEW A, Factors(A, a, b, c)
  PROVE  ((x % A) \div a) % c = (x \div a) % c
<1> USE DEF Factors
<1> DEFINE q == x \div A
           r == x % A
           p == r \div a
           u == r % a
           v == p % c
           k == p \div c
<1>1. A \in Nat \ {0}
  <2>1. b * c \in Nat \ {0}
    OBVIOUS
  <2> QED
    BY <2>1
<1>2. q \in Nat /\ r \in Nat /\ r < A /\ x = q * A + r
  BY <1>1, DivMod
<1>3. p \in Nat /\ u \in Nat /\ u < a /\ r = p * a + u
  <2> HIDE DEF r
  <2> QED
    BY <1>2, DivMod
<1>4. v \in Nat /\ k \in Nat /\ v < c /\ p = k * c + v
  <2> HIDE DEF p
  <2> QED
    BY <1>3, DivMod
<1> DEFINE w == q * (b * c) + p
           z == q * b + k
<1> HIDE DEF q, r, p, u, v, k
<1>5. w \in Nat /\ z \in Nat
  BY <1>2, <1>3, <1>4
<1>6. x = w * a + u
  BY <1>2, <1>3
<1>7. w = z * c + v
  BY <1>2, <1>3, <1>4
<1> HIDE DEF w, z
<1>8. x \div a = w
  BY <1>3, <1>5, <1>6, DivModUnique
<1>9. w % c = v
  BY <1>4, <1>5, <1>7, DivModUnique
<1> QED
  BY <1>8, <1>9 DEF v, p, r

-----------------------------------------------------------------------------
(* Integers in network byte order.                                         *)

(***************************************************************************)
(* ToNetwork(x, n) is n bytes, the i-th of them the digit of weight n - i. *)
(***************************************************************************)
LEMMA ToNetworkBytes ==
  ASSUME NEW x \in Nat, NEW n \in Nat
  PROVE  /\ ToNetwork(x, n) \in Seq(Byte) /\ Len(ToNetwork(x, n)) = n
         /\ \A i \in 1..n : ToNetwork(x, n)[i] = (x \div Pow[n - i]) % Base
<1>1. ASSUME NEW i \in 1..n PROVE (x \div Pow[n - i]) % Base \in Byte
  <2> DEFINE p == Pow[n - i]
             y == x \div p
  <2>1. n - i \in Nat /\ Base \in Nat \ {0}
    BY SizeAssumption
  <2>2. p \in Nat \ {0}
    BY <2>1, PowType
  <2> HIDE DEF p
  <2>3. y \in Nat
    BY <2>2, DivMod
  <2> HIDE DEF y
  <2>4. y % Base \in Nat /\ y % Base < Base
    BY <2>1, <2>3, DivMod
  <2>5. y % Base \in Byte
    BY <2>1, <2>4 DEF Byte
  <2> QED
    BY <2>5 DEF y, p
<1>2. ToNetwork(x, n) \in [1..n -> Byte]
  BY <1>1, Zenon DEF ToNetwork
<1> QED
  BY <1>2 DEF ToNetwork

(***************************************************************************)
(* Two words of n bytes, the higher one first, are the word of 2n bytes.   *)
(***************************************************************************)
LEMMA ToNetworkHalves ==
  ASSUME NEW x \in Nat, NEW n \in Nat
  PROVE  /\ ToNetwork(x \div Pow[n], n) \in Seq(Byte)
         /\ ToNetwork(x % Pow[n], n) \in Seq(Byte)
         /\ ToNetwork(x \div Pow[n], n) \o ToNetwork(x % Pow[n], n) = ToNetwork(x, 2 * n)
<1> DEFINE hi == x \div Pow[n]
           lo == x % Pow[n]
           a == ToNetwork(hi, n)
           b == ToNetwork(lo, n)
           t == ToNetwork(x, 2 * n)
<1>1. Pow[n] \in Nat \ {0} /\ hi \in Nat /\ lo \in Nat
  <2> DEFINE p == Pow[n]
  <2>1. p \in Nat \ {0}
    BY PowType
  <2> HIDE DEF p
  <2>2. x \div p \in Nat /\ x % p \in Nat
    BY <2>1, DivMod
  <2> QED
    BY <2>1, <2>2 DEF p
<1> HIDE DEF hi, lo
<1>2. /\ a \in Seq(Byte) /\ Len(a) = n
      /\ \A i \in 1..n : a[i] = (hi \div Pow[n - i]) % Base
  BY <1>1, ToNetworkBytes
<1>3. /\ b \in Seq(Byte) /\ Len(b) = n
      /\ \A i \in 1..n : b[i] = (lo \div Pow[n - i]) % Base
  BY <1>1, ToNetworkBytes
<1>4. /\ t \in Seq(Byte) /\ Len(t) = 2 * n
      /\ \A i \in 1..(2 * n) : t[i] = (x \div Pow[2 * n - i]) % Base
  <2>1. 2 * n \in Nat
    OBVIOUS
  <2> QED
    BY <2>1, ToNetworkBytes
<1> HIDE DEF a, b, t
<1>5. /\ a \o b \in Seq(Byte) /\ Len(a \o b) = 2 * n
      /\ \A i \in 1..n : (a \o b)[i] = a[i] /\ (a \o b)[n + i] = b[i]
  <2>1. a \in Seq(Byte) /\ b \in Seq(Byte) /\ Len(a) = n /\ Len(b) = n
    BY <1>2, <1>3
  <2> QED
    BY <2>1
<1>6. ASSUME NEW i \in 1..n PROVE a[i] = t[i]
  <2> DEFINE p == Pow[n]
             q == Pow[n - i]
  <2>1. n - i \in Nat /\ n + (n - i) = 2 * n - i /\ i \in 1..(2 * n)
    OBVIOUS
  <2>2. p \in Nat \ {0} /\ q \in Nat \ {0} /\ Pow[2 * n - i] = p * q
    BY <2>1, PowType, PowSum
  <2>3. t[i] = (x \div (p * q)) % Base /\ a[i] = (hi \div q) % Base
    BY <1>2, <1>4, <2>1, <2>2
  <2>4. hi = x \div p
    BY DEF hi
  <2> HIDE DEF p, q
  <2>5. (x \div p) \div q = x \div (p * q)
    BY <2>2, DivDiv
  <2> QED
    BY <2>3, <2>4, <2>5
<1>7. ASSUME NEW i \in 1..n PROVE b[i] = t[n + i]
  <2> DEFINE p == Pow[n - i]
             q == Pow[i - 1]
  <2>1. /\ n - i \in Nat /\ i - 1 \in Nat /\ i \in Nat \ {0} /\ (n - i) + i = n
        /\ 2 * n - (n + i) = n - i /\ n + i \in 1..(2 * n) /\ Base \in Nat \ {0}
    BY SizeAssumption
  <2>2. p \in Nat \ {0} /\ q \in Nat \ {0}
    BY <2>1, PowType
  <2>3. Pow[n] = p * (q * Base) /\ Pow[n] \in Nat
    <3>1. Pow[n] = Pow[n - i] * Pow[i]
      BY <2>1, PowSum
    <3>2. Pow[i] = Base * Pow[i - 1]
      BY <2>1, PowDef
    <3>3. Base * q = q * Base
      <4> HIDE DEF q
      <4> QED
        BY <2>1, <2>2
    <3> QED
      BY <1>1, <3>1, <3>2, <3>3
  <2>4. t[n + i] = (x \div p) % Base /\ b[i] = (lo \div p) % Base
    BY <1>3, <1>4, <2>1
  <2> HIDE DEF p, q
  <2>5. (lo \div p) % Base = (x \div p) % Base
    <3> DEFINE A == Pow[n]
    <3>1. Factors(A, p, q, Base) /\ lo = x % A
      BY <2>3 DEF lo, Factors
    <3>2. Base \in Nat \ {0}
      BY <2>1
    <3> HIDE DEF A
    <3>3. ((x % A) \div p) % Base = (x \div p) % Base
      BY <2>2, <3>1, <3>2, DivOfMod
    <3> QED
      BY <3>1, <3>3
  <2> QED
    BY <2>4, <2>5
<1>8. ASSUME NEW i \in 1..(2 * n) PROVE (a \o b)[i] = t[i]
  <2>1. CASE i <= n
    BY <1>5, <1>6, <2>1
  <2>2. CASE i > n
    <3> DEFINE j == i - n
    <3>1. j \in 1..n /\ i = n + j
      BY <2>2
    <3> HIDE DEF j
    <3> QED
      BY <1>5, <1>7, <3>1
  <2>3. i <= n \/ i > n
    OBVIOUS
  <2> QED
    BY <2>1, <2>2, <2>3
<1>9. a \o b = t
  BY <1>4, <1>5, <1>8, SeqEqual
<1> QED
  BY <1>2, <1>3, <1>9 DEF a, b, t, hi, lo

(***************************************************************************)
(* append_int64() adds the eight bytes of the number, although it writes   *)
(* two halves.                                                             *)
(***************************************************************************)
LEMMA AppendInt64Owes ==
  ASSUME NEW b, NEW s, Owes(b, s), Usable(b), NEW x \in Nat
  PROVE  Owes(append_int64(b, x), s \o ToNetwork(x, 2 * Int32Size))
<1> DEFINE hi == ToNetwork(x \div Pow[Int32Size], Int32Size)
           lo == ToNetwork(x % Pow[Int32Size], Int32Size)
<1>1. /\ hi \in Seq(Byte) /\ lo \in Seq(Byte) /\ hi \o lo = ToNetwork(x, 2 * Int32Size)
  BY SizeAssumption, ToNetworkHalves
<1>2. append_int64(b, x) = append(append(b, hi), lo)
  BY DEF append_int64
<1> HIDE DEF hi, lo
<1>3. Owes(append(b, hi), s \o hi) /\ Usable(append(b, hi))
  BY <1>1, AppendOwes
<1>4. Owes(append(append(b, hi), lo), (s \o hi) \o lo)
  BY <1>1, <1>3, AppendOwes
<1>5. (s \o hi) \o lo = s \o (hi \o lo)
  BY <1>1, Assoc DEF Owes
<1> QED
  BY <1>1, <1>2, <1>4, <1>5

-----------------------------------------------------------------------------
(* The specification.                                                      *)

(***************************************************************************)
(* Fresh buffers owe nothing.                                              *)
(***************************************************************************)
LEMMA BufferInit == Init => BufferInv
<1> SUFFICES ASSUME Init PROVE BufferInv
  OBVIOUS
<1> DEFINE N == kCheapPrepend + kInitialSize
           cells == [i \in 1..N |-> 0]
<1>1. N \in Nat /\ kCheapPrepend \in Nat /\ kCheapPrepend <= N
  BY SizeAssumption
<1> HIDE DEF N
<1>2. cells \in Seq(Byte) /\ Len(cells) = N
  BY <1>1, ByteType
<1> HIDE DEF cells
<1>3. NewBuffer = [buffer_ |-> cells, read_index_ |-> kCheapPrepend,
                   write_index_ |-> kCheapPrepend]
  BY DEF NewBuffer, cells, N
<1>4. << >> \in Seq(Byte) /\ Len(<< >>) = 0
  OBVIOUS
<1>5. Owes(NewBuffer, << >>)
  BY <1>1, <1>2, <1>3, <1>4 DEF Owes, Buffers, InOrder, Usable, readable_bytes
<1> QED
  BY <1>4, <1>5 DEF Init, BufferInv, Owes

(***************************************************************************)
(* A step that replaces one buffer by one that owes what it should keeps   *)
(* the invariant.                                                          *)
(***************************************************************************)
LEMMA BecomesOwes ==
  ASSUME BufferInv, NEW o \in Objects, NEW b, NEW s, Owes(b, s), Becomes(o, b, s)
  PROVE  BufferInv'
<1>1. b \in Buffers /\ s \in Seq(Byte)
  BY DEF Owes
<1>2. /\ buf' = [buf EXCEPT ![o] = b] /\ content' = [content EXCEPT ![o] = s]
      /\ buf \in [Objects -> Buffers] /\ content \in [Objects -> Seq(Byte)]
      /\ \A p \in Objects : Owes(buf[p], content[p])
  BY DEF Becomes, BufferInv
<1>3. buf' \in [Objects -> Buffers] /\ content' \in [Objects -> Seq(Byte)]
  BY <1>1, <1>2
<1>4. ASSUME NEW p \in Objects PROVE Owes(buf'[p], content'[p])
  BY <1>2
<1> QED
  BY <1>3, <1>4 DEF BufferInv, Owes, InOrder, Usable, readable_bytes

(***************************************************************************)
(* A moved-from buffer owes nothing.                                       *)
(***************************************************************************)
LEMMA HollowOwes == Owes(Hollow, << >>)
<1>1. << >> \in Seq(Byte) /\ Len(<< >>) = 0 /\ kCheapPrepend \in Nat
  BY SizeAssumption
<1> QED
  BY <1>1 DEF Owes, Buffers, Hollow, InOrder, Usable, readable_bytes

(***************************************************************************)
(* Every step keeps the invariant.                                         *)
(***************************************************************************)
LEMMA BufferStep == BufferInv /\ [Next]_vars => BufferInv'
<1> SUFFICES ASSUME BufferInv, [Next]_vars PROVE BufferInv'
  OBVIOUS
<1>1. CASE UNCHANGED vars
  BY <1>1 DEF vars, BufferInv, Owes, InOrder, Usable, readable_bytes
<1>2. \A o \in Objects : Owes(buf[o], content[o])
  BY DEF BufferInv
<1>3. ASSUME NEW o \in Objects, NEW data \in Chunks,
             \/ AppendData(o, data) \/ Prepend(o, data) \/ HasWritten(o, data) \/ ReadFd(o, data)
      PROVE  BufferInv'
  <2>1. data \in Seq(Byte)
    BY DEF Chunks
  <2>2. CASE AppendData(o, data)
    BY <1>2, <2>1, <2>2, AppendOwes, BecomesOwes DEF AppendData
  <2>3. CASE Prepend(o, data)
    BY <1>2, <2>1, <2>3, PrependOwes, BecomesOwes DEF Prepend
  <2>4. CASE HasWritten(o, data)
    BY <1>2, <2>1, <2>4, HasWrittenOwes, BecomesOwes DEF HasWritten
  <2>5. CASE ReadFd(o, data)
    BY <1>2, <2>1, <2>5, ReadFdOwes, BecomesOwes DEF ReadFd
  <2> QED
    BY <1>3, <2>2, <2>3, <2>4, <2>5
<1>4. ASSUME NEW o \in Objects, NEW len \in Nat, Retrieve(o, len) PROVE BufferInv'
  BY <1>2, <1>4, RetrieveOwes, BecomesOwes DEF Retrieve
<1>5. ASSUME NEW o \in Objects, NEW len \in Nat, EnsureWritable(o, len) PROVE BufferInv'
  BY <1>2, <1>5, EnsureOwes, BecomesOwes DEF EnsureWritable
<1>6. ASSUME NEW o \in Objects, NEW len \in Nat, Unwrite(o, len) PROVE BufferInv'
  BY <1>2, <1>6, UnwriteOwes, BecomesOwes DEF Unwrite
<1>7. ASSUME NEW o \in Objects, NEW x \in Nat, AppendInt64(o, x) PROVE BufferInv'
  BY <1>2, <1>7, AppendInt64Owes, BecomesOwes DEF AppendInt64
<1>8. ASSUME NEW o \in Objects, NEW p \in Objects, Copy(o, p) PROVE BufferInv'
  BY <1>2, <1>8, BecomesOwes DEF Copy
<1>9. ASSUME NEW o \in Objects, NEW p \in Objects, o # p, NEW b, NEW s, Owes(b, s),
             buf' = [buf EXCEPT ![o] = buf[p], ![p] = b],
             content' = [content EXCEPT ![o] = content[p], ![p] = s]
      PROVE  BufferInv'
  <2>1. b \in Buffers /\ s \in Seq(Byte)
    BY <1>9 DEF Owes
  <2>2. buf \in [Objects -> Buffers] /\ content \in [Objects -> Seq(Byte)]
    BY DEF BufferInv
  <2>3. buf' \in [Objects -> Buffers] /\ content' \in [Objects -> Seq(Byte)]
    BY <1>9, <2>1, <2>2
  <2>4. ASSUME NEW r \in Objects PROVE Owes(buf'[r], content'[r])
    <3>1. \/ buf'[r] = b /\ content'[r] = s
          \/ buf'[r] = buf[p] /\ content'[r] = content[p]
          \/ buf'[r] = buf[r] /\ content'[r] = content[r]
      BY <1>9, <2>2
    <3> QED
      BY <1>2, <1>9, <3>1
  <2> QED
    BY <2>3, <2>4 DEF BufferInv, Owes, InOrder, Usable, readable_bytes
<1>10. ASSUME NEW o \in Objects, NEW p \in Objects, Move(o, p) PROVE BufferInv'
  BY <1>9, <1>10, HollowOwes DEF Move
<1>11. ASSUME NEW o \in Objects, NEW p \in Objects, swap(o, p) PROVE BufferInv'
  BY <1>2, <1>9, <1>11 DEF swap
<1>12. /\ 0..MaxChunk \subseteq Nat /\ {1, Int32Size, 2 * Int32Size} \subseteq Nat
       /\ 0..(Pow[2 * Int32Size] - 1) \subseteq Nat
  BY SizeAssumption
<1> QED
  BY <1>1, <1>3, <1>4, <1>5, <1>6, <1>7, <1>8, <1>10, <1>11, <1>12
     DEF Next, WriteFd, ReadInt

-----------------------------------------------------------------------------
(* The theorems.                                                           *)

(***************************************************************************)
(* BufferInv is an inductive invariant of the buffers.                     *)
(***************************************************************************)
THEOREM BufferInvariant == Spec => []BufferInv
BY BufferInit, BufferStep, PTL DEF Spec

(***************************************************************************)
(* No operation of Buffer loses, repeats or reorders an unread byte, and   *)
(* the indices stay in order (append, make_space, read_fd, retrieve,       *)
(* prepend, unwrite, append_int64, copy, move and swap).                   *)
(***************************************************************************)
THEOREM BytesAreKept == Spec => []ContentKept
<1>1. BufferInv => ContentKept
  BY Unread DEF BufferInv, ContentKept, Owes
<1> QED
  BY <1>1, BufferInvariant, PTL

(***************************************************************************)
(* Whatever was done to a buffer, ensure_writable_bytes() makes the room   *)
(* it is asked for, keeps the unread bytes, and copies them forwards only. *)
(***************************************************************************)
THEOREM RoomIsAlwaysMade == Spec => []RoomIsMade
<1>1. ASSUME BufferInv, NEW o \in Objects, NEW len \in 0..MaxChunk, Usable(buf[o])
      PROVE  LET b == ensure_writable_bytes(buf[o], len)
             IN  /\ writable_bytes(b) >= len
                 /\ to_string(b) = to_string(buf[o])
                 /\ b.read_index_ <= buf[o].read_index_
  <2>1. len \in Nat
    BY SizeAssumption
  <2>2. Owes(buf[o], content[o])
    BY <1>1 DEF BufferInv
  <2>3. /\ Owes(ensure_writable_bytes(buf[o], len), content[o])
        /\ writable_bytes(ensure_writable_bytes(buf[o], len)) >= len
        /\ ensure_writable_bytes(buf[o], len).read_index_ <= buf[o].read_index_
    BY <1>1, <2>1, <2>2, EnsureOwes
  <2>4. to_string(ensure_writable_bytes(buf[o], len)) = to_string(buf[o])
    BY <2>2, <2>3, Unread
  <2> QED
    BY <2>3, <2>4
<1>2. BufferInv => RoomIsMade
  BY <1>1 DEF RoomIsMade
<1> QED
  BY <1>2, BufferInvariant, PTL

-----------------------------------------------------------------------------
(* MemoryPool.                                                             *)

(***************************************************************************)
(* The slots in use are those in some thread's hands and the one a         *)
(* running allocate() is about to return, which is in nobody's; they all   *)
(* belong to blocks the pool has.                                          *)
(***************************************************************************)
InFlight == IF mutex_ = NoThread THEN {} ELSE {found}

OwnedExactly ==
  /\ used \subseteq Slots
  /\ used = InFlight \cup UNION {held[t] : t \in Threads}
  /\ NeverSharedOut

(***************************************************************************)
(* The counters, with the slot in flight not counted yet.                  *)
(***************************************************************************)
CountsExact ==
  /\ allocated_count_ = IF mutex_ = NoThread THEN Cardinality(used)
                                            ELSE Cardinality(used) - 1
  /\ \A b \in 1..MaxBlocks : free_count[b] = block_size_ - Cardinality(InBlock(used, b))

PoolInv == TypeOK /\ OwnedExactly /\ CountsExact

-----------------------------------------------------------------------------
(***************************************************************************)
(* There are finitely many pointers, and block_size_ slots in a block.     *)
(***************************************************************************)
LEMMA PointersFinite == IsFiniteSet(Pointers)
<1>1. IsFiniteSet(Index) /\ IsFiniteSet(1..MaxBlocks)
  BY FS_Interval, PoolAssumption DEF Index
<1> QED
  BY <1>1, FS_Product DEF Pointers

(***************************************************************************)
(* A slot is a block and an index into it.                                 *)
(***************************************************************************)
LEMMA SlotPair ==
  ASSUME TypeOK, NEW p \in Slots
  PROVE  p \in Pointers /\ p[1] \in 1..MaxBlocks /\ p \in {p[1]} \X Index
<1>1. PICK b \in 1..blocks, i \in Index : p = <<b, i>>
  BY DEF Slots
<1>2. b \in 1..MaxBlocks
  BY PoolAssumption DEF TypeOK
<1>3. p[1] = b /\ <<b, i>> \in {b} \X Index
  BY <1>1
<1> QED
  BY <1>1, <1>2, <1>3 DEF Pointers

(***************************************************************************)
(* A block has block_size_ slots.                                          *)
(***************************************************************************)
LEMMA SlotsOfBlock ==
  ASSUME NEW b
  PROVE  IsFiniteSet({b} \X Index) /\ Cardinality({b} \X Index) = block_size_
<1>1. IsFiniteSet(Index) /\ Cardinality(Index) = block_size_
  BY FS_Interval, PoolAssumption DEF Index
<1>2. IsFiniteSet({b}) /\ Cardinality({b}) = 1
  BY FS_Singleton
<1>3. /\ IsFiniteSet({b} \X Index)
      /\ Cardinality({b} \X Index) = Cardinality({b}) * Cardinality(Index)
  BY <1>1, <1>2, FS_Product
<1> QED
  BY <1>1, <1>2, <1>3, PoolAssumption

(***************************************************************************)
(* Counting a set and its part in one block when a pointer joins or leaves.*)
(***************************************************************************)
LEMMA CountAdded ==
  ASSUME NEW S \in SUBSET Pointers, NEW p \in Pointers, p \notin S, NEW b
  PROVE  /\ Cardinality(S) \in Nat /\ Cardinality(InBlock(S, b)) \in Nat
         /\ Cardinality(S \cup {p}) = Cardinality(S) + 1
         /\ p[1] = b => Cardinality(InBlock(S \cup {p}, b)) = Cardinality(InBlock(S, b)) + 1
         /\ p[1] # b => Cardinality(InBlock(S \cup {p}, b)) = Cardinality(InBlock(S, b))
<1>1. IsFiniteSet(S) /\ IsFiniteSet(InBlock(S, b))
  BY PointersFinite, FS_Subset DEF InBlock
<1>2. Cardinality(S) \in Nat /\ Cardinality(InBlock(S, b)) \in Nat
  BY <1>1, FS_CardinalityType
<1>3. Cardinality(S \cup {p}) = Cardinality(S) + 1
  BY <1>1, FS_AddElement
<1>4. CASE p[1] = b
  <2>1. InBlock(S \cup {p}, b) = InBlock(S, b) \cup {p} /\ p \notin InBlock(S, b)
    BY <1>4 DEF InBlock
  <2>2. Cardinality(InBlock(S, b) \cup {p}) = Cardinality(InBlock(S, b)) + 1
    BY <1>1, <2>1, FS_AddElement
  <2> QED
    BY <1>2, <1>3, <1>4, <2>1, <2>2
<1>5. CASE p[1] # b
  <2>1. InBlock(S \cup {p}, b) = InBlock(S, b)
    BY <1>5 DEF InBlock
  <2> QED
    BY <1>2, <1>3, <1>5, <2>1
<1> QED
  BY <1>4, <1>5

(***************************************************************************)
(* Taking a slot out of a set lowers the count of its own block by one,    *)
(* and no other.                                                           *)
(***************************************************************************)
LEMMA CountRemoved ==
  ASSUME NEW S \in SUBSET Pointers, NEW p \in S, NEW b
  PROVE  /\ Cardinality(S) \in Nat /\ Cardinality(InBlock(S, b)) \in Nat
         /\ Cardinality(S \ {p}) = Cardinality(S) - 1
         /\ p[1] = b => Cardinality(InBlock(S \ {p}, b)) = Cardinality(InBlock(S, b)) - 1
         /\ p[1] # b => Cardinality(InBlock(S \ {p}, b)) = Cardinality(InBlock(S, b))
<1>1. IsFiniteSet(S) /\ IsFiniteSet(InBlock(S, b))
  BY PointersFinite, FS_Subset DEF InBlock
<1>2. Cardinality(S) \in Nat /\ Cardinality(InBlock(S, b)) \in Nat
  BY <1>1, FS_CardinalityType
<1>3. Cardinality(S \ {p}) = Cardinality(S) - 1
  BY <1>1, FS_RemoveElement
<1>4. CASE p[1] = b
  <2>1. InBlock(S \ {p}, b) = InBlock(S, b) \ {p} /\ p \in InBlock(S, b)
    BY <1>4 DEF InBlock
  <2>2. Cardinality(InBlock(S, b) \ {p}) = Cardinality(InBlock(S, b)) - 1
    BY <1>1, <2>1, FS_RemoveElement
  <2> QED
    BY <1>2, <1>3, <1>4, <2>1, <2>2
<1>5. CASE p[1] # b
  <2>1. InBlock(S \ {p}, b) = InBlock(S, b)
    BY <1>5 DEF InBlock
  <2> QED
    BY <1>2, <1>3, <1>5, <2>1
<1> QED
  BY <1>4, <1>5

-----------------------------------------------------------------------------
(***************************************************************************)
(* The constructor's state.                                                *)
(***************************************************************************)
LEMMA PoolInvInit == PoolInit => PoolInv
<1> SUFFICES ASSUME PoolInit PROVE PoolInv
  OBVIOUS
<1>1. TypeOK
  BY PoolAssumption DEF PoolInit, TypeOK, Pointers, Index
<1>2. OwnedExactly
  BY DEF PoolInit, OwnedExactly, NeverSharedOut, InFlight
<1>3. used = {} /\ \A b : InBlock(used, b) = {}
  BY DEF PoolInit, InBlock
<1>4. CountsExact
  BY <1>3, FS_EmptySet, PoolAssumption DEF PoolInit, CountsExact, InBlock
<1> QED
  BY <1>1, <1>2, <1>4 DEF PoolInv

(***************************************************************************)
(* Take() marks a free slot of a block the pool has or is just adding.     *)
(***************************************************************************)
LEMMA TakeStep ==
  ASSUME PoolInv, mutex_ = NoThread, NEW t \in Threads, NEW p \in Pointers,
         p \notin used, Take(t, p), blocks' \in 1..MaxBlocks, p \in Slots',
         blocks' >= blocks
  PROVE  PoolInv'
<1> USE DEF PoolInv
<1>1. TypeOK'
  <2>1. free_count' \in [1..MaxBlocks -> Int]
    BY DEF TypeOK, Take, Pointers
  <2> QED
    BY <2>1 DEF TypeOK, Take
<1>2. used' \subseteq Slots'
  <2>1. Slots \subseteq Slots'
    BY DEF Slots, TypeOK, Index
  <2> QED
    BY <2>1 DEF OwnedExactly, Take
<1>3. t # NoThread
  BY PoolAssumption
<1>4. OwnedExactly'
  BY <1>2, <1>3 DEF OwnedExactly, NeverSharedOut, InFlight, Take
<1>5. ASSUME NEW b \in 1..MaxBlocks
      PROVE  /\ free_count'[b] = block_size_ - Cardinality(InBlock(used', b))
             /\ allocated_count_' = Cardinality(used') - 1
  <2>1. used \in SUBSET Pointers
    BY DEF TypeOK
  <2>2. /\ Cardinality(used) \in Nat /\ Cardinality(InBlock(used, b)) \in Nat
        /\ Cardinality(used \cup {p}) = Cardinality(used) + 1
        /\ p[1] = b => Cardinality(InBlock(used \cup {p}, b))
                         = Cardinality(InBlock(used, b)) + 1
        /\ p[1] # b => Cardinality(InBlock(used \cup {p}, b)) = Cardinality(InBlock(used, b))
    BY <2>1, CountAdded
  <2>3. /\ p[1] = b => free_count'[b] = free_count[b] - 1
        /\ p[1] # b => free_count'[b] = free_count[b]
    BY DEF TypeOK, Take
  <2>4. free_count[b] = block_size_ - Cardinality(InBlock(used, b))
    BY DEF CountsExact
  <2>5. allocated_count_ = Cardinality(used)
    BY DEF CountsExact
  <2> QED
    BY <2>2, <2>3, <2>4, <2>5, PoolAssumption DEF Take
<1>6. 1 \in 1..MaxBlocks
  BY PoolAssumption
<1>7. CountsExact'
  BY <1>3, <1>5, <1>6 DEF CountsExact, Take
<1> QED
  BY <1>1, <1>4, <1>7

(***************************************************************************)
(* The slot that allocate() found goes into the thread's hands as it       *)
(* leaves the mutex.                                                       *)
(***************************************************************************)
LEMMA ReturnStep ==
  ASSUME PoolInv, NEW t \in Threads, ReturnSlot(t)
  PROVE  PoolInv'
<1> USE DEF PoolInv, ReturnSlot
<1>1. mutex_ # NoThread
  BY PoolAssumption
<1>2. TypeOK'
  BY DEF TypeOK
<1>3. found \in used
  BY <1>1 DEF OwnedExactly, InFlight
<1>4. OwnedExactly'
  <2>1. used' \subseteq Slots'
    BY DEF OwnedExactly, Slots
  <2>2. NeverSharedOut'
    BY <1>1, <1>3, <1>2 DEF OwnedExactly, NeverSharedOut, TypeOK
  <2>3. UNION {held'[u] : u \in Threads} = {found} \cup UNION {held[u] : u \in Threads}
    BY DEF TypeOK
  <2> QED
    BY <1>1, <2>1, <2>2, <2>3 DEF OwnedExactly, InFlight
<1>5. Cardinality(used) \in Nat
  BY PointersFinite, FS_Subset, FS_CardinalityType DEF TypeOK
<1>6. CountsExact'
  BY <1>1, <1>5 DEF CountsExact, InBlock
<1> QED
  BY <1>2, <1>4, <1>6

(***************************************************************************)
(* deallocate() keeps the invariant, whatever pointer it is given.         *)
(***************************************************************************)
LEMMA DeallocateStep ==
  ASSUME PoolInv, NEW t \in Threads, NEW p \in Pointers, deallocate(t, p)
  PROVE  PoolInv'
<1> USE DEF PoolInv, deallocate
<1>1. TypeOK'
  BY DEF TypeOK, PutBack
<1>2. CASE p \in used
  <2> USE <1>2 DEF PutBack
  <2>1. p \in held[t] /\ \A u \in Threads : u # t => p \notin held[u]
    BY DEF OwnedExactly, NeverSharedOut
  <2>2. \A u \in Threads : held'[u] = held[u] \ {p}
    BY <2>1 DEF TypeOK
  <2>3. used' = UNION {held'[u] : u \in Threads}
    BY <2>2 DEF OwnedExactly, InFlight
  <2>4. NeverSharedOut'
    BY <2>2 DEF OwnedExactly, NeverSharedOut
  <2>5. OwnedExactly'
    BY <2>3, <2>4 DEF OwnedExactly, InFlight, Slots
  <2>6. ASSUME NEW b \in 1..MaxBlocks
        PROVE  /\ free_count'[b] = block_size_ - Cardinality(InBlock(used', b))
               /\ allocated_count_' = Cardinality(used')
    <3>1. used \in SUBSET Pointers
      BY DEF TypeOK
    <3>2. /\ Cardinality(used) \in Nat /\ Cardinality(InBlock(used, b)) \in Nat
          /\ Cardinality(used \ {p}) = Cardinality(used) - 1
          /\ p[1] = b => Cardinality(InBlock(used \ {p}, b))
                           = Cardinality(InBlock(used, b)) - 1
          /\ p[1] # b => Cardinality(InBlock(used \ {p}, b)) = Cardinality(InBlock(used, b))
      BY <3>1, CountRemoved
    <3>3. /\ p[1] = b => free_count'[b] = free_count[b] + 1
          /\ p[1] # b => free_count'[b] = free_count[b]
      BY DEF TypeOK
    <3>4. free_count[b] = block_size_ - Cardinality(InBlock(used, b))
      BY DEF CountsExact
    <3>5. allocated_count_' = Cardinality(used) - 1
      BY DEF CountsExact
    <3>6. used' = used \ {p}
      OBVIOUS
    <3>7. CASE p[1] = b
      BY <3>2, <3>3, <3>4, <3>5, <3>6, <3>7, PoolAssumption
    <3>8. CASE p[1] # b
      BY <3>2, <3>3, <3>4, <3>5, <3>6, <3>8, PoolAssumption
    <3> QED
      BY <3>7, <3>8
  <2>7. 1 \in 1..MaxBlocks
    BY PoolAssumption
  <2>8. CountsExact'
    BY <2>6, <2>7 DEF CountsExact
  <2> QED
    BY <1>1, <2>5, <2>8
<1>3. CASE p \notin used
  <2> USE <1>3 DEF PutBack
  <2>1. held' = held
    BY DEF OwnedExactly, NeverSharedOut, TypeOK
  <2>2. OwnedExactly'
    BY <2>1 DEF OwnedExactly, NeverSharedOut, InFlight, Slots
  <2>3. CountsExact'
    BY DEF CountsExact, InBlock
  <2> QED
    BY <1>1, <2>2, <2>3
<1> QED
  BY <1>2, <1>3

(***************************************************************************)
(* Every step of the pool keeps the invariant.                             *)
(***************************************************************************)
LEMMA PoolInvStep == PoolInv /\ [PoolNext]_poolVars => PoolInv'
<1> SUFFICES ASSUME PoolInv, [PoolNext]_poolVars PROVE PoolInv'
  OBVIOUS
<1>1. ASSUME NEW t \in Threads, allocate(t) PROVE PoolInv'
  <2>1. PICK p \in Available : Take(t, p)
    BY <1>1 DEF allocate
  <2>2. p \in Pointers /\ p \notin used /\ p \in Slots
    BY <2>1, SlotPair DEF Available, PoolInv
  <2>3. blocks' = blocks /\ blocks \in 1..MaxBlocks /\ mutex_ = NoThread
    BY <1>1 DEF allocate, PoolInv, TypeOK
  <2>4. p \in Slots'
    BY <2>2, <2>3 DEF Slots
  <2> QED
    BY <2>1, <2>2, <2>3, <2>4, TakeStep
<1>2. ASSUME NEW t \in Threads, add_block(t) PROVE PoolInv'
  <2>1. blocks \in 1..MaxBlocks /\ blocks' = blocks + 1 /\ blocks < MaxBlocks
    BY <1>2 DEF add_block, PoolInv, TypeOK
  <2>2. <<blocks + 1, 0>> \in Pointers /\ <<blocks + 1, 0>> \in Slots'
    BY <2>1, PoolAssumption DEF Pointers, Slots, Index
  <2>3. <<blocks + 1, 0>> \notin used
    BY <2>1 DEF PoolInv, OwnedExactly, Slots
  <2>4. Take(t, <<blocks + 1, 0>>) /\ mutex_ = NoThread
    BY <1>2 DEF add_block
  <2>5. blocks' \in 1..MaxBlocks /\ blocks' >= blocks
    BY <2>1, PoolAssumption
  <2> QED
    BY <2>2, <2>3, <2>4, <2>5, TakeStep
<1>3. ASSUME NEW t \in Threads, ReturnSlot(t) PROVE PoolInv'
  BY <1>3, ReturnStep
<1>4. ASSUME NEW t \in Threads, NEW p \in Pointers, deallocate(t, p) PROVE PoolInv'
  BY <1>4, DeallocateStep
<1>5. CASE UNCHANGED poolVars
  BY <1>5 DEF poolVars, PoolInv, TypeOK, OwnedExactly, CountsExact, NeverSharedOut,
     InFlight, Slots, InBlock
<1> QED
  BY <1>1, <1>2, <1>3, <1>4, <1>5 DEF PoolNext

(***************************************************************************)
(* PoolInv holds in every reachable state.                                 *)
(***************************************************************************)
LEMMA PoolInvariant == PoolSpec => []PoolInv
<1> QED
  BY PoolInvInit, PoolInvStep, PTL DEF PoolSpec

-----------------------------------------------------------------------------
(***************************************************************************)
(* Type correctness of the pool's state.                                   *)
(***************************************************************************)
THEOREM PoolTypeCorrect == PoolSpec => []TypeOK
<1>1. PoolInv => TypeOK
  BY DEF PoolInv
<1> QED
  BY <1>1, PoolInvariant, PTL

(***************************************************************************)
(* allocate() hands no slot to a second thread.                            *)
(***************************************************************************)
THEOREM NeverShared == PoolSpec => []NeverSharedOut
<1>1. PoolInv => NeverSharedOut
  BY DEF PoolInv, OwnedExactly
<1> QED
  BY <1>1, PoolInvariant, PTL

(***************************************************************************)
(* Whenever mutex_ is free the counters count the slots in threads' hands. *)
(***************************************************************************)
THEOREM CountsRight == PoolSpec => []Accounting
<1>1. PoolInv => Accounting
  BY DEF PoolInv, OwnedExactly, CountsExact, Accounting, InFlight
<1> QED
  BY <1>1, PoolInvariant, PTL

(***************************************************************************)
(* A block with an unused slot counts it as free, so that allocate() adds  *)
(* a block only when there is none.                                        *)
(***************************************************************************)
LEMMA UnusedIsCounted ==
  ASSUME PoolInv, NEW p \in Slots, p \notin used
  PROVE  free_count[p[1]] > 0
<1> DEFINE b == p[1]
<1>1. b \in 1..MaxBlocks /\ p \in {b} \X Index
  BY SlotPair DEF PoolInv
<1>2. InBlock(used, b) \in SUBSET (({b} \X Index) \ {p})
  BY DEF InBlock, PoolInv, TypeOK, Pointers
<1>3. IsFiniteSet({b} \X Index) /\ Cardinality({b} \X Index) = block_size_
  BY SlotsOfBlock
<1>4. /\ IsFiniteSet(({b} \X Index) \ {p})
      /\ Cardinality(({b} \X Index) \ {p}) = block_size_ - 1
  BY <1>1, <1>3, FS_RemoveElement
<1>5. IsFiniteSet(InBlock(used, b)) /\ Cardinality(InBlock(used, b)) <= block_size_ - 1
  BY <1>2, <1>4, FS_Subset
<1>6. Cardinality(InBlock(used, b)) \in Nat
  BY <1>5, FS_CardinalityType
<1>7. free_count[b] = block_size_ - Cardinality(InBlock(used, b))
  BY <1>1 DEF PoolInv, CountsExact
<1> QED
  BY <1>5, <1>6, <1>7, PoolAssumption

(***************************************************************************)
(* The pool grows only when every slot is in use.                          *)
(***************************************************************************)
THEOREM GrowthIsNeeded == PoolSpec => GrowsOnlyWhenFull
<1>1. PoolInv /\ [PoolNext]_poolVars => [blocks' # blocks => used = Slots]_poolVars
  <2> SUFFICES ASSUME PoolInv, PoolNext, blocks' # blocks PROVE used = Slots
    BY DEF poolVars
  <2>1. PICK t \in Threads : add_block(t)
    BY DEF PoolNext, allocate, ReturnSlot, deallocate
  <2>2. Available = {}
    BY <2>1 DEF add_block
  <2>3. \A p \in Slots : p \in used
    BY <2>2, UnusedIsCounted DEF Available
  <2> QED
    BY <2>3 DEF PoolInv, OwnedExactly
<1> QED
  BY <1>1, PoolInvariant, PTL DEF PoolSpec, GrowsOnlyWhenFull
=============================================================================
