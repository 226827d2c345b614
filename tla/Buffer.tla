------------------------------- MODULE Buffer -------------------------------
(***************************************************************************)
(* Buffer (utils/buffer.cpp): a vector of bytes with a read and a write    *)
(* index.  What lies between them is what the connection has received and  *)
(* not parsed, or has to send.  Growing, moving the unread bytes down,     *)
(* readv() into a second buffer and the copy and move operations all shift *)
(* bytes and indices; `content' keeps what the caller put in and has not   *)
(* taken out, and the two have to agree.                                   *)
(***************************************************************************)
EXTENDS Naturals, Sequences

CONSTANTS Objects,        \* the buffers of the program
          Base,           \* a byte is a digit of this base (256 in the code)
          kCheapPrepend,  \* 8
          kInitialSize,   \* 1024
          ExtraSize,      \* sizeof(extrabuf), 65536
          Int32Size,      \* sizeof(int32_t), in bytes
          MaxSize,        \* bound on buffer_.size()
          MaxChunk        \* bound on the bytes one call hands over

ASSUME SizeAssumption ==
  /\ Base \in Nat /\ Base > 1
  /\ kCheapPrepend \in Nat /\ kInitialSize \in Nat /\ ExtraSize \in Nat
  /\ Int32Size \in Nat /\ Int32Size > 0
  /\ MaxSize \in Nat /\ MaxChunk \in Nat
  /\ kCheapPrepend + kInitialSize <= MaxSize

VARIABLES buf,            \* buf[o]: the members of buffer o
          content         \* history: the bytes o owes its reader, in order

vars == <<buf, content>>

Byte == 0..(Base - 1)
Chunks == UNION {[1..n -> Byte] : n \in 0..MaxChunk}

readable_bytes(b) == b.write_index_ - b.read_index_
writable_bytes(b) == Len(b.buffer_) - b.write_index_
prependable_bytes(b) == b.read_index_

(***************************************************************************)
(* to_string(): index i of the vector is element i + 1 of the sequence.    *)
(***************************************************************************)
to_string(b) == SubSeq(b.buffer_, b.read_index_ + 1, b.write_index_)

(***************************************************************************)
(* std::copy() of data to begin() + at; vector::resize().                  *)
(***************************************************************************)
CopyTo(cells, at, data) ==
  [i \in 1..Len(cells) |-> IF i > at /\ i <= at + Len(data)
                             THEN data[i - at] ELSE cells[i]]

Resized(cells, n) == [i \in 1..n |-> IF i <= Len(cells) THEN cells[i] ELSE 0]

NewBuffer == [buffer_ |-> [i \in 1..(kCheapPrepend + kInitialSize) |-> 0],
              read_index_ |-> kCheapPrepend, write_index_ |-> kCheapPrepend]

(***************************************************************************)
(* A moved-from buffer keeps an empty vector under indices of 8:           *)
(* writable_bytes() wraps to a huge number and an append would write past  *)
(* the vector.  All a program may do with it is assign to it or swap it.   *)
(***************************************************************************)
Hollow == [buffer_ |-> << >>, read_index_ |-> kCheapPrepend,
           write_index_ |-> kCheapPrepend]

Usable(b) == b.write_index_ <= Len(b.buffer_)

retrieve_all(b) == [b EXCEPT !.read_index_ = kCheapPrepend,
                             !.write_index_ = kCheapPrepend]

retrieve(b, len) ==
  IF len < readable_bytes(b) THEN [b EXCEPT !.read_index_ = @ + len]
                             ELSE retrieve_all(b)

Grow(b, len) == [b EXCEPT !.buffer_ = Resized(@, b.write_index_ + len)]

Compact(b) ==
  [buffer_ |-> CopyTo(b.buffer_, kCheapPrepend, to_string(b)),
   read_index_ |-> kCheapPrepend,
   write_index_ |-> kCheapPrepend + readable_bytes(b)]

BAD_make_space(b, len) ==
  IF writable_bytes(b) + prependable_bytes(b) < len THEN Grow(b, len) ELSE Compact(b)
make_space(b, len) ==
  IF writable_bytes(b) + prependable_bytes(b) < len + kCheapPrepend
    THEN Grow(b, len) ELSE Compact(b)

ensure_writable_bytes(b, len) ==
  IF writable_bytes(b) < len THEN make_space(b, len) ELSE b

(***************************************************************************)
(* The caller writes at begin_write() and calls has_written().             *)
(***************************************************************************)
has_written(b, data) ==
  [b EXCEPT !.buffer_ = CopyTo(@, b.write_index_, data),
            !.write_index_ = @ + Len(data)]

append(b, data) == has_written(ensure_writable_bytes(b, Len(data)), data)

prepend(b, data) ==
  LET at == b.read_index_ - Len(data)
  IN  [b EXCEPT !.buffer_ = CopyTo(@, at, data), !.read_index_ = at]

(***************************************************************************)
(* read_fd() once readv() has delivered data: the first bytes are in the   *)
(* vector already, those that did not fit are in extrabuf.                 *)
(***************************************************************************)
BAD_read_fd(b, data) ==
  LET w == writable_bytes(b)
  IN  IF Len(data) <= w THEN has_written(b, data)
      ELSE append(has_written(b, SubSeq(data, 1, w)), data)
read_fd(b, data) ==
  LET w == writable_bytes(b)
  IN  IF Len(data) <= w THEN has_written(b, data)
      ELSE append(has_written(b, SubSeq(data, 1, w)), SubSeq(data, w + 1, Len(data)))

(***************************************************************************)
(* What one readv() may deliver.                                           *)
(***************************************************************************)
ReadLimit(b) == writable_bytes(b)
                + (IF writable_bytes(b) < ExtraSize THEN ExtraSize ELSE 0)

(***************************************************************************)
(* htons(), htonl(): the n bytes of x, most significant first.  The powers *)
(* of Base are a recursive function so that the proofs can use them.       *)
(***************************************************************************)
Pow[n \in Nat] == IF n = 0 THEN 1 ELSE Base * Pow[n - 1]

ToNetwork(x, n) == [i \in 1..n |-> (x \div Pow[n - i]) % Base]

append_int64(b, x) ==
  append(append(b, ToNetwork(x \div Pow[Int32Size], Int32Size)),
         ToNetwork(x % Pow[Int32Size], Int32Size))

-----------------------------------------------------------------------------
Init == /\ buf = [o \in Objects |-> NewBuffer]
        /\ content = [o \in Objects |-> << >>]

(***************************************************************************)
(* o takes the value b and owes its reader s.                              *)
(***************************************************************************)
Becomes(o, b, s) == /\ buf' = [buf EXCEPT ![o] = b]
                    /\ content' = [content EXCEPT ![o] = s]

Fits(b) == Len(b.buffer_) <= MaxSize

From(s, n) == SubSeq(s, n + 1, Len(s))

AppendData(o, data) ==
  /\ Usable(buf[o])
  /\ Fits(append(buf[o], data))
  /\ Becomes(o, append(buf[o], data), content[o] \o data)

AppendInt64(o, x) ==
  /\ Usable(buf[o])
  /\ Fits(append_int64(buf[o], x))
  /\ Becomes(o, append_int64(buf[o], x), content[o] \o ToNetwork(x, 2 * Int32Size))

(***************************************************************************)
(* retrieve() may be asked for more than there is; retrieve_as_string()    *)
(* asks for what there is at most.                                         *)
(***************************************************************************)
Retrieve(o, len) ==
  /\ Usable(buf[o])
  /\ Becomes(o, retrieve(buf[o], len),
             IF len < Len(content[o]) THEN From(content[o], len) ELSE << >>)

(***************************************************************************)
(* read_int8() to read_int64(): the caller knows that the n bytes are      *)
(* there.                                                                  *)
(***************************************************************************)
ReadInt(o, n) == n <= readable_bytes(buf[o]) /\ Retrieve(o, n)

(***************************************************************************)
(* write() takes the first n bytes; an error changes nothing.              *)
(***************************************************************************)
WriteFd(o, n) == n <= readable_bytes(buf[o]) /\ Retrieve(o, n)

Prepend(o, data) ==
  /\ Usable(buf[o])
  /\ Len(data) <= prependable_bytes(buf[o])
  /\ Becomes(o, prepend(buf[o], data), data \o content[o])

EnsureWritable(o, len) ==
  /\ Usable(buf[o])
  /\ Fits(ensure_writable_bytes(buf[o], len))
  /\ Becomes(o, ensure_writable_bytes(buf[o], len), content[o])

HasWritten(o, data) ==
  /\ Usable(buf[o])
  /\ Len(data) <= writable_bytes(buf[o])
  /\ Becomes(o, has_written(buf[o], data), content[o] \o data)

Unwrite(o, len) ==
  /\ Usable(buf[o])
  /\ len <= readable_bytes(buf[o])
  /\ Becomes(o, [buf[o] EXCEPT !.write_index_ = @ - len],
             SubSeq(content[o], 1, Len(content[o]) - len))

(***************************************************************************)
(* At the end of the file and on an error nothing changes.                 *)
(***************************************************************************)
ReadFd(o, data) ==
  /\ Usable(buf[o])
  /\ Len(data) <= ReadLimit(buf[o])
  /\ Fits(read_fd(buf[o], data))
  /\ Becomes(o, read_fd(buf[o], data), content[o] \o data)

Copy(o, p) == o # p /\ Becomes(o, buf[p], content[p])

Move(o, p) ==
  /\ o # p
  /\ buf' = [buf EXCEPT ![o] = buf[p], ![p] = Hollow]
  /\ content' = [content EXCEPT ![o] = content[p], ![p] = << >>]

swap(o, p) ==
  /\ o # p
  /\ buf' = [buf EXCEPT ![o] = buf[p], ![p] = buf[o]]
  /\ content' = [content EXCEPT ![o] = content[p], ![p] = content[o]]

Next ==
  \E o \in Objects :
    \/ \E data \in Chunks : \/ AppendData(o, data)
                            \/ Prepend(o, data)
                            \/ HasWritten(o, data)
                            \/ ReadFd(o, data)
    \/ \E len \in 0..MaxChunk : \/ Retrieve(o, len)
                                \/ WriteFd(o, len)
                                \/ EnsureWritable(o, len)
                                \/ Unwrite(o, len)
    \/ \E n \in {1, Int32Size, 2 * Int32Size} : ReadInt(o, n)
    \/ \E x \in 0..(Pow[2 * Int32Size] - 1) : AppendInt64(o, x)
    \/ \E p \in Objects : Copy(o, p) \/ Move(o, p) \/ swap(o, p)

Spec == Init /\ [][Next]_vars

-----------------------------------------------------------------------------
(***************************************************************************)
(* The indices stay in order inside the vector, unless the buffer was      *)
(* moved from: no size_t difference of the accessors wraps (retrieve,      *)
(* make_space, read_fd).                                                   *)
(***************************************************************************)
InOrder(b) == b.read_index_ <= b.write_index_ /\ (Usable(b) \/ b = Hollow)

(***************************************************************************)
(* The indices are in order, and what lies between them is what was        *)
(* handed over and not taken, byte for byte and in order, whatever mix of  *)
(* growth, moving down, overflow into extrabuf, prepend, copy and move     *)
(* came before (append, make_space, read_fd, swap).                        *)
(***************************************************************************)
ContentKept == \A o \in Objects : InOrder(buf[o]) /\ to_string(buf[o]) = content[o]

(***************************************************************************)
(* In every reachable state ensure_writable_bytes(len) leaves room for len *)
(* and the unread bytes as they were, and make_space() moves them only     *)
(* towards the front: std::copy() onto a later overlapping range is        *)
(* undefined (ensure_writable_bytes, make_space).                          *)
(***************************************************************************)
RoomIsMade ==
  \A o \in Objects : \A len \in 0..MaxChunk : Usable(buf[o]) =>
    LET b == ensure_writable_bytes(buf[o], len)
    IN  /\ writable_bytes(b) >= len
        /\ to_string(b) = to_string(buf[o])
        /\ b.read_index_ <= buf[o].read_index_
=============================================================================
