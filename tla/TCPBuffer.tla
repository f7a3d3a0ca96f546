----------------------------- MODULE TCPBuffer ------------------------------
(***************************************************************************)
(* The buffer of a connection (net/tcp/tcp_buffer.cc): a vector, a read    *)
(* index and a write index.  The functions are operators on the record of  *)
(* the three; mySize is always the size of the vector.                     *)
(* An index counts from 0, as in the code: byte i is bytes[i + 1].         *)
(***************************************************************************)
EXTENDS Integers, Sequences

Buffers(Byte) ==
  {b \in [bytes : Seq(Byte), r : Nat, w : Nat] : b.r <= b.w /\ b.w <= Len(b.bytes)}

Zeros(n) == [i \in 1..n |-> 0]

NewBuffer(size) == [bytes |-> Zeros(size), r |-> 0, w |-> 0]

Size(b) == Len(b.bytes)

ReadRemain(b) == b.w - b.r

WriteRemain(b) == Len(b.bytes) - b.w

(* What has been written and not read: what the buffer is for.             *)
Content(b) == SubSeq(b.bytes, b.r + 1, b.w)

Byte(b, i) == b.bytes[i + 1]

(* memcpy of s into the vector, from index at on.                          *)
Stored(b, at, s) ==
  [b EXCEPT !.bytes = SubSeq(@, 1, at) \o s \o SubSeq(@, at + Len(s) + 1, Len(@))]

(* Mutant: the new vector is filled from the start of the old one. *)
MovedFromStart(b, size) ==
  [bytes |-> SubSeq(b.bytes, 1, ReadRemain(b)) \o Zeros(size - ReadRemain(b)),
   r |-> 0, w |-> ReadRemain(b)]

(* The content at the start of a new vector that is otherwise zero.        *)
Moved(b, size) ==
  [bytes |-> Content(b) \o Zeros(size - ReadRemain(b)),
   r |-> 0, w |-> ReadRemain(b)]

(* Its callers only grow the buffer: nothing is cut off.                   *)
ResizeBuffer(b, size) == Moved(b, size)

AdjustBuffer(b) == IF b.r < Size(b) \div 3 THEN b ELSE Moved(b, Size(b))

WriteToBuffer(b, s) ==
  LET grown == IF Len(s) > WriteRemain(b)
                 THEN ResizeBuffer(b, 2 * (b.w + Len(s))) ELSE b
  IN  [Stored(grown, grown.w, s) EXCEPT !.w = @ + Len(s)]

(* The size is unsigned: a negative one is refused as one too large is.     *)
Skippable(b, n) == n \in 0..ReadRemain(b)

MoveReadIndex(b, n) ==
  IF Skippable(b, n) THEN AdjustBuffer([b EXCEPT !.r = @ + n]) ELSE b

(* What MoveReadIndex leaves behind.                                       *)
Skipped(b, n) == IF Skippable(b, n) THEN SubSeq(b.bytes, b.r + 1, b.r + n) ELSE <<>>

(* A size that would fill the buffer is refused, too.                      *)
MoveWriteIndex(b, n) ==
  IF n >= WriteRemain(b) THEN b ELSE AdjustBuffer([b EXCEPT !.w = @ + n])

(* The preparation of OnRead: a full buffer is doubled before read().       *)
Roomy(b) == IF WriteRemain(b) = 0 THEN ResizeBuffer(b, 2 * Size(b)) ELSE b

(* One pass of OnRead: read() stores s behind the write index, and the index
   is moved over it, or not.                                               *)
Received(b, s) == MoveWriteIndex(Stored(Roomy(b), Roomy(b).w, s), Len(s))

Readable(b, n) == IF n < ReadRemain(b) THEN n ELSE ReadRemain(b)

(* ReadFromBuffer: what it hands out, and what it leaves.                  *)
Taken(b, n) == SubSeq(b.bytes, b.r + 1, b.r + Readable(b, n))

ReadFromBuffer(b, n) ==
  IF ReadRemain(b) = 0 THEN b
  ELSE AdjustBuffer([b EXCEPT !.r = @ + Readable(b, n)])
=============================================================================
