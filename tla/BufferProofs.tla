--------------------------- MODULE BufferProofs ----------------------------
(***************************************************************************)
(* What is proved about modules TCPBuffer, BufferUse and TinyPBStream, for *)
(* buffers of any size and any bytes: whatever the growth, the compaction  *)
(* and the indices do, a buffer is a queue of bytes, and two of them with  *)
(* a socket between them are one.  Then the frames: Decode inverts         *)
(* EncodeTinyPB, and over a clean stream that has lost nothing the         *)
(* messages come out as they went in, in order, however it is cut.         *)
(***************************************************************************)
EXTENDS BufferUse, TinyPBStream, SequenceTheorems, WellFoundedInduction, TLAPS

-----------------------------------------------------------------------------
(* Pieces of sequences.                                                    *)

(* A piece inside a sequence.                                              *)
LEMMA Piece ==
  ASSUME NEW S, NEW s \in Seq(S), NEW m \in Nat \ {0}, NEW n \in Nat,
         m <= n + 1, n <= Len(s)
  PROVE  /\ SubSeq(s, m, n) \in Seq(S) /\ Len(SubSeq(s, m, n)) = n - m + 1
         /\ \A i \in 1..(n - m + 1) : SubSeq(s, m, n)[i] = s[m + i - 1]
<1>1. \A i \in m..n : s[i] \in S
  BY LenProperties, ElementOfSeq
<1>2. m \in Int /\ n \in Int
  OBVIOUS
<1>3. /\ SubSeq(s, m, n) \in Seq(S)
      /\ Len(SubSeq(s, m, n)) = IF m <= n THEN n - m + 1 ELSE 0
      /\ \A i \in 1..(n - m + 1) : SubSeq(s, m, n)[i] = s[m + i - 1]
  BY <1>1, <1>2, SubSeqProperties
<1> QED
  BY <1>3

(* The first part of two.                                                  *)
LEMMA FirstPart ==
  ASSUME NEW S, NEW s \in Seq(S), NEW t \in Seq(S)
  PROVE  SubSeq(s \o t, 1, Len(s)) = s
<1>1. /\ s \o t \in Seq(S) /\ Len(s \o t) = Len(s) + Len(t)
      /\ \A i \in 1..Len(s) : (s \o t)[i] = s[i]
      /\ Len(s) \in Nat /\ Len(t) \in Nat
  BY ConcatProperties, LenProperties
<1> DEFINE both == s \o t
           l == Len(s)
<1>2. both \in Seq(S) /\ l \in Nat /\ l <= Len(both) /\ Len(both) \in Nat
  BY <1>1
<1> HIDE DEF both, l
<1>3. /\ SubSeq(both, 1, l) \in Seq(S) /\ Len(SubSeq(both, 1, l)) = l
      /\ \A i \in 1..l : SubSeq(both, 1, l)[i] = both[i]
  BY <1>2, Piece
<1> QED
  BY <1>1, <1>3, SeqEqual DEF both, l

(* Pieces of a piece.                                                      *)
LEMMA PieceOfPiece ==
  ASSUME NEW S, NEW s \in Seq(S), NEW r \in Nat, NEW w \in Nat, r <= w, w <= Len(s),
         NEW k \in 0..(w - r)
  PROVE  LET c == SubSeq(s, r + 1, w)
         IN  /\ Len(c) = w - r
             /\ SubSeq(c, 1, k) = SubSeq(s, r + 1, r + k)
             /\ SubSeq(c, k + 1, Len(c)) = SubSeq(s, r + k + 1, w)
<1> DEFINE c == SubSeq(s, r + 1, w)
<1>1. /\ c \in Seq(S) /\ Len(c) = w - r
      /\ \A i \in 1..(w - r) : c[i] = s[r + i]
  BY Piece
<1> DEFINE a == SubSeq(s, r + 1, r + k)
           b == SubSeq(s, r + k + 1, w)
<1>2. a \in Seq(S) /\ Len(a) = k /\ \A i \in 1..k : a[i] = s[r + i]
  BY Piece
<1>3. b \in Seq(S) /\ Len(b) = w - r - k /\ \A i \in 1..(w - r - k) : b[i] = s[r + k + i]
  BY Piece
<1> HIDE DEF a, b, c
<1>4. /\ SubSeq(c, 1, k) \in Seq(S) /\ Len(SubSeq(c, 1, k)) = k
      /\ \A i \in 1..k : SubSeq(c, 1, k)[i] = c[i]
  BY <1>1, Piece
<1>5. /\ SubSeq(c, k + 1, w - r) \in Seq(S) /\ Len(SubSeq(c, k + 1, w - r)) = w - r - k
      /\ \A i \in 1..(w - r - k) : SubSeq(c, k + 1, w - r)[i] = c[k + i]
  BY <1>1, Piece
<1>6. SubSeq(c, 1, k) = a
  <2> DEFINE x == SubSeq(c, 1, k)
  <2>1. ASSUME NEW i \in 1..k PROVE x[i] = a[i]
    <3>1. i \in 1..(w - r)
      OBVIOUS
    <3> QED
      BY <1>1, <1>2, <1>4, <3>1
  <2>2. x \in Seq(S) /\ Len(x) = Len(a) /\ Len(x) = k /\ a \in Seq(S)
    BY <1>2, <1>4
  <2> HIDE DEF x
  <2> QED
    BY <2>1, <2>2, SeqEqual DEF x
<1>7. SubSeq(c, k + 1, w - r) = b
  <2> DEFINE x == SubSeq(c, k + 1, w - r)
             n == w - r - k
  <2>1. ASSUME NEW i \in 1..n PROVE x[i] = b[i]
    <3>1. k + i \in 1..(w - r) /\ r + (k + i) = r + k + i
      OBVIOUS
    <3> QED
      BY <1>1, <1>3, <1>5, <3>1
  <2>2. x \in Seq(S) /\ Len(x) = Len(b) /\ Len(x) = n /\ b \in Seq(S)
    BY <1>3, <1>5
  <2> HIDE DEF x, n
  <2> QED
    BY <2>1, <2>2, SeqEqual DEF x
<1> QED
  BY <1>1, <1>6, <1>7 DEF a, b, c

-----------------------------------------------------------------------------
(* The functions of a buffer.                                              *)

(* What a buffer is, and its content.                                      *)
LEMMA BufferType ==
  ASSUME NEW V, NEW b \in Buffers(V)
  PROVE  /\ b = [bytes |-> b.bytes, r |-> b.r, w |-> b.w] /\ b.bytes \in Seq(V)
         /\ b.r \in Nat /\ b.w \in Nat /\ b.r <= b.w /\ b.w <= Len(b.bytes)
         /\ Len(b.bytes) \in Nat
         /\ ReadRemain(b) \in Nat /\ WriteRemain(b) \in Nat
         /\ Content(b) \in Seq(V) /\ Len(Content(b)) = ReadRemain(b)
<1>1. /\ b \in [bytes : Seq(V), r : Nat, w : Nat]
      /\ b.r <= b.w /\ b.w <= Len(b.bytes) /\ Len(b.bytes) \in Nat
  BY LenProperties DEF Buffers
<1>2. Content(b) \in Seq(V) /\ Len(Content(b)) = ReadRemain(b)
  BY <1>1, Piece DEF Content, ReadRemain
<1> QED
  BY <1>1, <1>2 DEF ReadRemain, WriteRemain

(* A new vector has the old content, at its start.                         *)
LEMMA MovedKeeps ==
  ASSUME NEW V, 0 \in V, NEW b \in Buffers(V), NEW size \in Nat, ReadRemain(b) <= size
  PROVE  /\ Moved(b, size) \in Buffers(V) /\ Content(Moved(b, size)) = Content(b)
         /\ Size(Moved(b, size)) = size /\ Moved(b, size).w = ReadRemain(b)
<1> DEFINE c == Content(b)
           z == Zeros(size - ReadRemain(b))
           m == Moved(b, size)
<1>1. c \in Seq(V) /\ Len(c) = ReadRemain(b) /\ ReadRemain(b) \in Nat
  BY BufferType
<1>2. z \in Seq(V) /\ Len(z) = size - ReadRemain(b)
  <2>1. size - ReadRemain(b) \in Nat
    BY <1>1
  <2> QED
    BY <2>1 DEF Zeros
<1>3. m = [bytes |-> c \o z, r |-> 0, w |-> ReadRemain(b)]
  BY DEF Moved
<1> HIDE DEF c, z, m
<1>4. c \o z \in Seq(V) /\ Len(c \o z) = size
  <2>1. c \o z \in Seq(V) /\ Len(c \o z) = Len(c) + Len(z)
    BY <1>1, <1>2, ConcatProperties
  <2> QED
    BY <1>1, <1>2, <2>1
<1>5. m \in Buffers(V)
  BY <1>1, <1>3, <1>4 DEF Buffers
<1>6. Content(m) = c
  <2>1. SubSeq(c \o z, 1, Len(c)) = c
    BY <1>1, <1>2, FirstPart
  <2> QED
    BY <1>1, <1>3, <2>1 DEF Content
<1> QED
  BY <1>3, <1>4, <1>5, <1>6 DEF c, m, Size

(* So compaction changes nothing.                                          *)
LEMMA AdjustKeeps ==
  ASSUME NEW V, 0 \in V, NEW b \in Buffers(V)
  PROVE  AdjustBuffer(b) \in Buffers(V) /\ Content(AdjustBuffer(b)) = Content(b)
<1>1. Size(b) \in Nat /\ ReadRemain(b) <= Size(b)
  BY BufferType DEF Size, ReadRemain
<1> QED
  BY <1>1, MovedKeeps DEF AdjustBuffer

(* s with t stored at w, and what is then in it.                           *)
WithStored(s, w, t) == SubSeq(s, 1, w) \o t \o SubSeq(s, w + Len(t) + 1, Len(s))

Overwrites(x, s, w, t) ==
  /\ Len(x) = Len(s)
  /\ \A i \in 1..w : x[i] = s[i]
  /\ \A i \in 1..Len(t) : x[w + i] = t[i]

(* What was before w is still there, and t follows it.                     *)
LEMMA Overwritten ==
  ASSUME NEW S, NEW s \in Seq(S), NEW t \in Seq(S), NEW w \in Nat, w + Len(t) <= Len(s)
  PROVE  WithStored(s, w, t) \in Seq(S) /\ Overwrites(WithStored(s, w, t), s, w, t)
<1> DEFINE n == Len(t)
           l == Len(s)
<1>0. n \in Nat /\ l \in Nat /\ n = Len(t) /\ l = Len(s) /\ w + n <= l
  BY LenProperties
<1> HIDE DEF n, l
<1> DEFINE head == SubSeq(s, 1, w)
           rest == SubSeq(s, w + n + 1, l)
           both == head \o t
           x == both \o rest
<1>1. head \in Seq(S) /\ Len(head) = w /\ \A i \in 1..w : head[i] = s[i]
  BY <1>0, Piece
<1>2. rest \in Seq(S) /\ Len(rest) = l - (w + n)
  BY <1>0, Piece
<1> HIDE DEF head, rest
<1>3. /\ both \in Seq(S) /\ Len(both) = Len(head) + Len(t)
      /\ \A i \in 1..(Len(head) + Len(t)) :
           both[i] = IF i <= Len(head) THEN head[i] ELSE t[i - Len(head)]
  BY <1>1, ConcatProperties
<1>4. /\ both \in Seq(S) /\ Len(both) = w + n
      /\ \A i \in 1..(w + n) : both[i] = IF i <= w THEN head[i] ELSE t[i - w]
  BY <1>0, <1>1, <1>3
<1> HIDE DEF both
<1>5. /\ x \in Seq(S) /\ Len(x) = Len(both) + Len(rest)
      /\ \A i \in 1..(Len(both) + Len(rest)) :
           x[i] = IF i <= Len(both) THEN both[i] ELSE rest[i - Len(both)]
  <2>1. both \in Seq(S) /\ rest \in Seq(S)
    BY <1>2, <1>4
  <2> QED
    BY <2>1, ConcatProperties
<1>6. /\ x \in Seq(S) /\ Len(x) = l
      /\ \A i \in 1..l : x[i] = IF i <= w + n THEN both[i] ELSE rest[i - (w + n)]
  BY <1>0, <1>2, <1>4, <1>5
<1> HIDE DEF x
<1>7. ASSUME NEW i \in 1..w PROVE x[i] = s[i]
  <2>1. i \in 1..(w + n) /\ i \in 1..l /\ i <= w /\ i <= w + n
    BY <1>0
  <2> QED
    BY <1>1, <1>4, <1>6, <2>1
<1>8. ASSUME NEW i \in 1..n PROVE x[w + i] = t[i]
  <2>1. /\ w + i \in 1..(w + n) /\ w + i \in 1..l /\ ~(w + i <= w) /\ w + i <= w + n
        /\ (w + i) - w = i
    BY <1>0
  <2> QED
    BY <1>4, <1>6, <2>1
<1>9. x = WithStored(s, w, t)
  BY <1>0 DEF x, both, head, rest, WithStored
<1> QED
  BY <1>0, <1>6, <1>7, <1>8, <1>9 DEF Overwrites

(* The piece between two indices.                                          *)
Part(s, r, w) == SubSeq(s, r + 1, w)

(* A piece of s, and what follows it: another sequence that has both.      *)
LEMMA PieceAndMore ==
  ASSUME NEW S, NEW s \in Seq(S), NEW x \in Seq(S), NEW t \in Seq(S),
         NEW r \in Nat, NEW w \in Nat, r <= w, w + Len(t) <= Len(s), Overwrites(x, s, w, t)
  PROVE  Part(x, r, w + Len(t)) = Part(s, r, w) \o t /\ Part(x, r, w) = Part(s, r, w)
<1> DEFINE n == Len(t)
<1>0. /\ n \in Nat /\ n = Len(t) /\ w + n <= Len(s) /\ w <= Len(s) /\ Len(x) = Len(s)
      /\ \A i \in 1..w : x[i] = s[i]
      /\ \A i \in 1..n : x[w + i] = t[i]
  <2>1. n \in Nat /\ n = Len(t) /\ Len(s) \in Nat /\ w + n <= Len(s)
    BY LenProperties
  <2> HIDE DEF n
  <2>2. w <= Len(s)
    BY <2>1
  <2> QED
    BY <2>1, <2>2 DEF Overwrites
<1> HIDE DEF n
<1> DEFINE c == SubSeq(s, r + 1, w)
           d == SubSeq(x, r + 1, w + n)
           k == w - r
           m == w - r + n
<1>1. /\ c \in Seq(S) /\ Len(c) = k /\ \A i \in 1..k : c[i] = s[r + i]
  BY <1>0, Piece
<1>2. /\ d \in Seq(S) /\ Len(d) = m /\ \A i \in 1..m : d[i] = x[r + i]
  <2>1. /\ r + 1 \in Nat \ {0} /\ w + n \in Nat /\ r + 1 <= w + n + 1
        /\ w + n <= Len(x)
    BY <1>0
  <2>2. /\ d \in Seq(S) /\ Len(d) = (w + n) - (r + 1) + 1
        /\ \A i \in 1..((w + n) - (r + 1) + 1) : d[i] = x[(r + 1) + i - 1]
    BY <2>1, Piece
  <2>3. (w + n) - (r + 1) + 1 = m /\ \A i \in 1..m : (r + 1) + i - 1 = r + i
    BY <1>0
  <2> QED
    BY <2>2, <2>3
<1>3. k \in Nat /\ m \in Nat /\ m = k + n /\ r + k = w
  BY <1>0
<1>10. SubSeq(x, r + 1, w) = c
  <2> DEFINE e == SubSeq(x, r + 1, w)
  <2>1. w <= Len(x)
    BY <1>0
  <2>2. e \in Seq(S) /\ Len(e) = k /\ \A i \in 1..k : e[i] = x[r + i]
    BY <2>1, Piece
  <2>3. \A i \in 1..k : r + i \in 1..w
    OBVIOUS
  <2> HIDE DEF e, c, k
  <2>4. \A i \in 1..k : e[i] = c[i]
    BY <1>0, <1>1, <2>2, <2>3
  <2> QED
    BY <1>1, <2>2, <2>4, SeqEqual DEF e
<1> HIDE DEF c, d, k, m
<1>4. /\ c \o t \in Seq(S) /\ Len(c \o t) = Len(c) + Len(t)
      /\ \A i \in 1..(Len(c) + Len(t)) :
           (c \o t)[i] = IF i <= Len(c) THEN c[i] ELSE t[i - Len(c)]
  BY <1>1, ConcatProperties
<1>5. /\ c \o t \in Seq(S) /\ Len(c \o t) = m
      /\ \A i \in 1..m : (c \o t)[i] = IF i <= k THEN c[i] ELSE t[i - k]
  BY <1>0, <1>1, <1>3, <1>4
<1>6. ASSUME NEW i \in 1..m PROVE d[i] = (c \o t)[i]
  <2>1. CASE i <= k
    <3>1. i \in 1..k /\ r + i \in 1..w
      BY <1>0, <1>3, <2>1
    <3> QED
      BY <1>0, <1>1, <1>2, <1>5, <2>1, <3>1
  <2>2. CASE ~(i <= k)
    <3>1. i - k \in 1..n /\ w + (i - k) = r + i
      BY <1>0, <1>3, <2>2
    <3>2. x[r + i] = t[i - k]
      BY <1>0, <3>1
    <3> QED
      BY <1>2, <1>5, <2>2, <3>2
  <2> QED
    BY <2>1, <2>2
<1>7. d = c \o t
  BY <1>2, <1>5, <1>6, SeqEqual
<1> QED
  BY <1>0, <1>7, <1>10 DEF c, d, Part

(* s behind the content of b, and counted.                                 *)
WithMore(b, s) == [Stored(b, b.w, s) EXCEPT !.w = @ + Len(s)]

(* Bytes are stored behind the content: they are not part of it until the
   write index has moved over them.                                        *)
LEMMA StoredKeeps ==
  ASSUME NEW V, NEW b \in Buffers(V), NEW s \in Seq(V), Len(s) <= WriteRemain(b)
  PROVE  LET c == Stored(b, b.w, s)
         IN  /\ c \in Buffers(V) /\ Content(c) = Content(b)
             /\ WriteRemain(c) = WriteRemain(b)
             /\ WithMore(b, s) \in Buffers(V) /\ Content(WithMore(b, s)) = Content(b) \o s
<1> DEFINE n == Len(s)
           old == b.bytes
           r == b.r
           w == b.w
           bytes == WithStored(old, w, s)
           c == Stored(b, b.w, s)
           d == WithMore(b, s)
<1>1. /\ old \in Seq(V) /\ r \in Nat /\ w \in Nat /\ r <= w /\ n \in Nat
      /\ w + n <= Len(old) /\ Len(old) \in Nat /\ w <= Len(old) /\ n = Len(s)
      /\ b = [bytes |-> old, r |-> r, w |-> w]
  <2>1. n \in Nat /\ n <= Len(old) - w /\ n = Len(s)
    BY LenProperties DEF WriteRemain
  <2>2. /\ old \in Seq(V) /\ r \in Nat /\ w \in Nat /\ r <= w
        /\ Len(old) \in Nat /\ w <= Len(old) /\ b = [bytes |-> old, r |-> r, w |-> w]
    BY BufferType
  <2> HIDE DEF n, old, r, w
  <2> QED
    BY <2>1, <2>2
<1>2. c = [b EXCEPT !.bytes = bytes]
  BY DEF Stored, WithStored
<1> HIDE DEF n, old, r, w
<1>3. bytes \in Seq(V) /\ Overwrites(bytes, old, w, s)
  BY <1>1, Overwritten
<1>10. d = [c EXCEPT !.w = @ + n]
  BY <1>1 DEF WithMore
<1> HIDE DEF c, d, bytes
<1>4. c = [bytes |-> bytes, r |-> r, w |-> w]
  BY <1>1, <1>2
<1>5. d = [bytes |-> bytes, r |-> r, w |-> w + n]
  BY <1>4, <1>10
<1>6. Len(bytes) = Len(old)
  BY <1>3 DEF Overwrites
<1>7. c \in Buffers(V) /\ d \in Buffers(V)
  <2>1. r <= w + n /\ w + n \in Nat
    BY <1>1
  <2> QED
    BY <1>1, <1>3, <1>4, <1>5, <1>6, <2>1 DEF Buffers
<1>8. /\ SubSeq(bytes, r + 1, w + n) = SubSeq(old, r + 1, w) \o s
      /\ SubSeq(bytes, r + 1, w) = SubSeq(old, r + 1, w)
  <2>1. w + Len(s) <= Len(old)
    BY <1>1
  <2>2. Part(bytes, r, w + Len(s)) = Part(old, r, w) \o s /\ Part(bytes, r, w) = Part(old, r, w)
    BY <1>1, <1>3, <2>1, PieceAndMore
  <2> QED
    BY <1>1, <2>2 DEF Part
<1>9. /\ Content(c) = Content(b) /\ Content(d) = Content(b) \o s
      /\ WriteRemain(c) = WriteRemain(b)
  BY <1>1, <1>4, <1>5, <1>6, <1>8 DEF WriteRemain, Content
<1> QED
  BY <1>7, <1>9 DEF c, d

(* The read index moves over k bytes.                                      *)
LEMMA AdvanceTakes ==
  ASSUME NEW V, 0 \in V, NEW b \in Buffers(V), NEW k \in 0..ReadRemain(b)
  PROVE  LET c == AdjustBuffer([b EXCEPT !.r = @ + k])
         IN  /\ c \in Buffers(V)
             /\ SubSeq(b.bytes, b.r + 1, b.r + k) = SubSeq(Content(b), 1, k)
             /\ Content(c) = SubSeq(Content(b), k + 1, Len(Content(b)))
<1> DEFINE a == [b EXCEPT !.r = @ + k]
<1>1. /\ b.bytes \in Seq(V) /\ b.r \in Nat /\ b.w \in Nat /\ b.r <= b.w
      /\ b.w <= Len(b.bytes) /\ k \in 0..(b.w - b.r) /\ Len(b.bytes) \in Nat
      /\ b = [bytes |-> b.bytes, r |-> b.r, w |-> b.w]
  BY BufferType DEF ReadRemain
<1>2. a = [bytes |-> b.bytes, r |-> b.r + k, w |-> b.w]
  BY <1>1
<1> HIDE DEF a
<1>3. a \in Buffers(V)
  BY <1>1, <1>2 DEF Buffers
<1>4. AdjustBuffer(a) \in Buffers(V) /\ Content(AdjustBuffer(a)) = Content(a)
  BY <1>3, AdjustKeeps
<1>5. /\ SubSeq(Content(b), 1, k) = SubSeq(b.bytes, b.r + 1, b.r + k)
      /\ SubSeq(Content(b), k + 1, Len(Content(b))) = SubSeq(b.bytes, b.r + k + 1, b.w)
  <2> DEFINE s == b.bytes
             r == b.r
             w == b.w
  <2>1. s \in Seq(V) /\ r \in Nat /\ w \in Nat /\ r <= w /\ w <= Len(s) /\ k \in 0..(w - r)
    BY <1>1
  <2> HIDE DEF s, r, w
  <2>2. /\ SubSeq(SubSeq(s, r + 1, w), 1, k) = SubSeq(s, r + 1, r + k)
        /\ SubSeq(SubSeq(s, r + 1, w), k + 1, Len(SubSeq(s, r + 1, w)))
             = SubSeq(s, r + k + 1, w)
    BY <2>1, PieceOfPiece
  <2> QED
    BY <2>2 DEF Content, s, r, w
<1> QED
  BY <1>2, <1>4, <1>5 DEF a, Content

-----------------------------------------------------------------------------
(* The uses of a buffer.                                                   *)

(* WriteToBuffer puts the bytes behind the content, in a larger vector when
   they do not fit.                                                        *)
LEMMA WritePuts ==
  ASSUME NEW V, 0 \in V, NEW b \in Buffers(V), NEW s \in Seq(V)
  PROVE  WriteToBuffer(b, s) \in Buffers(V) /\ Content(WriteToBuffer(b, s)) = Content(b) \o s
<1> DEFINE size == 2 * (b.w + Len(s))
           grown == IF Len(s) > WriteRemain(b) THEN ResizeBuffer(b, size) ELSE b
<1>1. b.w \in Nat /\ ReadRemain(b) \in Nat /\ ReadRemain(b) <= b.w /\ WriteRemain(b) \in Nat
  BY BufferType DEF ReadRemain
<1>2. Len(s) \in Nat
  BY LenProperties
<1>3. CASE Len(s) > WriteRemain(b)
  <2>1. size \in Nat /\ ReadRemain(b) <= size /\ Len(s) <= size - ReadRemain(b)
    BY <1>1, <1>2
  <2>2. grown = Moved(b, size)
    BY <1>3 DEF ResizeBuffer
  <2> HIDE DEF size
  <2>3. /\ grown \in Buffers(V) /\ Content(grown) = Content(b)
        /\ WriteRemain(grown) = size - ReadRemain(b)
    BY <2>1, <2>2, MovedKeeps DEF Size, WriteRemain
  <2> HIDE DEF grown
  <2>4. grown \in Buffers(V) /\ Content(grown) = Content(b) /\ Len(s) <= WriteRemain(grown)
    BY <2>1, <2>3
  <2>5. WithMore(grown, s) \in Buffers(V) /\ Content(WithMore(grown, s)) = Content(grown) \o s
    BY <2>4, StoredKeeps
  <2> QED
    BY <2>4, <2>5 DEF WriteToBuffer, WithMore, grown, size
<1>4. CASE ~(Len(s) > WriteRemain(b))
  <2>1. Len(s) <= WriteRemain(b)
    BY <1>1, <1>2, <1>4
  <2>2. WithMore(b, s) \in Buffers(V) /\ Content(WithMore(b, s)) = Content(b) \o s
    BY <2>1, StoredKeeps
  <2> QED
    BY <1>4, <2>2 DEF WriteToBuffer, WithMore
<1> QED
  BY <1>3, <1>4

(* Before a read the buffer is as it was, or larger.                       *)
LEMMA RoomyKeeps ==
  ASSUME NEW V, 0 \in V, NEW b \in Buffers(V)
  PROVE  Roomy(b) \in Buffers(V) /\ Content(Roomy(b)) = Content(b)
<1>1. 2 * Size(b) \in Nat /\ ReadRemain(b) <= 2 * Size(b)
  BY BufferType DEF ReadRemain, Size
<1> QED
  BY <1>1, MovedKeeps DEF Roomy, ResizeBuffer

(* What a read has stored is behind the content, if it is counted.         *)
LEMMA ReceivedPuts ==
  ASSUME NEW V, 0 \in V, NEW b \in Buffers(V), NEW s \in Seq(V),
         Len(s) <= WriteRemain(Roomy(b))
  PROVE  /\ Received(b, s) \in Buffers(V)
         /\ Content(Received(b, s)) = IF Len(s) < WriteRemain(Roomy(b))
                                        THEN Content(b) \o s ELSE Content(b)
<1> DEFINE a == Roomy(b)
           c == Stored(a, a.w, s)
           d == WithMore(a, s)
<1>1. a \in Buffers(V) /\ Content(a) = Content(b)
  BY RoomyKeeps
<1>2. Len(s) <= WriteRemain(a)
  OBVIOUS
<1> HIDE DEF a
<1>3. /\ c \in Buffers(V) /\ Content(c) = Content(a) /\ WriteRemain(c) = WriteRemain(a)
      /\ d \in Buffers(V) /\ Content(d) = Content(a) \o s
  BY <1>1, <1>2, StoredKeeps
<1>4. Received(b, s) = IF Len(s) >= WriteRemain(c) THEN c ELSE AdjustBuffer(d)
  BY DEF Received, MoveWriteIndex, WithMore, a
<1> HIDE DEF c, d
<1>5. AdjustBuffer(d) \in Buffers(V) /\ Content(AdjustBuffer(d)) = Content(d)
  BY <1>3, AdjustKeeps
<1>6. Len(s) \in Nat /\ WriteRemain(a) \in Nat
  BY <1>1, LenProperties, BufferType
<1>7. CASE Len(s) < WriteRemain(a)
  BY <1>1, <1>3, <1>4, <1>5, <1>6, <1>7 DEF a
<1>8. CASE ~(Len(s) < WriteRemain(a))
  BY <1>1, <1>3, <1>4, <1>6, <1>8 DEF a
<1> QED
  BY <1>7, <1>8

(* The buffer and what was taken out of it.                                *)
LEMMA UseSteps == UseTypeOK /\ [UseNext]_useVars => UseTypeOK' /\ [Queue!Next]_<<Content(buf), out>>
<1> SUFFICES ASSUME UseTypeOK, [UseNext]_useVars
             PROVE  UseTypeOK' /\ [Queue!Next]_<<Content(buf), out>>
  OBVIOUS
<1> DEFINE Abstract == [Queue!Next]_<<Content(buf), out>>
<1>1. 0 \in Value /\ buf \in Buffers(Value) /\ out \in Seq(Value) /\ <<>> \in Seq(Value)
  BY EmptySeq DEF UseTypeOK, Value
<1>2. \A s \in Chunks : s \in Seq(Value)
  BY ChunksAssumption
<1> HIDE DEF Value
<1>3. CASE UNCHANGED useVars
  BY <1>3 DEF useVars, UseTypeOK
<1>4. ASSUME NEW s \in Chunks, Write(s) PROVE UseTypeOK' /\ Abstract
  <2>1. buf' \in Buffers(Value) /\ Content(buf') = Content(buf) \o s /\ out' = <<>>
    BY <1>1, <1>2, <1>4, WritePuts DEF Write
  <2>2. Queue!Put(s)
    BY <2>1 DEF Queue!Put
  <2> QED
    BY <1>1, <2>1, <2>2 DEF UseTypeOK, Queue!Next
<1>5. ASSUME NEW s \in Chunks, Receive(s) PROVE UseTypeOK' /\ Abstract
  <2>1. /\ buf' \in Buffers(Value)
        /\ Content(buf') = IF Len(s) < WriteRemain(Roomy(buf))
                             THEN Content(buf) \o s ELSE Content(buf)
    BY <1>1, <1>2, <1>5, ReceivedPuts DEF Receive
  <2>2. CASE Len(s) < WriteRemain(Roomy(buf))
    <3>1. Queue!Put(s) /\ out' = <<>>
      BY <1>5, <2>1, <2>2 DEF Receive, Queue!Put
    <3> QED
      BY <1>1, <2>1, <3>1 DEF UseTypeOK, Queue!Next
  <2>3. CASE ~(Len(s) < WriteRemain(Roomy(buf)))
    BY <1>1, <1>5, <2>1, <2>3 DEF Receive, UseTypeOK
  <2> QED
    BY <2>2, <2>3
<1>6. ASSUME NEW k \in 0..ReadRemain(buf),
             buf' = AdjustBuffer([buf EXCEPT !.r = @ + k]),
             out' = SubSeq(buf.bytes, buf.r + 1, buf.r + k)
      PROVE  UseTypeOK' /\ Abstract
  <2>1. /\ buf' \in Buffers(Value) /\ out' = SubSeq(Content(buf), 1, k)
        /\ Content(buf') = SubSeq(Content(buf), k + 1, Len(Content(buf)))
    BY <1>1, <1>6, AdvanceTakes
  <2>2. Content(buf) \in Seq(Value) /\ k \in 0..Len(Content(buf)) /\ Len(Content(buf)) \in Nat
    BY <1>1, BufferType
  <2>3. out' \in Seq(Value)
    BY <2>1, <2>2, Piece
  <2>4. Queue!Take(k)
    BY <2>1 DEF Queue!Take
  <2> QED
    BY <2>1, <2>2, <2>3, <2>4 DEF UseTypeOK, Queue!Next
<1>7. ASSUME NEW n \in 0..Size(buf), Take(n) PROVE UseTypeOK' /\ Abstract
  <2>1. Readable(buf, n) \in 0..ReadRemain(buf)
    BY <1>1, BufferType DEF Readable, Size
  <2>2. CASE ReadRemain(buf) = 0
    <3>1. buf' = buf /\ Readable(buf, n) = 0
      BY <1>7, <2>1, <2>2 DEF Take, ReadFromBuffer
    <3>2. out' = SubSeq(buf.bytes, buf.r + 1, buf.r + 0)
      BY <1>7, <3>1 DEF Take, Taken
    <3>3. out' = <<>>
      <4>1. buf.r + 1 \in Int /\ buf.r + 0 \in Int /\ buf.r + 0 < buf.r + 1
        BY <1>1, BufferType
      <4> QED
        BY <3>2, <4>1, SubSeqEmpty
    <3>4. Content(buf) \in Seq(Value) /\ Len(Content(buf)) = 0
      BY <1>1, <2>2, BufferType
    <3>5. Content(buf) = <<>>
      BY <3>4, EmptySeq
    <3>6. Content(buf') = Content(buf)
      BY <3>1
    <3>7. SubSeq(Content(buf), 1, 0) = <<>>
      BY SubSeqEmpty
    <3>8. Queue!Take(0)
      BY <3>3, <3>4, <3>5, <3>6, <3>7 DEF Queue!Take
    <3> QED
      BY <1>1, <3>1, <3>3, <3>4, <3>8 DEF UseTypeOK, Queue!Next
  <2>3. CASE ReadRemain(buf) # 0
    BY <1>6, <1>7, <2>1, <2>3 DEF Take, ReadFromBuffer, Taken
  <2> QED
    BY <2>2, <2>3
<1>8. ASSUME NEW n, Skip(n) PROVE UseTypeOK' /\ Abstract
  <2>1. CASE Skippable(buf, n)
    BY <1>6, <1>8, <2>1 DEF Skip, MoveReadIndex, Skipped, Skippable
  <2>2. CASE ~Skippable(buf, n)
    BY <1>1, <1>8, <2>2 DEF Skip, MoveReadIndex, UseTypeOK
  <2> QED
    BY <2>1, <2>2
<1> QED
  BY <1>3, <1>4, <1>5, <1>7, <1>8 DEF UseNext

(* It starts empty.                                                        *)
LEMMA UseStarts == UseInit => UseTypeOK /\ Queue!Init
<1> SUFFICES ASSUME UseInit PROVE UseTypeOK /\ Queue!Init
  OBVIOUS
<1>1. BufferSize \in Nat
  BY BufferSizeAssumption
<1>2. 0 \in Value
  BY DEF Value
<1> HIDE DEF Value
<1>3. Zeros(BufferSize) \in Seq(Value) /\ Len(Zeros(BufferSize)) = BufferSize
  BY <1>1, <1>2 DEF Zeros
<1>4. buf \in Buffers(Value)
  BY <1>1, <1>3 DEF UseInit, NewBuffer, Buffers
<1>5. Content(buf) = <<>>
  <2>1. Content(buf) = SubSeq(Zeros(BufferSize), 1, 0)
    BY DEF UseInit, NewBuffer, Content
  <2> QED
    BY <2>1, SubSeqEmpty
<1>6. <<>> \in Seq(Value)
  BY EmptySeq
<1> QED
  BY <1>4, <1>5, <1>6 DEF UseInit, UseTypeOK, Queue!Init

(* The indices stay within the vector, and the vector holds bytes that were
   written, or zeros: for a buffer of any size.                            *)
THEOREM UseTypeCorrect == UseSpec => []UseTypeOK
<1>1. UseInit => UseTypeOK
  BY UseStarts
<1>2. UseTypeOK /\ [UseNext]_useVars => UseTypeOK'
  BY UseSteps
<1> QED
  BY <1>1, <1>2, PTL DEF UseSpec

(* A buffer of any size, with any bytes written, received, read and skipped in
   any order, is a queue of bytes: growth (tcp_buffer.cc 57-62, 95-111),
   compaction (114-132) and the two indices (134-158) lose none, double none
   and let none overtake another, up to a read that MoveWriteIndex refuses to
   count, which leaves the queue as it was.                                *)
THEOREM ImplementsByteQueue == UseSpec => RefinesByteQueue
<1>1. UseInit => UseTypeOK /\ Queue!Init
  BY UseStarts
<1>2. UseTypeOK /\ [UseNext]_useVars => UseTypeOK' /\ [Queue!Next]_<<Content(buf), out>>
  BY UseSteps
<1> QED
  BY <1>1, <1>2, PTL DEF UseSpec, RefinesByteQueue, Queue!Spec

-----------------------------------------------------------------------------
(* Frames.                                                                 *)

(* A set of naturals has a least element.                                  *)
LEMMA LeastOf ==
  ASSUME NEW S \in SUBSET Nat, S # {}
  PROVE  /\ (CHOOSE i \in S : \A j \in S : i <= j) \in S
         /\ \A k \in S : (CHOOSE i \in S : \A j \in S : i <= j) <= k
<1> DEFINE Less == {p \in Nat \X Nat : p[1] < p[2]}
<1>1. IsWellFoundedOn(Less, Nat)
  BY NatLessThanWellFounded DEF OpToRel
<1>2. PICK x \in S : \A y \in S : ~(<<y, x>> \in Less)
  BY <1>1, WFMin
<1>3. ASSUME NEW y \in S PROVE x <= y
  <2>1. x \in Nat /\ y \in Nat /\ ~(<<y, x>> \in Less)
    BY <1>2
  <2> QED
    BY <2>1
<1> QED
  BY <1>3

(* An integer field has four bytes.                                        *)
LEMMA FourBytes ==
  ASSUME NEW n \in Int
  PROVE  NetBytes(n) \in Seq(ByteValues)
<1>1. \A k \in Int : k % 256 \in ByteValues
  BY DEF ByteValues
<1>2. /\ (n \div 16777216) % 256 \in ByteValues /\ (n \div 65536) % 256 \in ByteValues
      /\ (n \div 256) % 256 \in ByteValues /\ n % 256 \in ByteValues
  BY SMT, <1>1
<1> HIDE DEF ByteValues
<1> QED
  BY SMT, <1>2 DEF NetBytes

(* A 32-bit integer is one.                                                *)
LEMMA SmallIntegers ==
  /\ Int32 \subseteq Int /\ 0 \in Int32
  /\ \A n : n \in Int32 <=> n \in Int /\ -2147483648 <= n /\ n <= 2147483647
<1>1. MaxInt32 \in Int /\ 0 <= MaxInt32
  BY SMT DEF MaxInt32
<1>2. \A n : n \in Int32 <=> n \in Int /\ -MaxInt32 - 1 <= n /\ n <= MaxInt32
  BY SMT, <1>1 DEF Int32
<1>3. \A n : n \in Int32 <=> n \in Int /\ -2147483648 <= n /\ n <= 2147483647
  BY SMT, <1>2 DEF MaxInt32
<1>4. 0 \in Int32
  BY SMT, <1>1, <1>2
<1> QED
  BY SMT, <1>3, <1>4

(* The number that four digits are.                                        *)
Weighed(e, b, c, d) == e * 16777216 + b * 65536 + c * 256 + d

(* Four bytes, of which the first is signed, have 32 bits.                 *)
LEMMA IntegerFits ==
  ASSUME NEW e \in Int, -128 <= e, e <= 127,
         NEW b \in 0..255, NEW c \in 0..255, NEW d \in 0..255
  PROVE  Weighed(e, b, c, d) \in Int32
<1>1. /\ e * 16777216 \in Int /\ e * 16777216 >= -2147483648 /\ e * 16777216 <= 2130706432
  BY SMT
<1>2. b * 65536 \in Int /\ b * 65536 >= 0 /\ b * 65536 <= 16711680
  BY SMT
<1>3. c * 256 \in Int /\ c * 256 >= 0 /\ c * 256 <= 65280
  BY SMT
<1> QED
  BY SMT, <1>1, <1>2, <1>3, SmallIntegers DEF Weighed

(* Four bytes are an integer.                                              *)
LEMMA IntegerOf ==
  ASSUME NEW s \in Seq(ByteValues), Len(s) = 4
  PROVE  GetInt32FromNetByte(s) \in Int32
<1>1. ASSUME NEW i \in 1..4 PROVE s[i] \in 0..255
  BY ElementOfSeq DEF ByteValues
<1>2. ASSUME NEW a \in 0..255 PROVE Signed(a) \in Int /\ -128 <= Signed(a) /\ Signed(a) <= 127
  BY DEF Signed
<1>3. s[1] \in 0..255 /\ s[2] \in 0..255 /\ s[3] \in 0..255 /\ s[4] \in 0..255
  BY <1>1
<1>4. Signed(s[1]) \in Int /\ -128 <= Signed(s[1]) /\ Signed(s[1]) <= 127
  BY <1>2, <1>3
<1>5. GetInt32FromNetByte(s) = Weighed(Signed(s[1]), s[2], s[3], s[4])
  BY SMT DEF GetInt32FromNetByte, Weighed
<1>6. \A e \in Int, b, c, d \in 0..255 :
        -128 <= e /\ e <= 127 => Weighed(e, b, c, d) \in Int32
  BY IntegerFits
<1>7. Weighed(Signed(s[1]), s[2], s[3], s[4]) \in Int32
  BY <1>3, <1>4, <1>6
<1> QED
  BY <1>5, <1>7

(* A message that is to be sent has an identifier.                         *)
LEMMA NamedType ==
  ASSUME NEW m \in TinyProtocol
  PROVE  Named(m) \in TinyProtocol
BY MessagesAssumption DEF Named, TinyProtocol

(* A field after its length.                                               *)
LEMMA CountedType ==
  ASSUME NEW s \in Seq(ByteValues)
  PROVE  Counted(s) \in Seq(ByteValues)
<1>1. NetBytes(Len(s)) \in Seq(ByteValues)
  BY LenProperties, FourBytes
<1> QED
  BY <1>1, ConcatProperties DEF Counted

(* What is between the length of the whole and the end sign.               *)
LEMMA FieldsType ==
  ASSUME NEW n \in TinyProtocol
  PROVE  Fields(n) \in Seq(ByteValues)
<1> DEFINE Data == Seq(ByteValues)
<1>1. \A s, t \in Data : s \o t \in Data
  BY ConcatProperties
<1>2. /\ n.myMessageID \in Data /\ n.myMethodName \in Data /\ n.myErrorCode \in Int
      /\ n.myErrorInfo \in Data /\ n.myPBData \in Data
  BY SmallIntegers DEF TinyProtocol
<1>3. /\ Counted(n.myMessageID) \in Data /\ Counted(n.myMethodName) \in Data
      /\ NetBytes(n.myErrorCode) \in Data /\ Counted(n.myErrorInfo) \in Data
      /\ NetBytes(CheckSum) \in Data
  <2>1. CheckSum \in Int
    BY DEF CheckSum
  <2> QED
    BY <1>2, <2>1, CountedType, FourBytes
<1> HIDE DEF Data
<1>4. Fields(n) \in Data
  BY <1>1, <1>2, <1>3 DEF Fields
<1> QED
  BY <1>4 DEF Data

(* A frame is a sequence of bytes.                                         *)
LEMMA FrameType ==
  ASSUME NEW m \in TinyProtocol
  PROVE  EncodeTinyPB(m) \in Seq(ByteValues)
<1> DEFINE n == Named(m)
           Data == Seq(ByteValues)
<1>1. \A s, t \in Data : s \o t \in Data
  BY ConcatProperties
<1>2. <<PB_START>> \in Data /\ <<PB_END>> \in Data
  BY DEF PB_START, PB_END, ByteValues
<1>3. Fields(n) \in Data
  BY NamedType, FieldsType
<1> HIDE DEF n, Data
<1>4. NetBytes(Len(Fields(n)) + LenBytes + 2) \in Data
  <2>1. Len(Fields(n)) + LenBytes + 2 \in Int
    BY <1>3, LenProperties DEF Data, LenBytes
  <2> QED
    BY <2>1, FourBytes DEF Data
<1>5. EncodeTinyPB(m) = <<PB_START>> \o NetBytes(Len(Fields(n)) + LenBytes + 2)
                          \o Fields(n) \o <<PB_END>>
  BY DEF EncodeTinyPB, n
<1> QED
  BY <1>1, <1>2, <1>3, <1>4, <1>5 DEF Data

-----------------------------------------------------------------------------
(* What Decode finds.                                                      *)

(* An integer read from the vector, wherever.                              *)
LEMMA ReadInteger ==
  ASSUME NEW b \in Buffers(ByteValues), NEW i \in Nat, i + LenBytes <= Size(b)
  PROVE  GetInt32FromNetByte(SubSeq(b.bytes, i + 1, i + LenBytes)) \in Int32
<1>1. b.bytes \in Seq(ByteValues) /\ i + 4 <= Len(b.bytes)
  BY BufferType DEF Size, LenBytes
<1>2. /\ SubSeq(b.bytes, i + 1, i + 4) \in Seq(ByteValues)
      /\ Len(SubSeq(b.bytes, i + 1, i + 4)) = 4
  <2>1. /\ SubSeq(b.bytes, i + 1, i + 4) \in Seq(ByteValues)
        /\ Len(SubSeq(b.bytes, i + 1, i + 4)) = (i + 4) - (i + 1) + 1
    BY <1>1, Piece
  <2> QED
    BY <2>1
<1> QED
  BY <1>2, IntegerOf DEF LenBytes

(* A field of the frame is an integer.                                     *)
LEMMA IntAtType ==
  ASSUME NEW b \in Buffers(ByteValues), NEW i \in Int
  PROVE  IntAt(b, i) \in Int32
<1>1. Size(b) \in Nat
  BY BufferType DEF Size
<1>2. CASE i \in 0..(Size(b) - LenBytes)
  <2>1. i \in Nat /\ i + LenBytes <= Size(b)
    BY <1>1, <1>2 DEF LenBytes
  <2> QED
    BY <1>2, <2>1, ReadInteger DEF IntAt
<1> QED
  BY <1>2, SmallIntegers DEF IntAt

(* Where Decode stops there is a start sign among the bytes to be read.    *)
LEMMA FirstStops ==
  ASSUME NEW b \in Buffers(ByteValues), Stops(b) # {}
  PROVE  /\ First(b) \in Stops(b) /\ First(b) \in Nat
         /\ \A i \in Stops(b) : First(b) <= i
<1>1. Stops(b) \in SUBSET Nat
  BY BufferType DEF Stops
<1>2. First(b) = CHOOSE i \in Stops(b) : \A j \in Stops(b) : i <= j
  BY DEF First
<1> HIDE DEF Stops
<1> QED
  BY <1>1, <1>2, LeastOf

(* A frame's fields begin where an integer says.                           *)
LEMMA FrameAtType ==
  ASSUME NEW b \in Buffers(ByteValues), NEW index \in Nat, IsFrame(b, index)
  PROVE  LET f == FrameAt(b, index)
         IN  /\ f.id \in Nat /\ f.name \in Int /\ f.code \in Int /\ f.info \in Int
             /\ f.data \in Int /\ f.end \in Nat /\ f.end < b.w
<1> DEFINE f == FrameAt(b, index)
<1>1. PackageLen(b, index) \in Int
  <2>1. Size(b) \in Nat /\ index + LenBytes < Size(b)
    BY BufferType DEF IsFrame, LooksBeyond, Size, LenBytes
  <2>2. index + 1 \in Nat /\ (index + 1) + LenBytes <= Size(b)
    BY <2>1 DEF LenBytes
  <2>3. GetInt32FromNetByte(SubSeq(b.bytes, (index + 1) + 1, (index + 1) + LenBytes)) \in Int32
    BY <2>2, ReadInteger
  <2>4. (index + 1) + 1 = index + 2 /\ (index + 1) + LenBytes = index + 1 + LenBytes
    BY DEF LenBytes
  <2> QED
    BY <2>3, <2>4, SmallIntegers DEF PackageLen
<1>2. EndAt(b, index) \in Nat /\ EndAt(b, index) < b.w
  BY <1>1, BufferType DEF EndAt, IsFrame, LooksBeyond
<1>3. f.id \in Nat /\ f.end = EndAt(b, index)
  BY DEF FrameAt, LenBytes
<1>4. f.name = f.id + LenBytes + IntAt(b, f.id)
  BY DEF FrameAt
<1>5. f.code = f.name + LenBytes + IntAt(b, f.name) /\ f.info = f.code + LenBytes
  BY DEF FrameAt
<1>6. f.data = f.info + LenBytes + IntAt(b, f.info)
  BY DEF FrameAt
<1> HIDE DEF f
<1>7. f.name \in Int
  BY <1>3, <1>4, IntAtType, SmallIntegers DEF LenBytes
<1>8. f.code \in Int /\ f.info \in Int
  BY <1>5, <1>7, IntAtType, SmallIntegers DEF LenBytes
<1>9. f.data \in Int
  BY <1>6, <1>8, IntAtType, SmallIntegers DEF LenBytes
<1> QED
  BY <1>2, <1>3, <1>7, <1>8, <1>9 DEF f

(* A string ends before its first zero.                                    *)
LEMMA TextType ==
  ASSUME NEW s \in Seq(ByteValues)
  PROVE  Text(s) \in Seq(ByteValues)
<1> DEFINE zeros == {i \in 1..Len(s) : s[i] = 0}
           k == CHOOSE i \in zeros : \A j \in zeros : i <= j
<1>1. CASE zeros = {}
  BY <1>1 DEF Text
<1>2. CASE zeros # {}
  <2>1. zeros \in SUBSET Nat
    OBVIOUS
  <2> HIDE DEF zeros
  <2>2. k \in zeros
    BY <1>2, <2>1, LeastOf
  <2>3. k \in 1..Len(s) /\ Len(s) \in Nat
    BY <2>2, LenProperties DEF zeros
  <2>4. Text(s) = SubSeq(s, 1, k - 1)
    BY <1>2 DEF Text, zeros
  <2> HIDE DEF k
  <2>5. SubSeq(s, 1, k - 1) \in Seq(ByteValues)
    BY <2>3, Piece
  <2> QED
    BY <2>4, <2>5
<1> QED
  BY <1>1, <1>2

(* A counted field that is inside the vector.                              *)
LEMMA TextOfType ==
  ASSUME NEW b \in Buffers(ByteValues), NEW from \in Nat, NEW to \in Int, NEW size \in Nat,
         Copies(b, from, to, size)
  PROVE  TextOf(b, from, to) \in Seq(ByteValues) /\ to \in Nat /\ to >= from + LenBytes
<1>1. b.bytes \in Seq(ByteValues) /\ Len(b.bytes) \in Nat
  BY BufferType
<1>2. to >= from + 4 /\ to <= Len(b.bytes) /\ to \in Nat
  BY DEF Copies, Size, LenBytes
<1>3. SubSeq(b.bytes, from + 4 + 1, to) \in Seq(ByteValues)
  <2>1. from + 4 + 1 \in Nat \ {0} /\ from + 4 + 1 <= to + 1
    BY <1>2
  <2> QED
    BY <1>1, <1>2, <2>1, Piece
<1> QED
  BY <1>2, <1>3, TextType DEF TextOf, LenBytes

(* What Decode returns is a message.                                       *)
LEMMA ParsedType ==
  ASSUME NEW b \in Buffers(ByteValues), NEW index \in Nat, IsFrame(b, index),
         ~Overruns(b, FrameAt(b, index)), ~ParseError(FrameAt(b, index))
  PROVE  Parsed(b, FrameAt(b, index)) \in TinyProtocol
<1> DEFINE f == FrameAt(b, index)
<1>1. /\ f.id \in Nat /\ f.name \in Int /\ f.code \in Int /\ f.info \in Int
      /\ f.data \in Int /\ f.end \in Nat /\ f.end < b.w
  BY FrameAtType
<1>2. f.info = f.code + LenBytes
  BY DEF FrameAt
<1>3. ~Overruns(b, f) /\ ~ParseError(f)
  OBVIOUS
<1> HIDE DEF f
<1>4. f.id < f.end /\ f.name < f.end /\ f.code < f.end /\ f.info < f.end
  BY <1>1, <1>3 DEF ParseError
<1>5. /\ Copies(b, f.id, f.name, TINYPB_MSG_ID_SIZE)
      /\ Copies(b, f.name, f.code, TINYPB_METHOD_NAME_SIZE)
      /\ Copies(b, f.info, f.data, TINYPB_ERROR_INFO_SIZE)
      /\ DataLen(f) >= 0
  BY <1>1, <1>3, <1>4 DEF Overruns, DataLen, LenBytes
<1>6. TextOf(b, f.id, f.name) \in Seq(ByteValues) /\ f.name \in Nat
  BY <1>1, <1>5, TextOfType DEF TINYPB_MSG_ID_SIZE
<1>7. TextOf(b, f.name, f.code) \in Seq(ByteValues) /\ f.code \in Nat
  BY <1>1, <1>5, <1>6, TextOfType DEF TINYPB_METHOD_NAME_SIZE
<1>8. TextOf(b, f.info, f.data) \in Seq(ByteValues) /\ f.data \in Nat
  <2>1. f.info \in Nat
    BY <1>2, <1>7 DEF LenBytes
  <2> QED
    BY <1>1, <1>5, <2>1, TextOfType DEF TINYPB_ERROR_INFO_SIZE
<1>9. SubSeq(b.bytes, f.data + 1, f.data + DataLen(f)) \in Seq(ByteValues)
  <2>1. b.bytes \in Seq(ByteValues) /\ b.w <= Len(b.bytes) /\ b.w \in Nat /\ Len(b.bytes) \in Nat
    BY BufferType
  <2>2. DataLen(f) \in Nat /\ f.data + DataLen(f) <= Len(b.bytes)
    BY <1>1, <1>5, <1>8, <2>1 DEF DataLen, LenBytes
  <2>3. /\ f.data + 1 \in Nat \ {0} /\ f.data + DataLen(f) \in Nat
        /\ f.data + 1 <= (f.data + DataLen(f)) + 1
    BY <1>8, <2>2
  <2> QED
    BY <2>1, <2>2, <2>3, Piece
<1>10. IntAt(b, f.code) \in Int32
  BY <1>7, IntAtType
<1> QED
  BY <1>6, <1>7, <1>8, <1>9, <1>10 DEF Parsed, TinyProtocol, f

-----------------------------------------------------------------------------
(* The stream.                                                             *)

Bytes == Seq(ByteValues)

(* MoveReadIndex takes what it skips from the front of the content.        *)
LEMMA SkipTakes ==
  ASSUME NEW b \in Buffers(ByteValues), NEW n
  PROVE  /\ MoveReadIndex(b, n) \in Buffers(ByteValues) /\ Skipped(b, n) \in Bytes
         /\ Content(b) \in Bytes /\ Content(MoveReadIndex(b, n)) \in Bytes
         /\ Content(b) = Skipped(b, n) \o Content(MoveReadIndex(b, n))
<1> DEFINE c == Content(b)
           rest == Content(MoveReadIndex(b, n))
<1>1. c \in Bytes /\ Len(c) = ReadRemain(b) /\ Len(c) \in Nat
  BY BufferType DEF Bytes
<1>2. 0 \in ByteValues
  BY DEF ByteValues
<1>3. CASE Skippable(b, n)
  <2>1. n \in 0..ReadRemain(b)
    BY <1>3 DEF Skippable
  <2>2. /\ MoveReadIndex(b, n) \in Buffers(ByteValues) /\ Skipped(b, n) = SubSeq(c, 1, n)
        /\ rest = SubSeq(c, n + 1, Len(c))
    BY <1>2, <1>3, <2>1, AdvanceTakes DEF MoveReadIndex, Skipped
  <2> HIDE DEF c, rest
  <2>3. SubSeq(c, 1, n) \in Bytes /\ SubSeq(c, n + 1, Len(c)) \in Bytes
    BY <1>1, <2>1, Piece DEF Bytes
  <2>4. SubSeq(c, 1, n) \o SubSeq(c, n + 1, Len(c)) = c
    <3>1. n \in 1 - 1 .. Len(c) /\ Len(c) \in n..Len(c) /\ 1 \in 1..Len(c) + 1
      BY <1>1, <2>1
    <3>2. SubSeq(c, 1, n) \o SubSeq(c, n + 1, Len(c)) = SubSeq(c, 1, Len(c))
      BY <1>1, <3>1, ConcatAdjacentSubSeq DEF Bytes
    <3> QED
      BY <1>1, <3>2, SubSeqFull DEF Bytes
  <2> QED
    BY <1>1, <2>2, <2>3, <2>4 DEF c, rest
<1>4. CASE ~Skippable(b, n)
  <2>1. MoveReadIndex(b, n) = b /\ Skipped(b, n) = <<>>
    BY <1>4 DEF MoveReadIndex, Skipped
  <2>2. <<>> \in Bytes /\ <<>> \o c = c
    BY <1>1, EmptySeq, ConcatEmptySeq DEF Bytes
  <2> QED
    BY <1>1, <2>1, <2>2
<1> QED
  BY <1>3, <1>4

(* Joined bytes do not tell how they were joined.                          *)
LEMMA Associates == \A p, q, t \in Bytes : (p \o q) \o t = p \o (q \o t)
  BY ConcatAssociative DEF Bytes

(* The types, and the bytes between the two ends.                          *)
LEMMA EncodeSteps ==
  ASSUME TypeOK, Encode
  PROVE  TypeOK' /\ (BytesConserved => BytesConserved')
<1> DEFINE frame == EncodeTinyPB(Messages[sent + 1])
           a == usedBytes
           b == Content(myRecvBuffer)
           c == wire
           d == Content(mySendBuffer)
<1>1. /\ sent \in Nat /\ sent < Len(Messages) /\ Messages \in Seq(TinyProtocol)
      /\ Len(Messages) \in Nat
  BY MessagesAssumption, LenProperties DEF TypeOK, Encode
<1>2. Messages[sent + 1] \in TinyProtocol
  <2>1. sent + 1 \in 1..Len(Messages)
    BY <1>1
  <2> QED
    BY <1>1, <2>1, ElementOfSeq
<1>3. frame \in Bytes
  BY <1>2, FrameType DEF Bytes
<1>4. /\ mySendBuffer' = WriteToBuffer(mySendBuffer, frame)
      /\ encodedBytes' = encodedBytes \o frame /\ sent' = sent + 1
      /\ UNCHANGED <<shorts, wire, myRecvBuffer, stage, decoded, lost, usedBytes>>
  BY DEF Encode, recvVars
<1> HIDE DEF frame
<1>5. /\ a \in Bytes /\ c \in Bytes /\ encodedBytes \in Bytes
      /\ mySendBuffer \in Buffers(ByteValues) /\ myRecvBuffer \in Buffers(ByteValues)
  BY DEF TypeOK, Bytes
<1>6. b \in Bytes /\ d \in Bytes
  BY <1>5, BufferType DEF Bytes
<1>7. mySendBuffer' \in Buffers(ByteValues) /\ Content(mySendBuffer') = d \o frame
  <2>1. 0 \in ByteValues
    BY DEF ByteValues
  <2> QED
    BY <1>3, <1>4, <1>5, <2>1, WritePuts DEF Bytes
<1>8. encodedBytes' \in Bytes
  BY <1>3, <1>4, <1>5, ConcatProperties DEF Bytes
<1>9. TypeOK'
  <2>1. sent' \in 0..Len(Messages)
    BY <1>1, <1>4
  <2> QED
    BY <1>4, <1>7, <1>8, <2>1 DEF TypeOK, Bytes
<1>10. ASSUME encodedBytes = ((a \o b) \o c) \o d
       PROVE  encodedBytes' = ((a \o b) \o c) \o Content(mySendBuffer')
  <2> DEFINE x == (a \o b) \o c
  <2>1. x \in Bytes
    <3>1. a \o b \in Bytes
      BY <1>5, <1>6, ConcatProperties DEF Bytes
    <3> QED
      BY <1>5, <3>1, ConcatProperties DEF Bytes
  <2> HIDE DEF x
  <2>2. (x \o d) \o frame = x \o (d \o frame)
    BY <1>3, <1>6, <2>1, ConcatAssociative DEF Bytes
  <2> QED
    BY <1>4, <1>7, <1>10, <2>2 DEF x
<1> QED
  BY <1>4, <1>9, <1>10 DEF BytesConserved, Whole

(* write() moves bytes from the buffer to the socket.                      *)
LEMMA WriteSteps ==
  ASSUME TypeOK, WriteAll \/ WriteShort
  PROVE  TypeOK' /\ (BytesConserved => BytesConserved')
<1> DEFINE b == mySendBuffer
           d == Content(mySendBuffer)
           n == ReadRemain(mySendBuffer)
           x == usedBytes \o Content(myRecvBuffer)
<1>1. /\ b \in Buffers(ByteValues) /\ wire \in Bytes /\ usedBytes \in Bytes
      /\ myRecvBuffer \in Buffers(ByteValues) /\ Len(wire) \in Nat
      /\ SocketSize \in Nat /\ Len(wire) <= SocketSize
  BY LenProperties, SizesAssumption DEF TypeOK, Bytes
<1>2. d \in Bytes /\ Len(d) = n /\ n \in Nat
  BY <1>1, BufferType DEF Bytes
<1>3. x \in Bytes
  BY <1>1, BufferType, ConcatProperties DEF Bytes
<1>4. CASE WriteAll
  <2>1. /\ n <= SocketSize - Len(wire) /\ wire' = wire \o d /\ b' = MoveReadIndex(b, n)
        /\ UNCHANGED <<sent, shorts, encodedBytes, myRecvBuffer, stage, decoded, lost, usedBytes>>
    BY <1>1, <1>4 DEF WriteAll, Room, recvVars
  <2>2. wire' \in Bytes /\ Len(wire') <= SocketSize
    <3>1. wire \o d \in Bytes /\ Len(wire \o d) = Len(wire) + Len(d)
      BY <1>1, <1>2, ConcatProperties DEF Bytes
    <3> QED
      BY <1>1, <1>2, <2>1, <3>1
  <2>3. b' \in Buffers(ByteValues) /\ Content(b') = <<>>
    <3>1. /\ b' \in Buffers(ByteValues) /\ d = Skipped(b, n) \o Content(b')
          /\ Content(b') \in Bytes
      BY <1>1, <2>1, SkipTakes
    <3>2. Skipped(b, n) = d
      <4>1. Skippable(b, n)
        BY <1>2 DEF Skippable
      <4>2. b.r + n = b.w
        BY <1>1, BufferType DEF ReadRemain
      <4> QED
        BY <4>1, <4>2 DEF Skipped, Content
    <3> QED
      BY <1>2, <3>1, <3>2, ConcatEqualIffEmpty DEF Bytes
  <2>4. TypeOK'
    BY <2>1, <2>2, <2>3 DEF TypeOK, Bytes
  <2>5. (x \o wire) \o d = (x \o wire') \o <<>>
    <3>1. (x \o wire) \o d = x \o (wire \o d)
      BY <1>1, <1>2, <1>3, Associates
    <3>2. x \o wire' \in Bytes
      BY <1>3, <2>2, ConcatProperties DEF Bytes
    <3> QED
      BY <2>1, <3>1, <3>2, ConcatEmptySeq DEF Bytes
  <2>6. x' = x /\ (x \o wire') \o <<>> = (x' \o wire') \o Content(mySendBuffer')
    BY <2>1, <2>3
  <2> HIDE DEF x, d
  <2>7. encodedBytes = (x \o wire) \o d => encodedBytes' = (x' \o wire') \o Content(mySendBuffer')
    BY <2>1, <2>5, <2>6
  <2> QED
    BY <2>1, <2>4, <2>7 DEF BytesConserved, Whole, x, d
<1>5. CASE WriteShort
  <2>1. /\ 0 < Room /\ Room < n /\ shorts < MaxShort /\ wire' = wire \o SubSeq(d, 1, Room)
        /\ shorts' = shorts + 1
        /\ UNCHANGED <<sent, mySendBuffer, encodedBytes, myRecvBuffer, stage, decoded, lost,
                       usedBytes>>
    BY <1>5 DEF WriteShort, recvVars
  <2>2. Room \in Nat /\ Room <= n /\ Room = SocketSize - Len(wire)
    BY <1>1, <1>2, <2>1 DEF Room
  <2>3. shorts \in Nat /\ MaxShort \in Nat
    BY SizesAssumption DEF TypeOK
  <2>4. shorts' \in 0..MaxShort /\ shorts' # 0
    BY <2>1, <2>3
  <2>5. wire' \in Bytes /\ Len(wire') <= SocketSize
    <3> HIDE DEF d, n
    <3>1. SubSeq(d, 1, Room) \in Bytes /\ Len(SubSeq(d, 1, Room)) = Room - 1 + 1
      BY <1>2, <2>2, Piece DEF Bytes
    <3>2. /\ wire \o SubSeq(d, 1, Room) \in Bytes
          /\ Len(wire \o SubSeq(d, 1, Room)) = Len(wire) + Len(SubSeq(d, 1, Room))
      BY <1>1, <3>1, ConcatProperties DEF Bytes
    <3> QED
      BY <1>1, <2>1, <2>2, <3>1, <3>2
  <2> QED
    BY <2>1, <2>4, <2>5 DEF TypeOK, BytesConserved, Whole, Bytes
<1> QED
  BY <1>4, <1>5

(* read() moves bytes from the socket to the buffer.                       *)
LEMMA ReadSteps ==
  ASSUME TypeOK, Read
  PROVE  TypeOK' /\ (BytesConserved => BytesConserved')
<1> DEFINE b == myRecvBuffer
           d == Content(mySendBuffer)
           c == Content(myRecvBuffer)
           u == usedBytes
           readMax == WriteRemain(Roomy(myRecvBuffer))
<1>1. PICK k \in 1..Len(wire) :
        /\ k <= readMax
        /\ b' = Received(b, SubSeq(wire, 1, k))
        /\ wire' = SubSeq(wire, k + 1, Len(wire))
        /\ stage' = IF k = readMax THEN "read" ELSE "decode"
        /\ lost' = (lost \/ k = readMax)
  BY DEF Read
<1>2. UNCHANGED <<sent, mySendBuffer, shorts, encodedBytes, decoded, usedBytes>>
  BY DEF Read, sendVars
<1>3. /\ b \in Buffers(ByteValues) /\ wire \in Bytes /\ u \in Bytes
      /\ mySendBuffer \in Buffers(ByteValues) /\ Len(wire) \in Nat
      /\ SocketSize \in Nat /\ Len(wire) <= SocketSize
  BY LenProperties, SizesAssumption DEF TypeOK, Bytes
<1>4. c \in Bytes /\ d \in Bytes
  BY <1>3, BufferType DEF Bytes
<1>5. 0 \in ByteValues
  BY DEF ByteValues
<1>6. readMax \in Nat
  BY <1>3, <1>5, RoomyKeeps, BufferType
<1> DEFINE head == SubSeq(wire, 1, k)
           tail == SubSeq(wire, k + 1, Len(wire))
<1>7. /\ head \in Bytes /\ Len(head) = k /\ tail \in Bytes /\ Len(tail) = Len(wire) - k
      /\ head \o tail = wire
  <2>1. head \in Bytes /\ Len(head) = k - 1 + 1
    BY <1>3, Piece DEF Bytes
  <2>2. tail \in Bytes /\ Len(tail) = Len(wire) - (k + 1) + 1
    BY <1>3, Piece DEF Bytes
  <2>3. head \o tail = SubSeq(wire, 1, Len(wire))
    <3>1. 1 \in 1..Len(wire) + 1 /\ k \in 1 - 1 .. Len(wire) /\ Len(wire) \in k..Len(wire)
      BY <1>3
    <3> QED
      BY <1>3, <3>1, ConcatAdjacentSubSeq DEF Bytes
  <2>4. k \in Nat
    OBVIOUS
  <2> HIDE DEF head, tail
  <2> QED
    BY <1>3, <2>1, <2>2, <2>3, <2>4, SubSeqFull DEF Bytes
<1> HIDE DEF head, tail
<1>8. b' = Received(b, head) /\ wire' = tail
  BY <1>1 DEF head, tail
<1>9. /\ b' \in Buffers(ByteValues)
      /\ Content(b') = IF k < readMax THEN c \o head ELSE c
  <2>1. Len(head) <= WriteRemain(Roomy(b)) /\ head \in Seq(ByteValues)
    BY <1>1, <1>7 DEF Bytes
  <2> QED
    BY <1>3, <1>5, <1>7, <1>8, <2>1, ReceivedPuts
<1>10. TypeOK'
  <2>1. stage' \in {"idle", "read", "decode", "undefined"} /\ lost' \in BOOLEAN
    BY <1>1
  <2>2. wire' \in Bytes /\ Len(wire') <= SocketSize
    BY <1>3, <1>7, <1>8
  <2> QED
    BY <1>2, <1>9, <2>1, <2>2 DEF TypeOK, Bytes
<1>11. ASSUME ~lost', encodedBytes = ((u \o c) \o wire) \o d
       PROVE  encodedBytes' = ((u' \o Content(b')) \o wire') \o Content(mySendBuffer')
  <2>1. k < readMax
    <3>1. k # readMax
      BY <1>1, <1>11
    <3> QED
      BY <1>1, <1>6, <3>1
  <2>2. Content(b') = c \o head /\ u' = u
    BY <1>2, <1>9, <2>1
  <2>3. (u \o c) \o wire = (u \o (c \o head)) \o tail
    <3>1. u \o c \in Bytes
      BY <1>3, <1>4, ConcatProperties DEF Bytes
    <3>2. (u \o c) \o (head \o tail) = ((u \o c) \o head) \o tail
      BY <1>7, <3>1, Associates
    <3>3. (u \o c) \o head = u \o (c \o head)
      BY <1>3, <1>4, <1>7, Associates
    <3> QED
      BY <1>7, <3>2, <3>3
  <2>4. Content(mySendBuffer') = d /\ encodedBytes' = encodedBytes
    BY <1>2
  <2> QED
    BY <1>8, <1>11, <2>1, <2>2, <2>3, <2>4
<1>12. ~lost' => ~lost
  BY <1>1
<1> QED
  BY <1>2, <1>10, <1>11, <1>12 DEF BytesConserved, Whole

(* Decode moves the read index, or nothing.                                *)
LEMMA DecodeSteps ==
  ASSUME TypeOK, ReadNothing \/ DecodeEnd \/ DecodeFrame \/ DecodeBeyond
  PROVE  TypeOK' /\ (BytesConserved => BytesConserved')
<1>1. CASE ReadNothing \/ DecodeEnd \/ DecodeBeyond
  <2>1. /\ stage' \in {"idle", "decode", "undefined"}
        /\ UNCHANGED <<sent, mySendBuffer, shorts, encodedBytes, wire, myRecvBuffer, decoded,
                       lost, usedBytes>>
    BY <1>1 DEF ReadNothing, DecodeEnd, DecodeBeyond, sendVars
  <2> QED
    BY <2>1 DEF TypeOK, BytesConserved, Whole
<1>2. CASE DecodeFrame
  <2> DEFINE b == myRecvBuffer
             index == First(myRecvBuffer)
             f == FrameAt(myRecvBuffer, index)
             len == PackageLen(myRecvBuffer, index)
             u == usedBytes
             d == Content(mySendBuffer)
  <2>1. /\ Stops(b) # {} /\ IsFrame(b, index) /\ ~Overruns(b, f) /\ TakeFrame(b, f, len)
        /\ UNCHANGED <<sent, mySendBuffer, shorts, encodedBytes, wire, stage, lost>>
    BY <1>2 DEF DecodeFrame, sendVars
  <2>2. /\ b \in Buffers(ByteValues) /\ wire \in Bytes /\ u \in Bytes
        /\ mySendBuffer \in Buffers(ByteValues) /\ decoded \in Seq(TinyProtocol)
    BY DEF TypeOK, Bytes
  <2>3. index \in Nat
    BY <2>1, <2>2, FirstStops
  <2>4. /\ b' = MoveReadIndex(b, len) /\ u' = u \o Skipped(b, len)
        /\ decoded' = IF ParseError(f) THEN decoded ELSE Append(decoded, Parsed(b, f))
    BY <2>1 DEF TakeFrame
  <2>5. ~ParseError(f) => Parsed(b, f) \in TinyProtocol
    BY <2>1, <2>2, <2>3, ParsedType
  <2> HIDE DEF f, len, index
  <2>6. decoded' \in Seq(TinyProtocol)
    BY <2>2, <2>4, <2>5, AppendProperties
  <2> DEFINE s == Skipped(b, len)
             c == Content(myRecvBuffer)
             e == Content(MoveReadIndex(myRecvBuffer, len))
  <2>7. /\ b' \in Buffers(ByteValues) /\ s \in Bytes /\ c \in Bytes /\ e \in Bytes
        /\ c = s \o e
    BY <2>2, <2>4, SkipTakes
  <2>8. u' \in Bytes
    BY <2>2, <2>4, <2>7, ConcatProperties DEF Bytes
  <2>9. TypeOK'
    BY <2>1, <2>6, <2>7, <2>8 DEF TypeOK, Bytes
  <2>10. Content(b') = e /\ u' = u \o s
    BY <2>4
  <2> HIDE DEF s, c, e, u
  <2>11. u \o c = (u \o s) \o e
    <3>1. (u \o s) \o e = u \o (s \o e)
      BY <2>2, <2>7, Associates
    <3> QED
      BY <2>7, <3>1
  <2>12. u \o c = u' \o Content(b')
    BY <2>10, <2>11
  <2> QED
    BY <2>1, <2>9, <2>12 DEF BytesConserved, Whole, u, c
<1> QED
  BY <1>1, <1>2

(* Each step keeps both.                                                   *)
LEMMA StreamSteps ==
  TypeOK /\ [Next]_vars => TypeOK' /\ (BytesConserved => BytesConserved')
<1> SUFFICES ASSUME TypeOK, [Next]_vars
             PROVE  TypeOK' /\ (BytesConserved => BytesConserved')
  OBVIOUS
<1>1. CASE UNCHANGED vars
  BY <1>1 DEF vars, sendVars, recvVars, TypeOK, BytesConserved, Whole
<1>2. CASE Sender
  BY <1>2, EncodeSteps, WriteSteps DEF Sender
<1>3. CASE Receiver
  BY <1>3, ReadSteps, DecodeSteps DEF Receiver
<1> QED
  BY <1>1, <1>2, <1>3 DEF Next

(* Nothing has been sent.                                                  *)
LEMMA StreamStarts == Init => TypeOK /\ BytesConserved
<1> SUFFICES ASSUME Init PROVE TypeOK /\ BytesConserved
  OBVIOUS
<1>1. /\ SendSize \in Nat /\ RecvSize \in Nat /\ MaxShort \in Nat /\ SocketSize \in Nat
      /\ Len(Messages) \in Nat
  BY SizesAssumption, MessagesAssumption, LenProperties
<1>2. ASSUME NEW size \in Nat
      PROVE  NewBuffer(size) \in Buffers(ByteValues) /\ Content(NewBuffer(size)) = <<>>
  <2>1. Zeros(size) \in Seq(ByteValues) /\ Len(Zeros(size)) = size
    BY DEF Zeros, ByteValues
  <2>2. Content(NewBuffer(size)) = SubSeq(Zeros(size), 1, 0)
    BY DEF NewBuffer, Content
  <2> QED
    BY <2>1, <2>2, SubSeqEmpty DEF NewBuffer, Buffers
<1>3. <<>> \in Seq(ByteValues) /\ <<>> \in Seq(TinyProtocol) /\ Len(<<>>) = 0
  BY EmptySeq
<1>4. TypeOK
  <2>1. sent \in 0..Len(Messages) /\ shorts \in 0..MaxShort
    BY <1>1 DEF Init
  <2>2. mySendBuffer \in Buffers(ByteValues) /\ myRecvBuffer \in Buffers(ByteValues)
    BY <1>1, <1>2 DEF Init
  <2>3. Len(wire) <= SocketSize
    BY <1>1, <1>3 DEF Init
  <2>4. lost \in BOOLEAN /\ stage \in {"idle", "read", "decode", "undefined"}
    BY DEF Init
  <2> QED
    BY <1>3, <2>1, <2>2, <2>3, <2>4 DEF Init, TypeOK
<1>5. <<>> \o <<>> = <<>>
  BY <1>3, ConcatEmptySeq
<1> QED
  BY <1>1, <1>2, <1>4, <1>5 DEF Init, BytesConserved

(* Every message that Decode returns has the fields of one, and the indices of
   both buffers stay within their vectors: for messages of any content and
   buffers of any size.                                                    *)
THEOREM TypeCorrect == Spec => []TypeOK
<1>1. Init => TypeOK
  BY StreamStarts
<1>2. TypeOK /\ [Next]_vars => TypeOK'
  BY StreamSteps
<1> QED
  BY <1>1, <1>2, PTL DEF Spec

(* For any messages, buffers and socket: the bytes that were encoded are those
   that Decode has moved over, those in the receiving buffer, those in the
   socket and those in the sending buffer, in this order, none twice and none
   left out, as long as no read fills the buffer exactly (tcp_buffer.cc:150) and
   no write is cut short (tcp_connection.cc:268).                          *)
THEOREM BytesAreConserved == Spec => []BytesConserved
<1>1. Init => TypeOK /\ BytesConserved
  BY StreamStarts
<1>2. TypeOK /\ BytesConserved /\ [Next]_vars => (TypeOK /\ BytesConserved)'
  BY StreamSteps
<1> QED
  BY <1>1, <1>2, PTL DEF Spec

-----------------------------------------------------------------------------
(* What Decode reads of a frame.                                           *)

(* The bytes of q are in s, behind the first p.                            *)
Holds(s, p, q) == p + Len(q) <= Len(s) /\ \A i \in 1..Len(q) : s[p + i] = q[i]

(* Both parts of what is held are held.                                    *)
LEMMA HoldsParts ==
  ASSUME NEW s \in Bytes, NEW p \in Nat, NEW q \in Bytes, NEW t \in Bytes, Holds(s, p, q \o t)
  PROVE  Holds(s, p, q) /\ Holds(s, p + Len(q), t)
<1>1. /\ Len(q \o t) = Len(q) + Len(t) /\ Len(q) \in Nat /\ Len(t) \in Nat /\ Len(s) \in Nat
      /\ \A i \in 1..Len(q) : (q \o t)[i] = q[i]
      /\ \A i \in 1..Len(t) : (q \o t)[Len(q) + i] = t[i]
  BY ConcatProperties, LenProperties DEF Bytes
<1>2. p + (Len(q) + Len(t)) <= Len(s) /\ \A i \in 1..(Len(q) + Len(t)) : s[p + i] = (q \o t)[i]
  BY <1>1 DEF Holds
<1>3. ASSUME NEW i \in 1..Len(q) PROVE s[p + i] = q[i]
  <2>1. i \in 1..(Len(q) + Len(t))
    BY <1>1
  <2> QED
    BY <1>1, <1>2, <2>1
<1>4. ASSUME NEW i \in 1..Len(t) PROVE s[(p + Len(q)) + i] = t[i]
  <2>1. Len(q) + i \in 1..(Len(q) + Len(t)) /\ p + (Len(q) + i) = (p + Len(q)) + i
    BY <1>1
  <2> QED
    BY <1>1, <1>2, <2>1
<1>5. p + Len(q) <= Len(s) /\ (p + Len(q)) + Len(t) <= Len(s)
  BY <1>1, <1>2
<1> QED
  BY <1>3, <1>4, <1>5 DEF Holds

(* What is held is a piece.                                                *)
LEMMA HoldsPiece ==
  ASSUME NEW s \in Bytes, NEW p \in Nat, NEW q \in Bytes, Holds(s, p, q)
  PROVE  SubSeq(s, p + 1, p + Len(q)) = q
<1> DEFINE x == SubSeq(s, p + 1, p + Len(q))
<1>1. Len(q) \in Nat /\ Len(s) \in Nat /\ p + Len(q) <= Len(s)
  BY LenProperties DEF Bytes, Holds
<1>2. x \in Bytes /\ Len(x) = Len(q) /\ \A i \in 1..Len(q) : x[i] = s[p + i]
  <2>1. p + 1 \in Nat \ {0} /\ p + Len(q) \in Nat /\ p + 1 <= (p + Len(q)) + 1
    BY <1>1
  <2>2. /\ x \in Seq(ByteValues) /\ Len(x) = (p + Len(q)) - (p + 1) + 1
        /\ \A i \in 1..((p + Len(q)) - (p + 1) + 1) : x[i] = s[(p + 1) + i - 1]
    BY <1>1, <2>1, Piece DEF Bytes
  <2>3. (p + Len(q)) - (p + 1) + 1 = Len(q) /\ \A i \in Nat : (p + 1) + i - 1 = p + i
    BY <1>1
  <2> HIDE DEF x
  <2>4. \A i \in 1..Len(q) : x[i] = s[(p + 1) + i - 1] /\ i \in Nat
    BY <2>2, <2>3
  <2>5. \A i \in 1..Len(q) : x[i] = s[p + i]
    BY <2>3, <2>4
  <2> QED
    BY <2>2, <2>3, <2>5 DEF Bytes
<1> HIDE DEF x
<1>3. \A i \in 1..Len(q) : x[i] = q[i]
  BY <1>2 DEF Holds
<1> QED
  BY <1>2, <1>3, SeqEqual DEF x, Bytes

(* A number is its quotient and its remainder.                             *)
LEMMA Whole256 ==
  ASSUME NEW n \in Int, NEW q \in Int, q = n \div 256, NEW x \in Int, x = n % 256
  PROVE  n = q * 256 + x
  BY SMT

(* Quotients of quotients.                                                 *)
LEMMA Quotients ==
  ASSUME NEW n \in Int
  PROVE  /\ (n \div 256) \div 256 = n \div 65536
         /\ (n \div 65536) \div 256 = n \div 16777216
         /\ n \div 256 \in Int /\ n \div 65536 \in Int /\ n \div 16777216 \in Int
         /\ n % 256 \in Int
<1>1. (n \div 256) \div 256 = n \div 65536
  BY SMT
<1>2. (n \div 65536) \div 256 = n \div 16777216
  BY SMT
<1>3. n \div 256 \in Int /\ n \div 65536 \in Int /\ n \div 16777216 \in Int
  BY SMT
<1>4. n % 256 \in Int
  BY SMT
<1> QED
  BY <1>1, <1>2, <1>3, <1>4

(* An integer is its four digits, the first signed.                        *)
LEMMA Digits ==
  ASSUME NEW n \in Int
  PROVE  n = Weighed(n \div 16777216, (n \div 65536) % 256, (n \div 256) % 256, n % 256)
<1>1. PICK q \in Int, m \in Int, t \in Int :
        q = n \div 256 /\ m = n \div 65536 /\ t = n \div 16777216
  BY Quotients
<1>2. PICK x \in Int, y \in Int, z \in Int : x = n % 256 /\ y = q % 256 /\ z = m % 256
  BY Quotients
<1>3. q \div 256 = m /\ m \div 256 = t
  BY <1>1, Quotients
<1>4. n = q * 256 + x
  BY SMT, <1>1, <1>2, Whole256
<1>5. q = m * 256 + y
  BY SMT, <1>2, <1>3, Whole256
<1>6. m = t * 256 + z
  BY SMT, <1>2, <1>3, Whole256
<1>7. n = Weighed(t, z, y, x)
  BY SMT, <1>4, <1>5, <1>6 DEF Weighed
<1> QED
  BY SMT, <1>1, <1>2, <1>7

(* What four bytes say.                                                    *)
LEMMA ReadFour ==
  ASSUME NEW a, NEW b, NEW c, NEW d
  PROVE  GetInt32FromNetByte(<<a, b, c, d>>) = Weighed(Signed(a), b, c, d)
<1>1. /\ <<a, b, c, d>>[1] = a /\ <<a, b, c, d>>[2] = b /\ <<a, b, c, d>>[3] = c
      /\ <<a, b, c, d>>[4] = d
  OBVIOUS
<1> QED
  BY SMT, <1>1 DEF GetInt32FromNetByte, Weighed

(* An integer is what its four bytes say.                                  *)
LEMMA RoundTrip ==
  ASSUME NEW n \in Int32
  PROVE  GetInt32FromNetByte(NetBytes(n)) = n
<1>1. n \in Int /\ -2147483648 <= n /\ n <= 2147483647
  BY SMT, SmallIntegers
<1>2. n = Weighed(n \div 16777216, (n \div 65536) % 256, (n \div 256) % 256, n % 256)
  BY <1>1, Digits
<1>3. -128 <= n \div 16777216 /\ n \div 16777216 <= 127 /\ n \div 16777216 \in Int
  BY SMT, <1>1
<1>4. \A e \in Int : -128 <= e /\ e <= 127 => Signed(e % 256) = e
  BY SMT DEF Signed
<1>5. Signed((n \div 16777216) % 256) = n \div 16777216
  BY SMT, <1>3, <1>4
<1>6. GetInt32FromNetByte(NetBytes(n))
        = Weighed(Signed((n \div 16777216) % 256), (n \div 65536) % 256, (n \div 256) % 256,
                  n % 256)
  BY SMT, ReadFour DEF NetBytes
<1> QED
  BY SMT, <1>2, <1>5, <1>6

(* A field has four bytes.                                                 *)
LEMMA FourLong == \A n \in Int : NetBytes(n) \in Bytes /\ Len(NetBytes(n)) = 4
<1>1. ASSUME NEW n \in Int PROVE NetBytes(n) \in Bytes /\ Len(NetBytes(n)) = 4
  <2>1. NetBytes(n) \in Bytes
    BY FourBytes DEF Bytes
  <2>2. Len(NetBytes(n)) = 4
    BY SMT DEF NetBytes
  <2> QED
    BY <2>1, <2>2
<1> QED
  BY <1>1

(* An integer that is in the vector is read.                               *)
LEMMA ReadBack ==
  ASSUME NEW b \in Buffers(ByteValues), NEW i \in Nat, NEW n \in Int32,
         Holds(b.bytes, i, NetBytes(n))
  PROVE  /\ i + 4 <= Size(b) /\ IntAt(b, i) = n
         /\ GetInt32FromNetByte(SubSeq(b.bytes, i + 1, i + 4)) = n
<1>1. /\ b.bytes \in Bytes /\ Size(b) = Len(b.bytes) /\ Size(b) \in Nat /\ n \in Int
      /\ NetBytes(n) \in Bytes /\ Len(NetBytes(n)) = 4
  BY BufferType, FourLong, SmallIntegers DEF Size, Bytes
<1>2. SubSeq(b.bytes, i + 1, i + 4) = NetBytes(n)
  BY <1>1, HoldsPiece
<1>3. GetInt32FromNetByte(SubSeq(b.bytes, i + 1, i + 4)) = n
  BY <1>2, RoundTrip
<1>4. i + 4 <= Size(b) /\ i \in 0..(Size(b) - 4)
  BY <1>1 DEF Holds
<1> QED
  BY <1>3, <1>4 DEF IntAt, LenBytes

(* Two sequences make one.                                                 *)
LEMMA Joined ==
  ASSUME NEW x \in Bytes, NEW y \in Bytes
  PROVE  \E z \in Bytes : z = x \o y /\ Len(z) = Len(x) + Len(y)
<1>1. x \o y \in Bytes /\ Len(x \o y) = Len(x) + Len(y)
  BY ConcatProperties DEF Bytes
<1> QED
  BY Zenon, <1>1

(* The fields between the length of the whole and the end sign.            *)
LEMMA HoldsFields ==
  ASSUME NEW s \in Bytes, NEW p \in Nat, NEW m \in TinyProtocol, Holds(s, p, Fields(m))
  PROVE  LET i == Len(m.myMessageID)
             a == Len(m.myMethodName)
             e == Len(m.myErrorInfo)
             d == Len(m.myPBData)
         IN  /\ i \in Nat /\ a \in Nat /\ e \in Nat /\ d \in Nat
             /\ Fields(m) \in Bytes /\ Len(Fields(m)) = 20 + i + a + e + d
             /\ Holds(s, p, NetBytes(i)) /\ Holds(s, p + 4, m.myMessageID)
             /\ Holds(s, p + 4 + i, NetBytes(a)) /\ Holds(s, p + 8 + i, m.myMethodName)
             /\ Holds(s, p + 8 + i + a, NetBytes(m.myErrorCode))
             /\ Holds(s, p + 12 + i + a, NetBytes(e)) /\ Holds(s, p + 16 + i + a, m.myErrorInfo)
             /\ Holds(s, p + 16 + i + a + e, m.myPBData)
<1>1. PICK id \in Bytes, name \in Bytes, info \in Bytes, data \in Bytes :
        /\ id = m.myMessageID /\ name = m.myMethodName /\ info = m.myErrorInfo
        /\ data = m.myPBData
  BY DEF TinyProtocol, Bytes
<1>2. PICK i \in Nat, a \in Nat, e \in Nat, d \in Nat :
        i = Len(id) /\ a = Len(name) /\ e = Len(info) /\ d = Len(data)
  BY LenProperties DEF Bytes
<1>3. m.myErrorCode \in Int /\ CheckSum \in Int
  BY SmallIntegers DEF TinyProtocol, CheckSum
<1>4. PICK ni \in Bytes, na \in Bytes, ne \in Bytes, nc \in Bytes, ns \in Bytes :
        /\ ni = NetBytes(i) /\ na = NetBytes(a) /\ ne = NetBytes(e)
        /\ nc = NetBytes(m.myErrorCode) /\ ns = NetBytes(CheckSum)
        /\ Len(ni) = 4 /\ Len(na) = 4 /\ Len(ne) = 4 /\ Len(nc) = 4 /\ Len(ns) = 4
  BY <1>3, FourLong
<1>5. PICK x1 \in Bytes : x1 = ni \o id /\ Len(x1) = Len(ni) + Len(id)
  BY Joined
<1>6. PICK x2 \in Bytes : x2 = na \o name /\ Len(x2) = Len(na) + Len(name)
  BY Joined
<1>7. PICK x3 \in Bytes : x3 = ne \o info /\ Len(x3) = Len(ne) + Len(info)
  BY Joined
<1>8. PICK y2 \in Bytes : y2 = x1 \o x2 /\ Len(y2) = Len(x1) + Len(x2)
  BY Joined
<1>9. PICK y3 \in Bytes : y3 = y2 \o nc /\ Len(y3) = Len(y2) + Len(nc)
  BY Joined
<1>10. PICK y4 \in Bytes : y4 = y3 \o x3 /\ Len(y4) = Len(y3) + Len(x3)
  BY Joined
<1>11. PICK y5 \in Bytes : y5 = y4 \o data /\ Len(y5) = Len(y4) + Len(data)
  BY Joined
<1>12. /\ Len(x1) = 4 + i /\ Len(x2) = 4 + a /\ Len(x3) = 4 + e /\ Len(y2) = 8 + i + a
       /\ Len(y3) = 12 + i + a /\ Len(y4) = 16 + i + a + e
       /\ Len(y5) = 16 + i + a + e + d
  BY <1>2, <1>4, <1>5, <1>6, <1>7, <1>8, <1>9, <1>10, <1>11
<1>13. Fields(m) = y5 \o ns
  BY <1>1, <1>2, <1>4, <1>5, <1>6, <1>7, <1>8, <1>9, <1>10, <1>11 DEF Fields, Counted
<1>14. Fields(m) \in Bytes /\ Len(Fields(m)) = 20 + i + a + e + d
  <2>1. y5 \o ns \in Bytes /\ Len(y5 \o ns) = Len(y5) + Len(ns)
    BY ConcatProperties DEF Bytes
  <2> QED
    BY <1>4, <1>12, <1>13, <2>1
<1>15. Holds(s, p, y5)
  BY <1>13, HoldsParts
<1>16. Holds(s, p, y4) /\ Holds(s, p + (16 + i + a + e), data)
  BY <1>11, <1>12, <1>15, HoldsParts
<1>17. Holds(s, p, y3) /\ Holds(s, p + (12 + i + a), x3)
  BY <1>10, <1>12, <1>16, HoldsParts
<1>18. Holds(s, p, y2) /\ Holds(s, p + (8 + i + a), nc)
  BY <1>9, <1>12, <1>17, HoldsParts
<1>19. Holds(s, p, x1) /\ Holds(s, p + (4 + i), x2)
  BY <1>8, <1>12, <1>18, HoldsParts
<1>20. Holds(s, p, ni) /\ Holds(s, p + 4, id)
  BY <1>4, <1>5, <1>19, HoldsParts
<1>21. Holds(s, p + (4 + i), na) /\ Holds(s, (p + (4 + i)) + 4, name)
  <2>1. p + (4 + i) \in Nat
    OBVIOUS
  <2> QED
    BY <1>4, <1>6, <1>19, <2>1, HoldsParts
<1>22. Holds(s, p + (12 + i + a), ne) /\ Holds(s, (p + (12 + i + a)) + 4, info)
  <2>1. p + (12 + i + a) \in Nat
    OBVIOUS
  <2> QED
    BY <1>4, <1>7, <1>17, <2>1, HoldsParts
<1>23. /\ p + (16 + i + a + e) = p + 16 + i + a + e /\ p + (8 + i + a) = p + 8 + i + a
       /\ p + (4 + i) = p + 4 + i /\ (p + (4 + i)) + 4 = p + 8 + i
       /\ p + (12 + i + a) = p + 12 + i + a /\ (p + (12 + i + a)) + 4 = p + 16 + i + a
  OBVIOUS
<1> QED
  BY <1>1, <1>2, <1>4, <1>14, <1>16, <1>18, <1>20, <1>21, <1>22, <1>23

(* A whole frame.                                                          *)
LEMMA HoldsFrame ==
  ASSUME NEW s \in Bytes, NEW p \in Nat, NEW m \in TinyProtocol, Holds(s, p, EncodeTinyPB(m))
  PROVE  LET n == Named(m)
             len == Len(EncodeTinyPB(m))
         IN  /\ n \in TinyProtocol
             /\ Holds(s, p, <<PB_START>>) /\ Holds(s, p + 1, NetBytes(len))
             /\ Holds(s, p + 5, Fields(n)) /\ len = Len(Fields(n)) + 6
             /\ Holds(s, p + len - 1, <<PB_END>>)
<1>1. PICK n \in TinyProtocol : n = Named(m)
  BY NamedType
<1>2. Fields(n) \in Bytes
  BY <1>1, FieldsType DEF Bytes
<1>3. PICK fields \in Bytes : fields = Fields(n)
  BY Zenon, <1>2
<1>4. PICK l \in Nat : l = Len(fields) /\ Len(fields) + LenBytes + 2 = l + 6
  BY LenProperties DEF Bytes, LenBytes
<1>5. PICK nl \in Bytes : nl = NetBytes(l + 6) /\ Len(nl) = 4
  BY FourLong
<1>6. <<PB_START>> \in Bytes /\ <<PB_END>> \in Bytes
  BY DEF PB_START, PB_END, ByteValues, Bytes
<1>7. PICK st \in Bytes, en \in Bytes : st = <<PB_START>> /\ en = <<PB_END>>
  BY Zenon, <1>6
<1>8. Len(st) = 1 /\ Len(en) = 1
  BY <1>7
<1>9. PICK x1 \in Bytes : x1 = st \o nl /\ Len(x1) = Len(st) + Len(nl)
  BY Joined
<1>10. PICK x2 \in Bytes : x2 = x1 \o fields /\ Len(x2) = Len(x1) + Len(fields)
  BY Joined
<1>11. Len(x1) = 5 /\ Len(x2) = 5 + l
  <2>1. Len(x1) = Len(st) + Len(nl) /\ Len(x2) = Len(x1) + Len(fields)
    BY Zenon, <1>9, <1>10
  <2>2. Len(st) = 1 /\ Len(nl) = 4 /\ Len(fields) = l
    BY Zenon, <1>4, <1>5, <1>8
  <2> QED
    BY <2>1, <2>2
<1>12. EncodeTinyPB(m) = x2 \o en
  <2>1. /\ EncodeTinyPB(m) = ((<<PB_START>> \o NetBytes(Len(Fields(n)) + LenBytes + 2))
                               \o Fields(n)) \o <<PB_END>>
    BY Zenon, <1>1 DEF EncodeTinyPB
  <2>2. NetBytes(Len(Fields(n)) + LenBytes + 2) = nl
    BY Zenon, <1>3, <1>4, <1>5
  <2> QED
    BY Zenon, <1>3, <1>7, <1>9, <1>10, <2>1, <2>2
<1>13. Len(EncodeTinyPB(m)) = l + 6
  <2>1. Len(x2 \o en) = Len(x2) + Len(en)
    BY ConcatProperties DEF Bytes
  <2> QED
    BY <1>8, <1>11, <1>12, <2>1
<1>14. Holds(s, p, x2) /\ Holds(s, p + (5 + l), en)
  <2>1. Holds(s, p, x2 \o en)
    BY <1>12
  <2> QED
    BY <1>11, <2>1, HoldsParts
<1>15. Holds(s, p, x1) /\ Holds(s, p + 5, fields)
  BY <1>10, <1>11, <1>14, HoldsParts
<1>16. Holds(s, p, st) /\ Holds(s, p + 1, nl)
  BY <1>8, <1>9, <1>15, HoldsParts
<1>17. p + (5 + l) = p + (l + 6) - 1
  OBVIOUS
<1> QED
  BY <1>1, <1>3, <1>4, <1>5, <1>7, <1>13, <1>14, <1>15, <1>16, <1>17

(* The length of a frame that is in the vector is read.                    *)
LEMMA LengthRead ==
  ASSUME NEW b \in Buffers(ByteValues), NEW p \in Nat, NEW len \in Nat, len <= MaxInt32,
         Holds(b.bytes, p + 1, NetBytes(len))
  PROVE  p + 5 <= Size(b) /\ PackageLen(b, p) = len
<1>1. len \in Int32
  <2>1. MaxInt32 \in Int
    BY SMT DEF MaxInt32
  <2> QED
    BY SMT, <2>1, SmallIntegers DEF MaxInt32
<1>2. /\ (p + 1) + 4 <= Size(b)
      /\ GetInt32FromNetByte(SubSeq(b.bytes, (p + 1) + 1, (p + 1) + 4)) = len
  BY <1>1, ReadBack
<1>3. (p + 1) + 1 = p + 2 /\ (p + 1) + 4 = p + 1 + LenBytes /\ (p + 1) + 4 = p + 5
  BY DEF LenBytes
<1>4. Size(b) \in Nat
  BY BufferType DEF Size
<1> QED
  BY <1>2, <1>3, <1>4 DEF PackageLen

(* A frame that has arrived is recognized by its two signs.                *)
LEMMA FrameSeen ==
  ASSUME NEW b \in Buffers(ByteValues), NEW p \in Nat, NEW m \in TinyProtocol,
         Holds(b.bytes, p, EncodeTinyPB(m)), Len(EncodeTinyPB(m)) <= MaxInt32,
         p + Len(EncodeTinyPB(m)) <= b.w
  PROVE  /\ PackageLen(b, p) = Len(EncodeTinyPB(m)) /\ Len(EncodeTinyPB(m)) >= 26
         /\ IsFrame(b, p)
<1>1. PICK len \in Nat : len = Len(EncodeTinyPB(m))
  BY FrameType, LenProperties
<1>2. /\ b.bytes \in Bytes /\ b.w \in Nat /\ b.w <= Size(b) /\ Size(b) = Len(b.bytes)
      /\ Size(b) \in Nat
  BY BufferType DEF Bytes, Size
<1>3. /\ Named(m) \in TinyProtocol
      /\ Holds(b.bytes, p, <<PB_START>>) /\ Holds(b.bytes, p + 1, NetBytes(len))
      /\ Holds(b.bytes, p + 5, Fields(Named(m))) /\ len = Len(Fields(Named(m))) + 6
      /\ Holds(b.bytes, p + len - 1, <<PB_END>>)
  BY <1>1, <1>2, HoldsFrame
<1>4. len >= 26
  <2>1. p + 5 \in Nat
    OBVIOUS
  <2>2. PICK n \in TinyProtocol : n = Named(m)
    BY <1>3
  <2>3. /\ Len(n.myMessageID) \in Nat /\ Len(n.myMethodName) \in Nat
        /\ Len(n.myErrorInfo) \in Nat /\ Len(n.myPBData) \in Nat
        /\ Len(Fields(n)) = 20 + Len(n.myMessageID) + Len(n.myMethodName)
                              + Len(n.myErrorInfo) + Len(n.myPBData)
    BY <1>2, <1>3, <2>1, <2>2, HoldsFields
  <2>4. PICK i \in Nat, a \in Nat, e \in Nat, d \in Nat :
          Len(Fields(n)) = 20 + i + a + e + d
    BY Zenon, <2>3
  <2>5. len = Len(Fields(n)) + 6
    BY Zenon, <1>3, <2>2
  <2> QED
    BY <2>4, <2>5
<1>5. PackageLen(b, p) = len /\ p + 5 <= Size(b)
  BY <1>1, <1>3, LengthRead
<1>6. \A q \in Nat : \A v : Holds(b.bytes, q, <<v>>) => Byte(b, q) = v
  BY DEF Holds, Byte
<1>7. Byte(b, p) = PB_START
  BY <1>3, <1>6
<1>8. Byte(b, p + len - 1) = PB_END
  <2>1. p + len - 1 \in Nat
    BY <1>4
  <2> QED
    BY <1>3, <1>6, <2>1
<1>9. MayStart(b, p)
  BY <1>1, <1>2, <1>4, <1>7 DEF MayStart
<1>10. EndAt(b, p) = p + len - 1
  BY <1>5 DEF EndAt
<1>11. ~LooksBeyond(b, p)
  BY <1>2, <1>4, <1>5, <1>10 DEF LooksBeyond, LenBytes
<1>12. IsFrame(b, p)
  BY <1>1, <1>2, <1>4, <1>8, <1>9, <1>10, <1>11 DEF IsFrame
<1> QED
  BY <1>1, <1>4, <1>5, <1>12

(* A text without a zero is copied as it is.                               *)
LEMMA TextRead ==
  ASSUME NEW b \in Buffers(ByteValues), NEW from \in Nat, NEW to \in Nat, NEW s \in Bytes,
         Holds(b.bytes, from + 4, s), Text(s) = s, to = from + 4 + Len(s)
  PROVE  TextOf(b, from, to) = s
<1>1. b.bytes \in Bytes /\ from + 4 \in Nat
  BY BufferType DEF Bytes
<1>2. SubSeq(b.bytes, (from + 4) + 1, (from + 4) + Len(s)) = s
  BY <1>1, HoldsPiece
<1>3. SubSeq(b.bytes, from + LenBytes + 1, to) = s
  BY <1>2 DEF LenBytes
<1> QED
  BY <1>3 DEF TextOf

(* No zero in a text.                                                      *)
Printable(m) == /\ Text(m.myMessageID) = m.myMessageID
                /\ Text(m.myMethodName) = m.myMethodName
                /\ Text(m.myErrorInfo) = m.myErrorInfo

(* The texts of a message fit into the local arrays of Decode.             *)
Fits(m) == /\ Len(m.myMessageID) < TINYPB_MSG_ID_SIZE
           /\ Len(m.myMethodName) < TINYPB_METHOD_NAME_SIZE
           /\ Len(m.myErrorInfo) < TINYPB_ERROR_INFO_SIZE

(* Decode is the inverse of EncodeTinyPB: a frame that has arrived, wherever
   it is in the buffer and whatever is behind it, is not refused, and gives
   the message it was made of, with the identifier it was given if it had
   none; and nothing is copied from outside the vector or beyond the local
   arrays, if they are as large as the texts.                              *)
THEOREM DecodeInvertsEncode ==
  ASSUME NEW b \in Buffers(ByteValues), NEW p \in Nat, NEW m \in TinyProtocol,
         Holds(b.bytes, p, EncodeTinyPB(m)), Len(EncodeTinyPB(m)) <= MaxInt32,
         p + Len(EncodeTinyPB(m)) <= b.w, Printable(Named(m))
  PROVE  /\ ~ParseError(FrameAt(b, p))
         /\ Parsed(b, FrameAt(b, p)) = Named(m)
         /\ Fits(Named(m)) => ~Overruns(b, FrameAt(b, p))
<1>1. PICK len \in Nat : len = Len(EncodeTinyPB(m))
  BY FrameType, LenProperties
<1>2. PICK n \in TinyProtocol : n = Named(m)
  BY NamedType
<1>3. b.bytes \in Bytes /\ p + 5 \in Nat
  BY BufferType DEF Bytes
<1>4. Holds(b.bytes, p + 5, Fields(n)) /\ len = Len(Fields(n)) + 6
  BY <1>1, <1>2, <1>3, HoldsFrame
<1>5. PICK id \in Bytes, name \in Bytes, info \in Bytes, data \in Bytes :
        /\ id = n.myMessageID /\ name = n.myMethodName /\ info = n.myErrorInfo
        /\ data = n.myPBData
  BY DEF TinyProtocol, Bytes
<1>6. PICK i \in Nat, a \in Nat, e \in Nat, d \in Nat :
        i = Len(id) /\ a = Len(name) /\ e = Len(info) /\ d = Len(data)
  BY LenProperties DEF Bytes
<1>7. PICK q \in Nat : q = p + 5
  BY <1>3
<1>8. /\ Len(Fields(n)) = 20 + i + a + e + d
      /\ Holds(b.bytes, q, NetBytes(i)) /\ Holds(b.bytes, q + 4, id)
      /\ Holds(b.bytes, q + 4 + i, NetBytes(a)) /\ Holds(b.bytes, q + 8 + i, name)
      /\ Holds(b.bytes, q + 8 + i + a, NetBytes(n.myErrorCode))
      /\ Holds(b.bytes, q + 12 + i + a, NetBytes(e)) /\ Holds(b.bytes, q + 16 + i + a, info)
      /\ Holds(b.bytes, q + 16 + i + a + e, data)
  BY <1>3, <1>4, <1>5, <1>6, <1>7, HoldsFields
<1>9. len = 26 + i + a + e + d
  BY <1>4, <1>8
<1>10. i \in Int32 /\ a \in Int32 /\ e \in Int32
  <2>1. i <= MaxInt32 /\ a <= MaxInt32 /\ e <= MaxInt32
    <3>1. MaxInt32 \in Int
      BY SMT DEF MaxInt32
    <3> QED
      BY <1>1, <1>9, <3>1
  <2> QED
    BY SMT, <2>1, SmallIntegers DEF MaxInt32
<1>11. n.myErrorCode \in Int32
  BY DEF TinyProtocol
<1>12. IntAt(b, q) = i
  BY <1>8, <1>10, ReadBack
<1>13. IntAt(b, q + 4 + i) = a
  BY <1>8, <1>10, ReadBack
<1>14. IntAt(b, q + 8 + i + a) = n.myErrorCode
  BY <1>8, <1>11, ReadBack
<1>15. IntAt(b, q + 12 + i + a) = e
  BY <1>8, <1>10, ReadBack
<1>16. PICK f : f = FrameAt(b, p)
  OBVIOUS
<1>17. f.id = q
  BY <1>7, <1>16 DEF FrameAt, LenBytes
<1>18. f.name = q + 4 + i
  <2>1. f.name = f.id + LenBytes + IntAt(b, f.id)
    BY <1>16 DEF FrameAt
  <2> QED
    BY <1>12, <1>17, <2>1 DEF LenBytes
<1>19. f.code = q + 8 + i + a
  <2>1. f.code = f.name + LenBytes + IntAt(b, f.name)
    BY <1>16 DEF FrameAt
  <2> QED
    BY <1>13, <1>18, <2>1 DEF LenBytes
<1>20. f.info = q + 12 + i + a
  <2>1. f.info = f.code + LenBytes
    BY <1>16 DEF FrameAt
  <2> QED
    BY <1>19, <2>1 DEF LenBytes
<1>21. f.data = q + 16 + i + a + e
  <2>1. f.data = f.info + LenBytes + IntAt(b, f.info)
    BY <1>16 DEF FrameAt
  <2> QED
    BY <1>15, <1>20, <2>1 DEF LenBytes
<1>22. f.end = p + len - 1 /\ f.end = q + 20 + i + a + e + d
  <2>1. PackageLen(b, p) = len
    BY <1>1, FrameSeen
  <2>2. f.end = EndAt(b, p)
    BY <1>16 DEF FrameAt
  <2> QED
    BY <1>7, <1>9, <2>1, <2>2 DEF EndAt
<1>23. ~ParseError(f)
  BY <1>17, <1>18, <1>19, <1>20, <1>22 DEF ParseError
<1>24. Text(id) = id /\ Text(name) = name /\ Text(info) = info
  BY <1>2, <1>5 DEF Printable
<1>25. TextOf(b, f.id, f.name) = id
  <2>1. /\ f.id \in Nat /\ f.name \in Nat /\ Holds(b.bytes, f.id + 4, id)
        /\ f.name = f.id + 4 + Len(id)
    BY <1>6, <1>8, <1>17, <1>18
  <2> QED
    BY <1>24, <2>1, TextRead
<1>26. TextOf(b, f.name, f.code) = name /\ TextOf(b, f.info, f.data) = info
  <2>1. /\ f.name \in Nat /\ f.code \in Nat /\ f.name + 4 = q + 8 + i
        /\ f.code = f.name + 4 + Len(name)
    BY <1>6, <1>18, <1>19
  <2>2. /\ f.info \in Nat /\ f.data \in Nat /\ f.info + 4 = q + 16 + i + a
        /\ f.data = f.info + 4 + Len(info)
    BY <1>6, <1>20, <1>21
  <2>3. Holds(b.bytes, f.name + 4, name) /\ Holds(b.bytes, f.info + 4, info)
    BY <1>8, <2>1, <2>2
  <2> QED
    BY <1>24, <2>1, <2>2, <2>3, TextRead
<1>27. SubSeq(b.bytes, f.data + 1, f.data + DataLen(f)) = data
  <2>1. DataLen(f) = d
    BY <1>21, <1>22 DEF DataLen, LenBytes
  <2>2. f.data \in Nat /\ Holds(b.bytes, f.data, data)
    BY <1>8, <1>21
  <2> QED
    BY <1>3, <1>6, <2>1, <2>2, HoldsPiece
<1>28. Parsed(b, f) = [myMessageID |-> id, myMethodName |-> name,
                       myErrorCode |-> n.myErrorCode, myErrorInfo |-> info, myPBData |-> data]
  BY <1>14, <1>19, <1>25, <1>26, <1>27 DEF Parsed
<1>29. n = [myMessageID |-> id, myMethodName |-> name,
            myErrorCode |-> n.myErrorCode, myErrorInfo |-> info, myPBData |-> data]
  BY <1>5 DEF TinyProtocol
<1>30. Fits(n) => ~Overruns(b, f)
  <2> SUFFICES ASSUME Fits(n) PROVE ~Overruns(b, f)
    OBVIOUS
  <2>1. PICK size \in Nat : size = Size(b) /\ q + 20 + i + a + e + d < size
    <3>1. Size(b) \in Nat /\ b.w \in Nat /\ b.w <= Size(b)
      BY BufferType DEF Size
    <3>2. p + len <= Size(b)
      BY <1>1, <3>1
    <3> QED
      BY <1>7, <1>9, <3>1, <3>2
  <2>2. Copies(b, f.id, f.name, TINYPB_MSG_ID_SIZE)
    <3>1. f.name - f.id - 4 = i /\ f.name <= size
      BY <1>17, <1>18, <2>1
    <3>2. i < TINYPB_MSG_ID_SIZE
      BY <1>5, <1>6 DEF Fits
    <3>3. i \in 0..(TINYPB_MSG_ID_SIZE - 1)
      BY SMT, <3>2 DEF TINYPB_MSG_ID_SIZE
    <3> QED
      BY Zenon, <2>1, <3>1, <3>3 DEF Copies, LenBytes
  <2>3. Copies(b, f.name, f.code, TINYPB_METHOD_NAME_SIZE)
    <3>1. f.code - f.name - 4 = a /\ f.code <= size
      BY <1>18, <1>19, <2>1
    <3>2. a < TINYPB_METHOD_NAME_SIZE
      BY <1>5, <1>6 DEF Fits
    <3>3. a \in 0..(TINYPB_METHOD_NAME_SIZE - 1)
      BY SMT, <3>2 DEF TINYPB_METHOD_NAME_SIZE
    <3> QED
      BY Zenon, <2>1, <3>1, <3>3 DEF Copies, LenBytes
  <2>4. Copies(b, f.info, f.data, TINYPB_ERROR_INFO_SIZE)
    <3>1. f.data - f.info - 4 = e /\ f.data <= size
      BY <1>20, <1>21, <2>1
    <3>2. e < TINYPB_ERROR_INFO_SIZE
      BY <1>5, <1>6 DEF Fits
    <3>3. e \in 0..(TINYPB_ERROR_INFO_SIZE - 1)
      BY SMT, <3>2 DEF TINYPB_ERROR_INFO_SIZE
    <3> QED
      BY Zenon, <2>1, <3>1, <3>3 DEF Copies, LenBytes
  <2>5. f.info <= size /\ ~(DataLen(f) < 0)
    BY <1>20, <1>21, <1>22, <2>1 DEF DataLen, LenBytes
  <2>6. f.info > size <=> FALSE
    BY <1>20, <2>1, <2>5
  <2> QED
    BY Zenon, <2>1, <2>2, <2>3, <2>4, <2>5, <2>6 DEF Overruns
<1> QED
  BY <1>2, <1>16, <1>23, <1>28, <1>29, <1>30

(* A small number has no digits but the last.                              *)
LEMMA SmallWeight ==
  ASSUME NEW a \in 0..255, NEW b \in 0..255, NEW c \in 0..255, NEW d \in 0..255,
         Weighed(Signed(a), b, c, d) \in 1..4
  PROVE  a = 0 /\ b = 0 /\ c = 0
<1>1. PICK e \in Int : e = Signed(a) /\ (e = 0 => a = 0) /\ -128 <= e /\ e <= 127
  BY SMT DEF Signed
<1>2. 1 <= e * 16777216 + b * 65536 + c * 256 + d /\ e * 16777216 + b * 65536 + c * 256 + d <= 4
  BY SMT, <1>1 DEF Weighed
<1>3. e = 0
  <2>1. b * 65536 \in Int /\ b * 65536 >= 0 /\ b * 65536 <= 16711680
    BY SMT
  <2>2. c * 256 \in Int /\ c * 256 >= 0 /\ c * 256 <= 65280
    BY SMT
  <2>3. PICK k \in Int : k = e * 16777216
    BY SMT
  <2>4. e >= 1 => k >= 16777216
    BY SMT, <2>3
  <2>5. e <= -1 => k <= -16777216
    BY SMT, <2>3
  <2>6. 1 <= k + b * 65536 + c * 256 + d /\ k + b * 65536 + c * 256 + d <= 4
    BY SMT, <1>2, <2>3
  <2> QED
    BY SMT, <2>1, <2>2, <2>4, <2>5, <2>6
<1>4. b = 0 /\ c = 0
  BY SMT, <1>2, <1>3
<1> QED
  BY <1>1, <1>3, <1>4

(* While the length has not arrived as a whole, what is taken for a frame has
   none: the vector has no end sign where a length above zero leads to.     *)
LEMMA ShortLength ==
  ASSUME NEW b \in Buffers(ByteValues), NEW p \in Nat, IsFrame(b, p), b.w <= p + 4
  PROVE  PackageLen(b, p) \in Int /\ PackageLen(b, p) <= 0
<1>1. /\ b.bytes \in Seq(ByteValues) /\ Len(b.bytes) \in Nat /\ b.w \in Nat
      /\ Size(b) = Len(b.bytes)
  BY BufferType DEF Size
<1>2. /\ Byte(b, p) = PB_START /\ p + 4 < Len(b.bytes) /\ EndAt(b, p) < b.w
      /\ ~(EndAt(b, p) < 0) /\ Byte(b, EndAt(b, p)) = PB_END
  BY <1>1 DEF IsFrame, LooksBeyond, MayStart, LenBytes
<1>3. PICK s \in Seq(ByteValues) :
        /\ s = SubSeq(b.bytes, p + 2, p + 5) /\ Len(s) = 4
        /\ \A i \in 1..4 : s[i] = b.bytes[p + 2 + i - 1]
  <2>1. /\ p + 2 \in Nat \ {0} /\ p + 5 \in Nat /\ p + 2 <= (p + 5) + 1
        /\ p + 5 <= Len(b.bytes) /\ (p + 5) - (p + 2) + 1 = 4
    BY <1>1, <1>2
  <2>2. /\ SubSeq(b.bytes, p + 2, p + 5) \in Seq(ByteValues)
        /\ Len(SubSeq(b.bytes, p + 2, p + 5)) = (p + 5) - (p + 2) + 1
        /\ \A i \in 1..((p + 5) - (p + 2) + 1) :
             SubSeq(b.bytes, p + 2, p + 5)[i] = b.bytes[p + 2 + i - 1]
    BY <1>1, <2>1, Piece
  <2>3. /\ Len(SubSeq(b.bytes, p + 2, p + 5)) = 4
        /\ \A i \in 1..4 : SubSeq(b.bytes, p + 2, p + 5)[i] = b.bytes[p + 2 + i - 1]
    BY <2>1, <2>2
  <2> QED
    BY Zenon, <2>2, <2>3
<1>4. PackageLen(b, p) = GetInt32FromNetByte(s)
  <2>1. p + 1 + LenBytes = p + 5
    BY DEF LenBytes
  <2> QED
    BY <1>3, <2>1 DEF PackageLen
<1>5. \A i \in 1..4 : s[i] \in 0..255
  BY <1>3, ElementOfSeq DEF ByteValues
<1>6. PICK x \in 0..255, y \in 0..255, z \in 0..255, u \in 0..255 :
        x = s[1] /\ y = s[2] /\ z = s[3] /\ u = s[4]
  <2>1. s[1] \in 0..255 /\ s[2] \in 0..255 /\ s[3] \in 0..255 /\ s[4] \in 0..255
    BY <1>5
  <2> QED
    BY Zenon, <2>1
<1>7. PackageLen(b, p) = Weighed(Signed(x), y, z, u)
  BY SMT, <1>4, <1>6 DEF GetInt32FromNetByte, Weighed
<1>8. PICK l \in Int : l = PackageLen(b, p)
  <2>1. GetInt32FromNetByte(s) \in Int32
    BY <1>3, IntegerOf
  <2>2. GetInt32FromNetByte(s) \in Int
    BY SMT, <2>1, SmallIntegers
  <2> QED
    BY Zenon, <1>4, <2>2
<1>9. ASSUME l >= 1 PROVE FALSE
  <2>1. l \in 1..4
    BY <1>1, <1>2, <1>8, <1>9 DEF EndAt
  <2>2. x = 0 /\ y = 0 /\ z = 0
    <3>1. Weighed(Signed(x), y, z, u) \in 1..4
      BY Zenon, <1>7, <1>8, <2>1
    <3> QED
      BY Zenon, <3>1, SmallWeight
  <2>3. b.bytes[p + 2] = 0 /\ b.bytes[p + 3] = 0 /\ b.bytes[p + 4] = 0
    <3>1. p + 2 + 1 - 1 = p + 2 /\ p + 2 + 2 - 1 = p + 3 /\ p + 2 + 3 - 1 = p + 4
      OBVIOUS
    <3>2. 1 \in 1..4 /\ 2 \in 1..4 /\ 3 \in 1..4
      OBVIOUS
    <3>3. s[1] = b.bytes[p + 2 + 1 - 1] /\ s[2] = b.bytes[p + 2 + 2 - 1] /\ s[3] = b.bytes[p + 2 + 3 - 1]
      BY <1>3, <3>2
    <3> QED
      BY <1>6, <2>2, <3>1, <3>3
  <2>4. b.bytes[p + l] = 3
    <3>1. EndAt(b, p) + 1 = p + l
      BY <1>8 DEF EndAt
    <3> QED
      BY <1>2, <3>1 DEF Byte, PB_END
  <2>5. b.bytes[p + 1] = 2
    BY <1>2 DEF Byte, PB_START
  <2>6. l = 1 \/ l = 2 \/ l = 3 \/ l = 4
    BY <2>1
  <2> QED
    BY <2>3, <2>4, <2>5, <2>6
<1> QED
  BY <1>8, <1>9

-----------------------------------------------------------------------------
(* The frames of the stream.                                               *)

FrameOf(m) == EncodeTinyPB(Messages[m])

(* Frame m is what was encoded from at[m - 1] to at[m]: one follows another. *)
FramesFollow(at) ==
  /\ at[0] = 0 /\ at[sent] = Len(encodedBytes)
  /\ \A m \in 1..sent : /\ at[m] = at[m - 1] + Len(FrameOf(m))
                        /\ Holds(encodedBytes, at[m - 1], FrameOf(m))
  /\ \A m, n \in 0..sent : m < n => at[m] + Len(FrameOf(m + 1)) <= at[n]

(* A start sign is where a frame begins.                                   *)
SignsStart(at) ==
  \A j \in 1..Len(encodedBytes) :
    encodedBytes[j] = PB_START => \E m \in 1..sent : j = at[m - 1] + 1

(* Decode has moved over the frames of what it has returned, and no more.  *)
FramesUsed(at) ==
  /\ Len(decoded) <= sent /\ Len(usedBytes) = at[Len(decoded)]
  /\ \A i \in 1..Len(decoded) : decoded[i] = Named(Messages[i])

Cut(at) == FramesFollow(at) /\ SignsStart(at) /\ FramesUsed(at)

Framed == Whole /\ Clean => \E at \in [0..sent -> Nat] : Cut(at)

(* What a clean message gives.                                             *)
LEMMA CleanFrame ==
  ASSUME Clean, NEW m \in 1..Len(Messages)
  PROVE  /\ Messages[m] \in TinyProtocol /\ FrameOf(m) \in Bytes
         /\ Len(FrameOf(m)) \in Nat /\ Len(FrameOf(m)) >= 1 /\ Len(FrameOf(m)) <= MaxInt32
         /\ \A i \in 2..Len(FrameOf(m)) : FrameOf(m)[i] # PB_START
         /\ Printable(Named(Messages[m]))
<1>1. Messages[m] \in TinyProtocol
  BY MessagesAssumption, ElementOfSeq
<1>2. PICK x \in TinyProtocol : x = Messages[m]
  BY <1>1
<1>3. Named(Named(x)) = Named(x)
  BY DEF Named, TinyProtocol
<1>4. EncodeTinyPB(Named(x)) = EncodeTinyPB(x)
  BY Zenon, <1>3 DEF EncodeTinyPB
<1>5. FrameOf(m) \in Bytes /\ Len(FrameOf(m)) \in Nat
  BY <1>1, FrameType, LenProperties DEF FrameOf, Bytes
<1>6. /\ Len(FrameOf(m)) <= MaxInt32
      /\ \A i \in 2..Len(FrameOf(m)) : FrameOf(m)[i] # PB_START
  BY <1>2, <1>4 DEF Clean, FrameOf
<1>7. Printable(Named(x))
  BY <1>2 DEF Clean, Printable
<1>8. Len(FrameOf(m)) >= 1
  <2>1. Holds(FrameOf(m), 0, FrameOf(m))
    BY <1>5 DEF Holds
  <2>2. Holds(FrameOf(m), 0, <<PB_START>>)
    BY <1>1, <1>5, <2>1, HoldsFrame DEF FrameOf
  <2> QED
    BY <1>5, <2>2 DEF Holds
<1> QED
  BY <1>1, <1>2, <1>5, <1>6, <1>7, <1>8

(* Encode puts one more frame behind the others.                           *)
LEMMA EncodeFrames ==
  ASSUME TypeOK, Encode, Clean, NEW at \in [0..sent -> Nat], Cut(at)
  PROVE  \E to \in [0..sent' -> Nat] : Cut(to)'
<1>1. /\ sent \in Nat /\ sent < Len(Messages) /\ Len(Messages) \in Nat
      /\ sent + 1 \in 1..Len(Messages) /\ encodedBytes \in Bytes /\ Len(encodedBytes) \in Nat
      /\ decoded \in Seq(TinyProtocol) /\ Len(decoded) \in Nat
  <2>1. Len(Messages) \in Nat /\ encodedBytes \in Bytes /\ decoded \in Seq(TinyProtocol)
    BY MessagesAssumption, LenProperties DEF TypeOK, Bytes
  <2>2. Len(encodedBytes) \in Nat /\ Len(decoded) \in Nat
    BY <2>1, LenProperties DEF Bytes
  <2> QED
    BY <2>1, <2>2 DEF TypeOK, Encode
<1>2. PICK frame \in Bytes :
        /\ frame = FrameOf(sent + 1) /\ Len(frame) \in Nat /\ Len(frame) >= 1
        /\ \A i \in 2..Len(frame) : frame[i] # PB_START
  BY <1>1, CleanFrame
<1>3. /\ encodedBytes' = encodedBytes \o frame /\ sent' = sent + 1
      /\ UNCHANGED <<decoded, usedBytes>>
  BY <1>2 DEF Encode, FrameOf, recvVars
<1>4. /\ encodedBytes' \in Bytes /\ Len(encodedBytes') = Len(encodedBytes) + Len(frame)
      /\ \A i \in 1..Len(encodedBytes) : encodedBytes'[i] = encodedBytes[i]
      /\ \A i \in 1..Len(frame) : encodedBytes'[Len(encodedBytes) + i] = frame[i]
  BY <1>1, <1>2, <1>3, ConcatProperties DEF Bytes
<1>5. PICK l \in Nat, k \in Nat : l = Len(encodedBytes) /\ k = Len(frame) /\ k >= 1
  BY <1>1, <1>2
<1>6. PICK to \in [0..(sent + 1) -> Nat] :
        to = [m \in 0..(sent + 1) |-> IF m <= sent THEN at[m] ELSE l + k]
  <2>1. \A m \in 0..(sent + 1) : (IF m <= sent THEN at[m] ELSE l + k) \in Nat
    BY <1>1, <1>5
  <2> QED
    BY <2>1
<1>7. (\A m \in 0..sent : to[m] = at[m]) /\ to[sent + 1] = l + k
  BY <1>1, <1>6
<1>8. FramesFollow(at) /\ SignsStart(at) /\ FramesUsed(at) /\ at[sent] = l
  BY <1>5 DEF Cut, FramesFollow
<1>9. FramesFollow(to)'
  <2>1. to[0] = 0 /\ to[sent'] = Len(encodedBytes')
    BY <1>1, <1>3, <1>4, <1>5, <1>7, <1>8 DEF FramesFollow
  <2>2. ASSUME NEW m \in 1..sent'
        PROVE  to[m] = to[m - 1] + Len(FrameOf(m)) /\ Holds(encodedBytes', to[m - 1], FrameOf(m))
    <3>1. CASE m \in 1..sent
      <4>1. /\ at[m] = at[m - 1] + Len(FrameOf(m)) /\ Holds(encodedBytes, at[m - 1], FrameOf(m))
            /\ to[m] = at[m] /\ to[m - 1] = at[m - 1] /\ at[m - 1] \in Nat
        BY <1>1, <1>7, <1>8, <3>1 DEF FramesFollow
      <4>2. FrameOf(m) \in Bytes /\ Len(FrameOf(m)) \in Nat
        BY <1>1, <3>1, CleanFrame
      <4>3. Holds(encodedBytes', at[m - 1], FrameOf(m))
        <5>1. /\ at[m - 1] + Len(FrameOf(m)) <= l
              /\ \A i \in 1..Len(FrameOf(m)) : encodedBytes[at[m - 1] + i] = FrameOf(m)[i]
          BY <1>5, <4>1 DEF Holds
        <5>2. \A i \in 1..Len(FrameOf(m)) : at[m - 1] + i \in 1..l
          BY <4>1, <4>2, <5>1
        <5>3. \A i \in 1..Len(FrameOf(m)) : encodedBytes'[at[m - 1] + i] = FrameOf(m)[i]
          BY <1>4, <1>5, <5>1, <5>2
        <5>4. at[m - 1] + Len(FrameOf(m)) <= Len(encodedBytes')
          BY <1>2, <1>4, <1>5, <4>1, <4>2, <5>1
        <5> QED
          BY <5>3, <5>4 DEF Holds
      <4> QED
        BY <4>1, <4>3
    <3>2. CASE m = sent + 1
      <4>1. to[m] = l + k /\ to[m - 1] = l /\ FrameOf(m) = frame
        BY <1>1, <1>2, <1>7, <1>8, <3>2
      <4>2. Holds(encodedBytes', l, frame)
        BY <1>4, <1>5 DEF Holds
      <4> QED
        BY <1>5, <4>1, <4>2
    <3> QED
      BY <1>1, <1>3, <3>1, <3>2
  <2>3. ASSUME NEW m \in 0..sent', NEW n \in 0..sent', m < n
        PROVE  to[m] + Len(FrameOf(m + 1)) <= to[n]
    <3>1. m \in 0..sent /\ to[m] = at[m] /\ at[m] \in Nat
      BY <1>1, <1>3, <1>7, <2>3
    <3>2. CASE n \in 0..sent
      BY <1>7, <1>8, <2>3, <3>1, <3>2 DEF FramesFollow
    <3>3. CASE n = sent + 1
      <4>1. CASE m = sent
        BY <1>2, <1>5, <1>7, <1>8, <3>1, <3>3, <4>1
      <4>2. CASE m < sent
        <5>1. at[m] + Len(FrameOf(m + 1)) <= l
          BY <1>1, <1>8, <3>1, <4>2 DEF FramesFollow
        <5>2. Len(FrameOf(m + 1)) \in Nat
          <6>1. m + 1 \in 1..Len(Messages)
            BY <1>1, <3>1, <4>2
          <6> QED
            BY <6>1, CleanFrame
        <5> QED
          BY <1>5, <1>7, <3>1, <3>3, <5>1, <5>2
      <4> QED
        BY <1>1, <3>1, <4>1, <4>2
    <3> QED
      BY <1>1, <1>3, <3>2, <3>3
  <2> QED
    BY <2>1, <2>2, <2>3 DEF FramesFollow, FrameOf
<1>10. SignsStart(to)'
  <2>1. ASSUME NEW j \in 1..Len(encodedBytes'), encodedBytes'[j] = PB_START
        PROVE  \E m \in 1..sent' : j = to[m - 1] + 1
    <3>1. CASE j \in 1..l
      <4>1. PICK m \in 1..sent : j = at[m - 1] + 1
        BY <1>4, <1>5, <1>8, <2>1, <3>1 DEF SignsStart
      <4>2. m \in 1..sent' /\ to[m - 1] = at[m - 1]
        BY <1>1, <1>3, <1>7
      <4> QED
        BY <4>1, <4>2
    <3>2. CASE j \notin 1..l
      <4>1. PICK i \in 1..k : j = l + i
        <5>1. j - l \in 1..k /\ j = l + (j - l)
          BY <1>4, <1>5, <3>2
        <5> QED
          BY <5>1
      <4>2. frame[i] = PB_START
        BY <1>4, <1>5, <2>1, <4>1
      <4>3. i = 1
        <5>1. i \notin 2..k
          BY <1>2, <1>5, <4>2
        <5> QED
          BY <4>1, <5>1
      <4>4. sent + 1 \in 1..sent' /\ to[(sent + 1) - 1] = l
        BY <1>1, <1>3, <1>7, <1>8
      <4> QED
        BY <4>1, <4>3, <4>4
    <3> QED
      BY <3>1, <3>2
  <2> QED
    BY <2>1 DEF SignsStart
<1>11. FramesUsed(to)'
  <2>1. Len(decoded) \in 0..sent /\ Len(usedBytes) = at[Len(decoded)]
    BY <1>1, <1>8 DEF FramesUsed
  <2>2. Len(decoded') <= sent' /\ Len(usedBytes') = to[Len(decoded')]
    BY <1>1, <1>3, <1>7, <2>1
  <2>3. \A i \in 1..Len(decoded') : decoded'[i] = Named(Messages[i])
    BY <1>3, <1>8 DEF FramesUsed
  <2> QED
    BY <2>2, <2>3 DEF FramesUsed
<1>12. to \in [0..sent' -> Nat]
  BY <1>3
<1> QED
  BY <1>9, <1>10, <1>11, <1>12 DEF Cut

(* What is in the receiving buffer was encoded, behind what Decode has used. *)
LEMMA ContentHeld ==
  ASSUME TypeOK, BytesConserved, Whole
  PROVE  LET b == myRecvBuffer
             u == Len(usedBytes)
         IN  /\ u \in Nat /\ Len(encodedBytes) \in Nat
             /\ u + ReadRemain(b) <= Len(encodedBytes)
             /\ \A i \in 1..ReadRemain(b) : b.bytes[b.r + i] = encodedBytes[u + i]
<1>1. PICK u \in Bytes, c \in Bytes, w \in Bytes, d \in Bytes :
        /\ u = usedBytes /\ c = Content(myRecvBuffer) /\ w = wire
        /\ d = Content(mySendBuffer) /\ Len(c) = ReadRemain(myRecvBuffer)
  <2>1. usedBytes \in Bytes /\ wire \in Bytes
    BY DEF TypeOK, Bytes
  <2>2. /\ Content(myRecvBuffer) \in Bytes /\ Content(mySendBuffer) \in Bytes
        /\ Len(Content(myRecvBuffer)) = ReadRemain(myRecvBuffer)
    BY BufferType DEF TypeOK, Bytes
  <2> QED
    BY Zenon, <2>1, <2>2
<1>2. encodedBytes = ((u \o c) \o w) \o d
  BY <1>1 DEF BytesConserved
<1>3. PICK x \in Bytes : x = u \o c /\ Len(x) = Len(u) + Len(c)
  BY Joined
<1>4. PICK y \in Bytes : y = x \o w /\ Len(y) = Len(x) + Len(w)
  BY Joined
<1>5. PICK z \in Bytes : z = y \o d /\ Len(z) = Len(y) + Len(d)
  BY Joined
<1>6. z = encodedBytes
  BY Zenon, <1>2, <1>3, <1>4, <1>5
<1>7. Len(u) \in Nat /\ Len(c) \in Nat /\ Len(w) \in Nat /\ Len(d) \in Nat /\ Len(z) \in Nat
  BY LenProperties DEF Bytes
<1>8. Holds(z, 0, z) /\ 0 \in Nat
  BY <1>7 DEF Holds
<1>9. Holds(z, 0, y)
  BY <1>5, <1>8, HoldsParts
<1>10. Holds(z, 0, x)
  BY <1>4, <1>9, HoldsParts
<1>11. Holds(z, 0 + Len(u), c)
  BY <1>3, <1>8, <1>10, HoldsParts
<1>12. /\ Len(u) + Len(c) <= Len(z)
       /\ \A i \in 1..Len(c) : z[Len(u) + i] = c[i]
  BY <1>7, <1>11 DEF Holds
<1>13. ASSUME NEW i \in 1..Len(c) PROVE c[i] = myRecvBuffer.bytes[myRecvBuffer.r + i]
  <2>1. PICK b \in Buffers(ByteValues) : b = myRecvBuffer
    BY DEF TypeOK
  <2>2. /\ b.bytes \in Seq(ByteValues) /\ b.r \in Nat /\ b.w \in Nat /\ b.r <= b.w
        /\ b.w <= Len(b.bytes) /\ Len(b.bytes) \in Nat
    BY BufferType
  <2>3. \A j \in 1..(b.w - (b.r + 1) + 1) :
          SubSeq(b.bytes, b.r + 1, b.w)[j] = b.bytes[(b.r + 1) + j - 1]
    <3>1. b.r + 1 \in Nat \ {0} /\ b.r + 1 <= b.w + 1
      BY <2>2
    <3> QED
      BY <2>2, <3>1, Piece
  <2>4. /\ i \in 1..(b.w - (b.r + 1) + 1) /\ (b.r + 1) + i - 1 = b.r + i
    BY <1>1, <2>1, <2>2 DEF ReadRemain
  <2>5. SubSeq(b.bytes, b.r + 1, b.w)[i] = b.bytes[b.r + i]
    BY <2>3, <2>4
  <2> QED
    BY <1>1, <2>1, <2>5 DEF Content
<1> QED
  BY <1>1, <1>6, <1>7, <1>12, <1>13

(* Decode stops at the first byte it has not used, which begins a frame: that
   frame has arrived, or its length has not, or the length has and says that
   more is to come.                                                        *)
LEMMA NextStop ==
  ASSUME TypeOK, BytesConserved, Whole, Clean, NEW at \in [0..sent -> Nat], Cut(at),
         Stops(myRecvBuffer) # {}
  PROVE  LET b == myRecvBuffer
             k == Len(decoded)
             F == FrameOf(k + 1)
         IN  /\ First(b) = b.r /\ k \in Nat /\ k < sent
             /\ \/ ReadRemain(b) <= LenBytes
                \/ Holds(b.bytes, b.r, F) /\ Len(F) <= ReadRemain(b)
                \/ /\ PackageLen(b, b.r) = Len(F) /\ Len(F) \in Nat
                   /\ ReadRemain(b) < Len(F) /\ LenBytes < ReadRemain(b)
<1>1. PICK b \in Buffers(ByteValues) : b = myRecvBuffer
  BY DEF TypeOK
<1>2. /\ b.bytes \in Bytes /\ b.r \in Nat /\ b.w \in Nat /\ b.r <= b.w
      /\ b.w <= Len(b.bytes) /\ Len(b.bytes) \in Nat /\ ReadRemain(b) = b.w - b.r
  BY BufferType DEF Bytes, ReadRemain
<1>3. PICK k \in Nat, u \in Nat, n \in Nat :
        k = Len(decoded) /\ u = Len(usedBytes) /\ n = Len(encodedBytes)
  BY LenProperties DEF TypeOK
<1>4. u + (b.w - b.r) <= n /\ \A i \in 1..(b.w - b.r) : b.bytes[b.r + i] = encodedBytes[u + i]
  BY <1>1, <1>2, <1>3, ContentHeld
<1>5. sent \in Nat /\ Len(Messages) \in Nat /\ sent <= Len(Messages) /\ k <= sent /\ u = at[k]
  BY <1>3, MessagesAssumption, LenProperties DEF TypeOK, Cut, FramesUsed
<1>6. ASSUME NEW m \in 1..sent PROVE Len(FrameOf(m)) \in Nat /\ Len(FrameOf(m)) >= 1
  <2>1. m \in 1..Len(Messages)
    BY <1>5
  <2> QED
    BY <2>1, CleanFrame
(* Where there is a start sign, a frame begins. *)
<1>7. ASSUME NEW i \in Stops(b)
      PROVE  /\ i \in b.r..(b.w - 1) /\ k < sent
             /\ i > b.r => Len(FrameOf(k + 1)) <= i - b.r
  <2>1. i \in b.r..(b.w - 1) /\ Byte(b, i) = PB_START
    BY <1>7 DEF Stops, IsFrame, LooksBeyond, MayStart
  <2>2. encodedBytes[u + (i - b.r + 1)] = PB_START /\ u + (i - b.r + 1) \in 1..n
    <3>1. i - b.r + 1 \in 1..(b.w - b.r) /\ b.r + (i - b.r + 1) = i + 1
      BY <1>2, <2>1
    <3>2. b.bytes[b.r + (i - b.r + 1)] = encodedBytes[u + (i - b.r + 1)]
      BY <1>4, <3>1
    <3>3. b.bytes[i + 1] = PB_START
      BY <2>1 DEF Byte
    <3>4. u + (i - b.r + 1) \in 1..n
      <4>1. PICK y \in Nat : y = b.w - b.r /\ u + y <= n
        BY <1>2, <1>4
      <4>2. PICK x \in 1..y : x = i - b.r + 1
        BY <3>1, <4>1
      <4>3. u + x \in 1..n
        BY <4>1, <4>2
      <4> QED
        BY Zenon, <4>2, <4>3
    <3> QED
      BY <3>1, <3>2, <3>3, <3>4
  <2>3. PICK m \in 1..sent : u + (i - b.r + 1) = at[m - 1] + 1
    BY <1>3, <2>2 DEF Cut, SignsStart
  <2>4. at[m - 1] = at[k] + (i - b.r) /\ at[m - 1] \in Nat /\ at[k] \in Nat
    <3>1. m - 1 \in 0..sent /\ k \in 0..sent
      BY <1>5
    <3>2. at[m - 1] \in Nat /\ at[k] \in Nat
      BY <3>1
    <3>3. at[m - 1] = u + (i - b.r)
      <4>1. PICK z \in Nat : z = i - b.r
        BY <1>2, <2>1
      <4>2. PICK x \in Nat : x = at[m - 1]
        BY <3>2
      <4>3. u + (z + 1) = x + 1
        BY Zenon, <2>3, <4>1, <4>2
      <4>4. x = u + z
        BY <4>3
      <4> QED
        BY Zenon, <4>1, <4>2, <4>4
    <3> QED
      BY <1>5, <3>2, <3>3
  <2>5. \A x, y \in 0..sent : x < y => at[x] + Len(FrameOf(x + 1)) <= at[y]
    BY DEF Cut, FramesFollow
  <2>6. k <= m - 1
    <3>1. ASSUME m - 1 < k PROVE FALSE
      <4>1. at[m - 1] + Len(FrameOf(m - 1 + 1)) <= at[k]
        BY <1>5, <2>5, <3>1
      <4>2. Len(FrameOf(m)) >= 1 /\ Len(FrameOf(m)) \in Nat /\ m - 1 + 1 = m
        BY <1>6
      <4> QED
        BY <1>2, <2>1, <2>4, <4>1, <4>2
    <3> QED
      BY <3>1
  <2>7. k < sent
    BY <1>5, <2>6
  <2>8. ASSUME i > b.r PROVE Len(FrameOf(k + 1)) <= i - b.r
    <3>1. k < m - 1
      <4>1. k # m - 1
        <5>1. PICK x \in Nat, y \in Nat : x = at[m - 1] /\ y = at[k] /\ x = y + (i - b.r)
          BY Zenon, <2>4
        <5>2. x # y
          BY <1>2, <2>1, <2>8, <5>1
        <5> QED
          BY Zenon, <5>1, <5>2
      <4> QED
        BY <1>5, <2>6, <4>1
    <3>2. at[k] + Len(FrameOf(k + 1)) <= at[m - 1]
      BY <1>5, <2>5, <3>1
    <3>3. Len(FrameOf(k + 1)) \in Nat
      BY <1>5, <1>6, <2>7
    <3> QED
      BY <1>2, <2>1, <2>4, <3>2, <3>3
  <2> QED
    BY <2>1, <2>7, <2>8
<1>8. First(b) \in Stops(b) /\ \A i \in Stops(b) : First(b) <= i
  BY <1>1, FirstStops
<1>9. k < sent
  BY <1>7, <1>8
<1>10. PICK F \in Bytes :
         /\ F = FrameOf(k + 1) /\ Len(F) \in Nat /\ Len(F) >= 1 /\ Len(F) <= MaxInt32
         /\ Messages[k + 1] \in TinyProtocol
  <2>1. k + 1 \in 1..Len(Messages)
    BY <1>5, <1>9
  <2> QED
    BY <2>1, CleanFrame
(* The frame is in the vector as far as it has arrived. *)
<1>11. /\ u + Len(F) <= n /\ \A i \in 1..Len(F) : encodedBytes[u + i] = F[i]
       /\ Holds(encodedBytes, u, F)
  <2>1. k + 1 \in 1..sent /\ (k + 1) - 1 = k
    BY <1>5, <1>9
  <2>2. Holds(encodedBytes, at[k], FrameOf(k + 1))
    BY <2>1 DEF Cut, FramesFollow
  <2>3. Holds(encodedBytes, u, F)
    BY <1>5, <1>10, <2>2
  <2> QED
    BY <1>3, <1>10, <2>3 DEF Holds
<1>12. ASSUME NEW i \in 1..(b.w - b.r), i <= Len(F) PROVE b.bytes[b.r + i] = F[i]
  BY <1>4, <1>10, <1>11, <1>12
<1>13. ASSUME Len(F) <= b.w - b.r PROVE Holds(b.bytes, b.r, F)
  <2>1. \A i \in 1..Len(F) : i \in 1..(b.w - b.r) /\ i <= Len(F)
    BY <1>2, <1>10, <1>13
  <2>2. \A i \in 1..Len(F) : b.bytes[b.r + i] = F[i]
    BY <1>12, <2>1
  <2> QED
    BY <1>2, <1>10, <1>13, <2>2 DEF Holds
<1>14. First(b) = b.r
  <2>1. ASSUME First(b) > b.r PROVE FALSE
    <3>1. Len(F) <= First(b) - b.r /\ First(b) \in b.r..(b.w - 1)
      BY <1>7, <1>8, <1>10, <2>1
    <3>2. Len(F) <= b.w - b.r
      BY <1>2, <1>10, <3>1
    <3>3. IsFrame(b, b.r)
      <4>1. /\ Holds(b.bytes, b.r, EncodeTinyPB(Messages[k + 1]))
            /\ Len(EncodeTinyPB(Messages[k + 1])) <= MaxInt32
            /\ b.r + Len(EncodeTinyPB(Messages[k + 1])) <= b.w
        BY <1>2, <1>10, <1>13, <3>2 DEF FrameOf
      <4> QED
        BY <1>2, <1>10, <4>1, FrameSeen
    <3>4. b.r \in Stops(b)
      BY <1>2, <3>1, <3>3 DEF Stops
    <3> QED
      BY <1>2, <1>8, <2>1, <3>1, <3>4
  <2>2. First(b) \in b.r..(b.w - 1)
    BY <1>7, <1>8
  <2> QED
    BY <1>2, <2>1, <2>2
<1>15. CASE Len(F) <= b.w - b.r
  BY <1>1, <1>2, <1>3, <1>9, <1>10, <1>13, <1>14, <1>15
<1>16. CASE b.w <= b.r + 4
  <2>1. ReadRemain(b) <= LenBytes
    BY <1>2, <1>16 DEF LenBytes
  <2> QED
    BY <1>1, <1>3, <1>9, <1>14, <2>1
<1>17. CASE b.w - b.r < Len(F) /\ b.w >= b.r + 5
  <2>1. Holds(b.bytes, b.r + 1, NetBytes(Len(F)))
    <3>1. Holds(F, 0, EncodeTinyPB(Messages[k + 1]))
      BY <1>10 DEF Holds, FrameOf
    <3>2. Holds(F, 0 + 1, NetBytes(Len(F)))
      BY <1>10, <3>1, HoldsFrame DEF FrameOf
    <3>3. PICK nl \in Bytes : nl = NetBytes(Len(F)) /\ Len(nl) = 4
      BY <1>10, FourLong
    <3>4. 1 + 4 <= Len(F) /\ \A i \in 1..4 : F[1 + i] = nl[i]
      BY <3>2, <3>3 DEF Holds
    <3>5. ASSUME NEW i \in 1..4 PROVE b.bytes[(b.r + 1) + i] = nl[i]
      <4>1. /\ 1 + i \in 1..(b.w - b.r) /\ 1 + i <= Len(F)
            /\ b.r + (1 + i) = (b.r + 1) + i
        <5>1. Len(F) \in Nat /\ 5 <= Len(F)
          BY <1>10, <3>4
        <5> QED
          BY <1>2, <1>17, <5>1
      <4>2. b.bytes[b.r + (1 + i)] = F[1 + i]
        BY <1>12, <4>1
      <4> QED
        BY <3>4, <4>1, <4>2
    <3>6. (b.r + 1) + 4 <= Len(b.bytes)
      BY <1>2, <1>17
    <3> QED
      BY <3>3, <3>5, <3>6 DEF Holds
  <2>2. PackageLen(b, b.r) = Len(F)
    BY <1>2, <1>10, <2>1, LengthRead
  <2>3. ReadRemain(b) < Len(F) /\ LenBytes < ReadRemain(b)
    BY <1>2, <1>10, <1>17 DEF LenBytes
  <2> QED
    BY <1>1, <1>3, <1>9, <1>10, <1>14, <2>2, <2>3
<1> QED
  BY <1>2, <1>10, <1>15, <1>16, <1>17

(* So where it takes something for a frame, that frame has arrived, or its
   length has not, and what stands for it is not above zero.               *)
LEMMA NextFrame ==
  ASSUME TypeOK, BytesConserved, Whole, Clean, NEW at \in [0..sent -> Nat], Cut(at),
         Stops(myRecvBuffer) # {}, IsFrame(myRecvBuffer, First(myRecvBuffer))
  PROVE  LET b == myRecvBuffer
             k == Len(decoded)
         IN  /\ First(b) = b.r
             /\ \/ /\ PackageLen(b, First(b)) \in Int /\ PackageLen(b, First(b)) <= 0
                   /\ ReadRemain(b) <= LenBytes
                \/ /\ k \in Nat /\ k < sent
                   /\ Holds(b.bytes, b.r, FrameOf(k + 1))
                   /\ Len(FrameOf(k + 1)) <= ReadRemain(b)
<1>1. PICK b \in Buffers(ByteValues) : b = myRecvBuffer
  BY DEF TypeOK
<1>2. b.r \in Nat /\ b.w \in Nat /\ ReadRemain(b) = b.w - b.r
  BY BufferType DEF ReadRemain
<1>3. PICK k, F : k = Len(decoded) /\ F = FrameOf(k + 1)
  OBVIOUS
<1>4. /\ First(b) = b.r /\ k \in Nat /\ k < sent
      /\ \/ ReadRemain(b) <= LenBytes
         \/ Holds(b.bytes, b.r, F) /\ Len(F) <= ReadRemain(b)
         \/ /\ PackageLen(b, b.r) = Len(F) /\ Len(F) \in Nat
            /\ ReadRemain(b) < Len(F) /\ LenBytes < ReadRemain(b)
  BY <1>1, <1>3, NextStop
<1>5. CASE ReadRemain(b) <= LenBytes
  <2>1. b.w <= b.r + 4
    BY <1>2, <1>5 DEF LenBytes
  <2> QED
    BY <1>1, <1>2, <1>4, <1>5, <2>1, ShortLength
<1>6. CASE PackageLen(b, b.r) = Len(F) /\ Len(F) \in Nat /\ ReadRemain(b) < Len(F)
  <2>1. EndAt(b, b.r) < b.w
    BY <1>1, <1>4 DEF IsFrame
  <2> QED
    BY <1>2, <1>6, <2>1 DEF EndAt
<1> QED
  BY <1>1, <1>3, <1>4, <1>5, <1>6

(* Decode returns the message of the frame it moves over.                  *)
LEMMA DecodeFrames ==
  ASSUME TypeOK, BytesConserved, Whole, Clean, DecodeFrame,
         NEW at \in [0..sent -> Nat], Cut(at)
  PROVE  Cut(at)'
<1>1. PICK b \in Buffers(ByteValues) : b = myRecvBuffer
  BY DEF TypeOK
<1>0. PICK index \in Nat :
        /\ index = First(b)
        /\ Stops(b) # {} /\ IsFrame(b, index) /\ ~Overruns(b, FrameAt(b, index))
  <2>1. /\ Stops(b) # {} /\ IsFrame(b, First(b)) /\ ~Overruns(b, FrameAt(b, First(b)))
    BY <1>1 DEF DecodeFrame
  <2>2. First(b) \in Nat
    BY <2>1, FirstStops
  <2> QED
    BY <2>1, <2>2
<1>2. PICK f, len :
        /\ index = First(b) /\ f = FrameAt(b, index) /\ len = PackageLen(b, index)
        /\ Stops(b) # {} /\ IsFrame(b, index) /\ ~Overruns(b, f)
  BY <1>0
<1>3. /\ usedBytes' = usedBytes \o Skipped(b, len)
      /\ decoded' = IF ParseError(f) THEN decoded ELSE Append(decoded, Parsed(b, f))
      /\ UNCHANGED <<sent, encodedBytes>>
  BY <1>1, <1>2 DEF DecodeFrame, TakeFrame, sendVars
<1>4. PICK k \in Nat : k = Len(decoded) /\ decoded \in Seq(TinyProtocol)
  BY LenProperties DEF TypeOK
<1>5. usedBytes \in Bytes
  BY DEF TypeOK, Bytes
<1>6. /\ b.bytes \in Bytes /\ b.r \in Nat /\ b.w \in Nat /\ b.r <= b.w
      /\ b.w <= Len(b.bytes) /\ Len(b.bytes) \in Nat /\ ReadRemain(b) = b.w - b.r
  BY BufferType DEF Bytes, ReadRemain
<1>7. /\ index = b.r
      /\ \/ len \in Int /\ len <= 0
         \/ /\ k < sent /\ Holds(b.bytes, b.r, FrameOf(k + 1))
            /\ Len(FrameOf(k + 1)) <= ReadRemain(b)
  BY <1>1, <1>2, <1>4, NextFrame
<1>8. /\ FramesFollow(at)' /\ SignsStart(at)'
  BY <1>3 DEF Cut, FramesFollow, SignsStart, FrameOf
<1>9. CASE len \in Int /\ len <= 0
  <2>1. ParseError(f)
    <3>1. f.id = index + 1 + LenBytes /\ f.end = index + len - 1
      BY <1>2 DEF FrameAt, EndAt
    <3>2. f.id >= f.end
      BY <1>9, <3>1 DEF LenBytes
    <3> QED
      BY <3>2 DEF ParseError
  <2>2. Skipped(b, len) = <<>>
    <3>1. CASE len = 0
      <4>1. SubSeq(b.bytes, b.r + 1, b.r + 0) = <<>>
        <5>1. b.r + 0 = b.r /\ b.r < b.r + 1 /\ b.r \in Int /\ b.r + 1 \in Int
          BY <1>6
        <5> QED
          BY <5>1, SubSeqEmpty
      <4> QED
        BY <3>1, <4>1 DEF Skipped
    <3>2. CASE len # 0
      BY <1>9, <3>2 DEF Skipped, Skippable
    <3> QED
      BY <3>1, <3>2
  <2>3. usedBytes' = usedBytes /\ decoded' = decoded
    BY <1>3, <1>5, <2>1, <2>2, ConcatEmptySeq DEF Bytes
  <2> QED
    BY <1>3, <1>8, <2>3 DEF Cut, FramesUsed
<1>10. CASE /\ k < sent /\ Holds(b.bytes, b.r, FrameOf(k + 1))
            /\ Len(FrameOf(k + 1)) <= ReadRemain(b)
  <2>1. k + 1 \in 1..Len(Messages) /\ k + 1 \in 1..sent /\ sent \in Nat
    <3>1. sent \in Nat /\ Len(Messages) \in Nat /\ sent <= Len(Messages)
      BY MessagesAssumption, LenProperties DEF TypeOK
    <3> QED
      BY <1>10, <3>1
  <2>2. PICK m \in TinyProtocol, l \in Nat :
          /\ m = Messages[k + 1] /\ l = Len(EncodeTinyPB(m)) /\ l <= MaxInt32
          /\ Printable(Named(m)) /\ FrameOf(k + 1) = EncodeTinyPB(m)
    BY <2>1, CleanFrame DEF FrameOf
  <2>3. /\ Holds(b.bytes, b.r, EncodeTinyPB(m)) /\ l <= b.w - b.r /\ b.r + l <= b.w
    <3>1. Holds(b.bytes, b.r, EncodeTinyPB(m)) /\ l <= ReadRemain(b)
      BY <1>10, <2>2
    <3> QED
      BY <1>6, <3>1
  <2>4. len = l
    BY <1>2, <1>6, <1>7, <2>2, <2>3, FrameSeen
  <2>5. ~ParseError(f) /\ Parsed(b, f) = Named(m)
    BY <1>2, <1>6, <1>7, <2>2, <2>3, DecodeInvertsEncode
  <2>6. decoded' = Append(decoded, Named(m)) /\ Named(m) \in TinyProtocol
    BY <1>3, <2>5, NamedType
  <2>7. /\ Len(decoded') = k + 1 /\ decoded'[k + 1] = Named(m)
        /\ \A i \in 1..k : decoded'[i] = decoded[i]
    BY <1>4, <2>6, AppendProperties
  <2>8. Len(usedBytes') = Len(usedBytes) + l
    <3>1. Skipped(b, len) = SubSeq(b.bytes, b.r + 1, b.r + l)
      <4>1. l \in 0..ReadRemain(b)
        BY <1>6, <2>3
      <4> QED
        BY <2>4, <4>1 DEF Skipped, Skippable
    <3>2. /\ SubSeq(b.bytes, b.r + 1, b.r + l) \in Bytes
          /\ Len(SubSeq(b.bytes, b.r + 1, b.r + l)) = l
      <4>1. /\ b.r + 1 \in Nat \ {0} /\ b.r + l \in Nat /\ b.r + 1 <= (b.r + l) + 1
            /\ b.r + l <= Len(b.bytes) /\ (b.r + l) - (b.r + 1) + 1 = l
        BY <1>6, <2>3
      <4>2. /\ SubSeq(b.bytes, b.r + 1, b.r + l) \in Seq(ByteValues)
            /\ Len(SubSeq(b.bytes, b.r + 1, b.r + l)) = (b.r + l) - (b.r + 1) + 1
        <5>1. PICK x \in Nat \ {0}, y \in Nat : x = b.r + 1 /\ y = b.r + l
          BY <4>1
        <5>2. b.bytes \in Seq(ByteValues) /\ x <= y + 1 /\ y <= Len(b.bytes)
          BY <1>6, <4>1, <5>1 DEF Bytes
        <5>3. SubSeq(b.bytes, x, y) \in Seq(ByteValues) /\ Len(SubSeq(b.bytes, x, y)) = y - x + 1
          BY <5>2, Piece
        <5> QED
          BY Zenon, <5>1, <5>3
      <4> QED
        BY <4>1, <4>2 DEF Bytes
    <3>3. usedBytes' = usedBytes \o SubSeq(b.bytes, b.r + 1, b.r + l)
      BY <1>3, <3>1
    <3> QED
      BY <1>5, <3>2, <3>3, ConcatProperties DEF Bytes
  <2>9. Len(usedBytes') = at[k + 1]
    <3>1. Len(usedBytes) = at[k] /\ at[k + 1] = at[(k + 1) - 1] + Len(FrameOf(k + 1))
      BY <1>4, <2>1 DEF Cut, FramesUsed, FramesFollow
    <3>2. (k + 1) - 1 = k
      OBVIOUS
    <3> QED
      BY <2>2, <2>8, <3>1, <3>2
  <2>10. \A i \in 1..Len(decoded') : decoded'[i] = Named(Messages[i])
    <3>1. \A i \in 1..k : decoded[i] = Named(Messages[i])
      BY <1>4 DEF Cut, FramesUsed
    <3>2. \A i \in 1..(k + 1) : i \in 1..k \/ i = k + 1
      OBVIOUS
    <3> QED
      BY <2>2, <2>7, <3>1, <3>2
  <2>11. FramesUsed(at)'
    <3>1. Len(decoded') <= sent' /\ Len(usedBytes') = at[Len(decoded')]
      BY <1>3, <2>1, <2>7, <2>9
    <3> QED
      BY <2>10, <3>1 DEF FramesUsed
  <2> QED
    BY <1>8, <2>11 DEF Cut
<1> QED
  BY <1>7, <1>9, <1>10

(* The invariant: what has been decoded, used, received and sent is cut where
   the frames are.                                                         *)
StreamInv == TypeOK /\ BytesConserved /\ Framed

(* Each step keeps it.                                                     *)
LEMMA FrameSteps ==
  TypeOK /\ BytesConserved /\ Framed /\ [Next]_vars => Framed'
<1> SUFFICES ASSUME TypeOK, BytesConserved, Framed, [Next]_vars, Whole', Clean
             PROVE  \E to \in [0..sent' -> Nat] : Cut(to)'
  BY DEF Framed
<1>1. \/ Encode \/ DecodeFrame
      \/ /\ UNCHANGED <<sent, encodedBytes, decoded, usedBytes>>
         /\ Whole' => Whole
  <2>1. CASE UNCHANGED vars
    BY <2>1 DEF vars, sendVars, recvVars, Whole
  <2>2. CASE WriteAll \/ WriteShort
    <3>1. UNCHANGED <<sent, encodedBytes, decoded, usedBytes, lost>>
      BY <2>2 DEF WriteAll, WriteShort, recvVars
    <3>2. shorts' = 0 => shorts = 0
      <4>1. shorts \in Nat
        BY SizesAssumption DEF TypeOK
      <4> QED
        BY <2>2, <4>1 DEF WriteAll, WriteShort
    <3> QED
      BY <3>1, <3>2 DEF Whole
  <2>3. CASE Read
    BY <2>3 DEF Read, sendVars, Whole
  <2>4. CASE ReadNothing \/ DecodeEnd \/ DecodeBeyond
    BY <2>4 DEF ReadNothing, DecodeEnd, DecodeBeyond, sendVars, Whole
  <2> QED
    BY <2>1, <2>2, <2>3, <2>4 DEF Next, Sender, Receiver
<1>2. CASE Encode
  <2>1. Whole
    BY <1>2 DEF Encode, Whole, recvVars
  <2>2. PICK at \in [0..sent -> Nat] : Cut(at)
    BY <2>1 DEF Framed
  <2> QED
    BY <1>2, <2>2, EncodeFrames
<1>3. CASE DecodeFrame
  <2>1. Whole
    BY <1>3 DEF DecodeFrame, Whole, sendVars
  <2>2. PICK at \in [0..sent -> Nat] : Cut(at)
    BY <2>1 DEF Framed
  <2>3. Cut(at)' /\ sent' = sent
    BY <1>3, <2>1, <2>2, DecodeFrames DEF DecodeFrame, sendVars
  <2> QED
    BY <2>2, <2>3
<1>4. CASE UNCHANGED <<sent, encodedBytes, decoded, usedBytes>> /\ (Whole' => Whole)
  <2>1. PICK at \in [0..sent -> Nat] : Cut(at)
    BY <1>4 DEF Framed
  <2>2. Cut(at)' /\ sent' = sent
    BY <1>4, <2>1 DEF Cut, FramesFollow, SignsStart, FramesUsed, FrameOf
  <2> QED
    BY <2>1, <2>2
<1> QED
  BY <1>1, <1>2, <1>3, <1>4

(* No frame, no cut.                                                       *)
LEMMA FrameStarts == Init => Framed
<1> SUFFICES ASSUME Init PROVE \E at \in [0..sent -> Nat] : Cut(at)
  BY DEF Framed
<1>1. /\ sent = 0 /\ encodedBytes = <<>> /\ usedBytes = <<>> /\ decoded = <<>>
      /\ Len(<<>>) = 0
  BY EmptySeq DEF Init
<1>2. PICK at \in [0..sent -> Nat] : at = [m \in 0..sent |-> 0]
  OBVIOUS
<1>3. at[0] = 0
  BY <1>1, <1>2
<1>4. FramesFollow(at)
  BY <1>1, <1>3 DEF FramesFollow
<1>5. SignsStart(at) /\ FramesUsed(at)
  BY <1>1, <1>3 DEF SignsStart, FramesUsed
<1> QED
  BY <1>4, <1>5 DEF Cut

(* The invariant holds of every stream.                                    *)
LEMMA StreamHolds == Spec => []StreamInv
<1>1. Init => StreamInv
  BY StreamStarts, FrameStarts DEF StreamInv
<1>2. StreamInv /\ [Next]_vars => StreamInv'
  BY StreamSteps, FrameSteps DEF StreamInv
<1> QED
  BY <1>1, <1>2, PTL DEF Spec

(* For any clean messages, buffers and socket, and wherever the stream is cut:
   Decode returns the messages in their order, each once and as it was sent,
   as long as no read fills the buffer exactly (tcp_buffer.cc:150) and no write
   is cut short (tcp_connection.cc:268); also when a length has arrived in part
   and the rest of it is read from bytes that nobody has written.           *)
THEOREM MessagesInOrder == Spec => []DecodedInOrder
<1>1. StreamInv => DecodedInOrder
  <2> SUFFICES ASSUME TypeOK, Framed, Whole, Clean PROVE IsPrefix(decoded, Encoded)
    BY DEF StreamInv, DecodedInOrder
  <2>1. PICK at \in [0..sent -> Nat] : Cut(at)
    BY DEF Framed
  <2>2. /\ Len(decoded) \in Nat /\ sent \in Nat /\ Len(Messages) \in Nat
        /\ sent <= Len(Messages) /\ Len(decoded) <= sent
    BY <2>1, MessagesAssumption, LenProperties DEF TypeOK, Cut, FramesUsed
  <2>3. Len(Encoded) = Len(Messages)
    BY <2>2 DEF Encoded
  <2>4. \A i \in 1..Len(decoded) : decoded[i] = Encoded[i]
    BY <2>1, <2>2 DEF Cut, FramesUsed, Encoded
  <2> QED
    BY <2>2, <2>3, <2>4 DEF IsPrefix
<1> QED
  BY <1>1, StreamHolds, PTL

(* Decode turns round for ever only over a frame of which no more has arrived
   than the start sign and a part of the length (tinypb_coder.cc 66-98): with
   the whole length there, a clean stream that has lost nothing has its frame
   decoded or waited for.                                                  *)
THEOREM SpinsOverALengthInPart ==
  Spec => [](Whole /\ Clean /\ Spins => ReadRemain(myRecvBuffer) <= LenBytes)
<1>1. StreamInv => (Whole /\ Clean /\ Spins => ReadRemain(myRecvBuffer) <= LenBytes)
  <2> SUFFICES ASSUME TypeOK, BytesConserved, Framed, Whole, Clean, Spins
               PROVE  ReadRemain(myRecvBuffer) <= LenBytes
    BY DEF StreamInv
  <2>1. PICK at \in [0..sent -> Nat] : Cut(at)
    BY DEF Framed
  <2>2. PICK b \in Buffers(ByteValues), k \in Nat : b = myRecvBuffer /\ k = Len(decoded)
    BY LenProperties DEF TypeOK
  <2>3. First(b) = b.r /\ PackageLen(b, b.r) <= 0
    BY <2>1, <2>2, NextFrame DEF Spins
  <2>4. \/ ReadRemain(b) <= LenBytes
        \/ /\ k < sent /\ Holds(b.bytes, b.r, FrameOf(k + 1))
           /\ Len(FrameOf(k + 1)) <= ReadRemain(b)
    BY <2>1, <2>2, NextFrame DEF Spins
  <2>5. CASE /\ k < sent /\ Holds(b.bytes, b.r, FrameOf(k + 1))
             /\ Len(FrameOf(k + 1)) <= ReadRemain(b)
    <3>1. k + 1 \in 1..Len(Messages)
      <4>1. sent \in Nat /\ Len(Messages) \in Nat /\ sent <= Len(Messages)
        BY MessagesAssumption, LenProperties DEF TypeOK
      <4> QED
        BY <2>5, <4>1
    <3>2. PICK m \in TinyProtocol, l \in Nat :
            m = Messages[k + 1] /\ l = Len(EncodeTinyPB(m)) /\ l <= MaxInt32
      BY <3>1, CleanFrame DEF FrameOf
    <3>3. b.r \in Nat /\ b.w \in Nat /\ ReadRemain(b) = b.w - b.r
      BY BufferType DEF ReadRemain
    <3>4. Holds(b.bytes, b.r, EncodeTinyPB(m)) /\ b.r + l <= b.w
      BY <2>5, <3>2, <3>3 DEF FrameOf
    <3>5. PackageLen(b, b.r) = l /\ l >= 26
      BY <3>2, <3>3, <3>4, FrameSeen
    <3> QED
      BY <2>3, <3>5
  <2> QED
    BY <2>2, <2>4, <2>5
<1> QED
  BY <1>1, StreamHolds, PTL


(* Decode goes outside the vector or its local arrays, where the behaviour is
   undefined, only over a length that has arrived in part, too
   (tinypb_coder.cc 66-98, 109-168), if no text is as long as the array it is
   copied to.                                                              *)
THEOREM UndefinedOverALengthInPart ==
  ASSUME \A m \in 1..Len(Messages) : Fits(Named(Messages[m]))
  PROVE  Spec => [][Whole /\ Clean /\ stage # "undefined" /\ stage' = "undefined"
                      => ReadRemain(myRecvBuffer) <= LenBytes]_vars
<1>1. StreamInv /\ [Next]_vars
        => [Whole /\ Clean /\ stage # "undefined" /\ stage' = "undefined"
              => ReadRemain(myRecvBuffer) <= LenBytes]_vars
  <2> SUFFICES ASSUME TypeOK, BytesConserved, Framed, Whole, Clean, Next,
                      stage # "undefined", stage' = "undefined"
               PROVE  ReadRemain(myRecvBuffer) <= LenBytes
    BY DEF StreamInv, vars
  <2>1. DecodeBeyond
    BY DEF Next, Sender, Receiver, Encode, WriteAll, WriteShort, Read, ReadNothing,
      DecodeEnd, DecodeFrame, sendVars, recvVars, vars
  <2>2. PICK at \in [0..sent -> Nat] : Cut(at)
    BY DEF Framed
  <2>0. PICK b \in Buffers(ByteValues) : b = myRecvBuffer
    BY DEF TypeOK
  <2>3. PICK k, F : b = myRecvBuffer /\ k = Len(decoded) /\ F = FrameOf(k + 1)
    BY <2>0
  <2>4. /\ Stops(b) # {}
        /\ LooksBeyond(b, First(b)) \/ Overruns(b, FrameAt(b, First(b)))
    BY <2>1, <2>3 DEF DecodeBeyond
  <2>5. /\ First(b) = b.r /\ k \in Nat /\ k < sent
        /\ \/ ReadRemain(b) <= LenBytes
           \/ Holds(b.bytes, b.r, F) /\ Len(F) <= ReadRemain(b)
           \/ /\ PackageLen(b, b.r) = Len(F) /\ Len(F) \in Nat
              /\ ReadRemain(b) < Len(F) /\ LenBytes < ReadRemain(b)
    BY <2>2, <2>3, <2>4, NextStop
  <2>6. /\ b.r \in Nat /\ b.w \in Nat /\ ReadRemain(b) = b.w - b.r
        /\ b.w <= Size(b) /\ Size(b) \in Nat
    BY BufferType DEF ReadRemain, Size
  <2>7. CASE Holds(b.bytes, b.r, F) /\ Len(F) <= ReadRemain(b)
    <3>1. k + 1 \in 1..Len(Messages)
      <4>1. sent \in Nat /\ Len(Messages) \in Nat /\ sent <= Len(Messages)
        BY MessagesAssumption, LenProperties DEF TypeOK
      <4> QED
        BY <2>5, <4>1
    <3>2. PICK m \in TinyProtocol, l \in Nat :
            /\ m = Messages[k + 1] /\ l = Len(EncodeTinyPB(m)) /\ l <= MaxInt32
            /\ Printable(Named(m)) /\ Fits(Named(m)) /\ F = EncodeTinyPB(m)
      BY <2>3, <3>1, CleanFrame DEF FrameOf
    <3>3. Holds(b.bytes, b.r, EncodeTinyPB(m)) /\ b.r + l <= b.w
      BY <2>6, <2>7, <3>2
    <3>4. IsFrame(b, b.r)
      BY <2>6, <3>2, <3>3, FrameSeen
    <3>5. ~Overruns(b, FrameAt(b, b.r))
      BY <2>6, <3>2, <3>3, DecodeInvertsEncode
    <3> QED
      BY <2>4, <2>5, <3>4, <3>5 DEF IsFrame
  <2>8. CASE /\ PackageLen(b, b.r) = Len(F) /\ Len(F) \in Nat
             /\ ReadRemain(b) < Len(F) /\ LenBytes < ReadRemain(b)
    <3>1. b.r + LenBytes < Size(b) /\ ~(EndAt(b, b.r) < 0)
      BY <2>6, <2>8 DEF EndAt, LenBytes
    <3>2. ~LooksBeyond(b, b.r)
      BY <3>1 DEF LooksBeyond
    <3>3. ~IsFrame(b, b.r)
      BY <2>6, <2>8 DEF IsFrame, EndAt
    <3> QED
      BY <2>1, <2>3, <2>5, <3>2, <3>3 DEF DecodeBeyond
  <2> QED
    BY <2>3, <2>5, <2>7, <2>8
<1> QED
  BY <1>1, StreamHolds, PTL DEF Spec
=============================================================================
