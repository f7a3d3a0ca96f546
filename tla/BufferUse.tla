----------------------------- MODULE BufferUse ------------------------------
(***************************************************************************)
(* One TCPBuffer and everything that TcpConnection and the coders do with  *)
(* it, in any order: growth, compaction and the two indices against the    *)
(* queue of bytes that it is to be.                                        *)
(***************************************************************************)
EXTENDS TCPBuffer

CONSTANTS BufferSize,   \* the size a connection gives its buffers
          Chunks,       \* the byte sequences that are written or received
          MaxSize       \* bound: buffers larger than this are not followed

Value == {0} \cup UNION {{s[i] : i \in 1..Len(s)} : s \in Chunks}

ASSUME BufferSizeAssumption == BufferSize \in Nat \ {0} /\ MaxSize \in Nat
ASSUME ChunksAssumption == \A s \in Chunks : s \in Seq(Value)

VARIABLES
  buf,             \* the buffer
  out              \* the bytes that the last operation took out

useVars == <<buf, out>>

UseTypeOK == buf \in Buffers(Value) /\ out \in Seq(Value)

UseInit == buf = NewBuffer(BufferSize) /\ out = <<>>

(* The coders: WriteToBuffer.                                              *)
Write(s) ==
  /\ buf' = WriteToBuffer(buf, s)
  /\ Size(buf') <= MaxSize
  /\ out' = <<>>

(* OnRead: s is received, and counted unless it fills the buffer.          *)
Receive(s) ==
  /\ Len(s) <= WriteRemain(Roomy(buf))
  /\ buf' = Received(buf, s)
  /\ Size(buf') <= MaxSize
  /\ out' = IF Len(s) < WriteRemain(Roomy(buf)) THEN <<>> ELSE out

(* StringCoder: ReadFromBuffer.                                            *)
Take(n) ==
  /\ buf' = ReadFromBuffer(buf, n)
  /\ out' = Taken(buf, n)

(* OnWrite and Decode: MoveReadIndex over bytes they have used.            *)
Skip(n) ==
  /\ buf' = MoveReadIndex(buf, n)
  /\ out' = IF Skippable(buf, n) THEN Skipped(buf, n) ELSE out

UseNext ==
  \/ \E s \in Chunks : Write(s) \/ Receive(s)
  \/ \E n \in 0..Size(buf) : Take(n)
  \/ \E n \in (-1)..Size(buf) : Skip(n)

UseSpec == UseInit /\ [][UseNext]_useVars

-----------------------------------------------------------------------------
(* Whatever the indices, the growth (57-62, 95-111) and the compaction
   (114-132) do, bytes leave in the order they came, none twice and none left
   out, up to those that MoveWriteIndex refuses to count.                  *)
Queue == INSTANCE ByteQueue WITH content <- Content(buf)

RefinesByteQueue == Queue!Spec
=============================================================================
