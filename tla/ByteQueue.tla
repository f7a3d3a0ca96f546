------------------------------ MODULE ByteQueue -----------------------------
(* What a buffer promises: bytes leave it in the order they came, once.    *)
EXTENDS Integers, Sequences

CONSTANT Chunks    \* the byte sequences that may be put in

VARIABLES
  content,         \* the bytes in the queue
  out              \* the bytes that the last operation took out

Init == content = <<>> /\ out = <<>>

Put(s) == content' = content \o s /\ out' = <<>>

Take(n) ==
  /\ out' = SubSeq(content, 1, n)
  /\ content' = SubSeq(content, n + 1, Len(content))

Next == (\E s \in Chunks : Put(s)) \/ (\E n \in 0..Len(content) : Take(n))

Spec == Init /\ [][Next]_<<content, out>>
=============================================================================
