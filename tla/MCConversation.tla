--------------------------- MODULE MCConversation ---------------------------
(* A request of each kind.  r5 is written from the callback of r2's answer,
   under the same identifier; r4 is listened for as soon as it is written;
   r8 is written from the send callback of r3.                             *)
EXTENDS Conversation

CONSTANTS r1, r2, r3, r4, r5, r6, r7, r8

Mixed == [r \in {r1, r2, r3, r4, r5, r6, r7, r8} |->
            CASE r = r1 -> "noService" [] r = r2 -> "order" [] r = r3 -> "later"
              [] r = r4 -> "stub" [] r = r5 -> "asyncStub" [] r = r6 -> "cheapOrder"
              [] r = r7 -> "replyingStub" [] r = r8 -> "order"]

Ids == [r \in {r1, r2, r3, r4, r5, r6, r7, r8} |-> IF r = r5 THEN r2 ELSE r]

Own == [r \in Requests |-> r]
Alone == [r \in Requests |-> <<>>]
Chained == [r \in Requests |-> CASE r = r2 -> <<r5>> [] r = r5 -> <<r7, r1>> [] r = r4 -> <<r3, r6>>
                                 [] OTHER -> <<>>]
Pushing == [r \in Requests |-> IF r = r3 THEN <<r8>> ELSE <<>>]
=============================================================================
