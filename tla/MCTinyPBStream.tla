--------------------------- MODULE MCTinyPBStream ---------------------------
(* Streams of one to three messages.                                       *)
EXTENDS TinyPBStream

Message(id, name, code, info, data) ==
  [myMessageID |-> id, myMethodName |-> name, myErrorCode |-> code,
   myErrorInfo |-> info, myPBData |-> data]

OneByteID == <<49>>

Request(data) == Message(<<7>>, <<8>>, 0, <<>>, data)
Reply == Message(<<>>, <<>>, 5, <<9>>, <<>>)

OneMessage == <<Request(<<6>>)>>
TwoMessages == <<Request(<<6, 3>>), Reply>>
ThreeMessages == TwoMessages \o <<Request(<<4>>)>>

(* The data has the look of a frame in it. *)
Look == Message(<<5>>, <<8>>, 0, <<>>, <<5>>)
Tricky == <<Request(EncodeTinyPB(Look))>>
=============================================================================
