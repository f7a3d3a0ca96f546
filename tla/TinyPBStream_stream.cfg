\* Three messages, of all fields and with a default identifier, through buffers
\* of two frames.
SPECIFICATION Spec
CONSTANTS
  Messages <- ThreeMessages
  DefaultID <- OneByteID
  SendSize = 60
  RecvSize = 60
  SocketSize = 40
  MaxShort = 1
INVARIANT BytesConserved
INVARIANT DecodedInOrder
 
