---------------------------- MODULE TinyPBStream ----------------------------
(***************************************************************************)
(* One direction of a connection: TinyPBCoder::Encode and OnWrite on one   *)
(* side, a byte stream that is cut anywhere, OnRead and                    *)
(* TinyPBCoder::Decode on the other (net/coder/tinypb_coder.cc,            *)
(* net/tcp/tcp_connection.cc, over module TCPBuffer).                      *)
(*                                                                         *)
(* A frame is the start sign, the length of the whole, the fields and the  *)
(* end sign.  Identifier, method name and error information follow their   *)
(* lengths; the data has none, it is what the others leave.  The bytes of  *)
(* a field are numbers.                                                    *)
(***************************************************************************)
EXTENDS TCPBuffer

CONSTANTS Messages,      \* the messages to be sent, in order
          DefaultID,     \* the identifier of a message without one
          SendSize,      \* the size of mySendBuffer
          RecvSize,      \* the size of myRecvBuffer
          SocketSize,    \* what the network holds between the two
          MaxShort       \* bound: writes that are cut short

PB_START == 2
PB_END == 3

ByteValues == 0..255

(* Bytes of an integer field: sizeof(int32_t).                             *)
LenBytes == 4

(* The largest field and its zero byte: the local arrays of Decode.        *)
TINYPB_MSG_ID_SIZE == 128
TINYPB_METHOD_NAME_SIZE == 512
TINYPB_ERROR_INFO_SIZE == 512

(* int32_t: error codes and lengths.                                       *)
MaxInt32 == 2147483647
Int32 == (-MaxInt32 - 1)..MaxInt32

TinyProtocol == [myMessageID : Seq(ByteValues), myMethodName : Seq(ByteValues),
                 myErrorCode : Int32, myErrorInfo : Seq(ByteValues),
                 myPBData : Seq(ByteValues)]

ASSUME MessagesAssumption ==
  Messages \in Seq(TinyProtocol) /\ DefaultID \in Seq(ByteValues)
ASSUME SizesAssumption ==
  /\ MaxShort \in Nat
  /\ SendSize \in Nat \ {0} /\ RecvSize \in Nat \ {0} /\ SocketSize \in Nat \ {0}

VARIABLES
  sent,            \* how many messages have been encoded
  mySendBuffer,
  wire,            \* bytes in the network
  myRecvBuffer,
  stage,           \* where the receiver is
  decoded,         \* the messages Decode has returned
  shorts,          \* writes that were cut short
  lost,            \* whether a read was not counted
  encodedBytes,    \* all bytes that were put into mySendBuffer
  usedBytes        \* all bytes that Decode has moved the read index over

sendVars == <<sent, mySendBuffer, shorts, encodedBytes>>
recvVars == <<myRecvBuffer, stage, decoded, lost, usedBytes>>
vars == <<sendVars, wire, recvVars>>

TypeOK ==
  /\ sent \in 0..Len(Messages)
  /\ mySendBuffer \in Buffers(ByteValues) /\ myRecvBuffer \in Buffers(ByteValues)
  /\ wire \in Seq(ByteValues) /\ Len(wire) <= SocketSize
  /\ stage \in {"idle", "read", "decode", "undefined"}
  /\ decoded \in Seq(TinyProtocol)
  /\ shorts \in 0..MaxShort
  /\ lost \in BOOLEAN
  /\ encodedBytes \in Seq(ByteValues) /\ usedBytes \in Seq(ByteValues)

Init ==
  /\ sent = 0
  /\ mySendBuffer = NewBuffer(SendSize) /\ myRecvBuffer = NewBuffer(RecvSize)
  /\ wire = <<>>
  /\ stage = "idle"
  /\ decoded = <<>>
  /\ shorts = 0 /\ lost = FALSE
  /\ encodedBytes = <<>> /\ usedBytes = <<>>

-----------------------------------------------------------------------------
(* The sender.                                                             *)

(* An integer in network byte order, and back: it is signed.               *)
NetBytes(n) ==
  <<(n \div 16777216) % 256, (n \div 65536) % 256, (n \div 256) % 256, n % 256>>

Signed(byte) == IF byte < 128 THEN byte ELSE byte - 256

GetInt32FromNetByte(s) ==
  Signed(s[1]) * 16777216 + s[2] * 65536 + s[3] * 256 + s[4]

(* A message without an identifier gets one, for good.                     *)
Named(message) ==
  IF message.myMessageID = <<>> THEN [message EXCEPT !.myMessageID = DefaultID]
  ELSE message

Counted(s) == NetBytes(Len(s)) \o s

CheckSum == 1

(* Mutant: the method name goes before the identifier. *)
FieldsSwapped(m) ==
  Counted(m.myMethodName) \o Counted(m.myMessageID) \o NetBytes(m.myErrorCode)
    \o Counted(m.myErrorInfo) \o m.myPBData \o NetBytes(CheckSum)

Fields(m) ==
  Counted(m.myMessageID) \o Counted(m.myMethodName) \o NetBytes(m.myErrorCode)
    \o Counted(m.myErrorInfo) \o m.myPBData \o NetBytes(CheckSum)

EncodeTinyPB(message) ==
  LET fields == Fields(Named(message))
  IN  <<PB_START>> \o NetBytes(Len(fields) + LenBytes + 2) \o fields \o <<PB_END>>

Encode ==
  /\ sent < Len(Messages)
  /\ \E frame \in {EncodeTinyPB(Messages[sent + 1])} :
        /\ mySendBuffer' = WriteToBuffer(mySendBuffer, frame)
        /\ encodedBytes' = encodedBytes \o frame
  /\ sent' = sent + 1
  /\ UNCHANGED <<shorts, wire, recvVars>>

Room == SocketSize - Len(wire)

(* OnWrite: write() takes all there is.                                    *)
WriteAll ==
  /\ ReadRemain(mySendBuffer) \in 1..Room
  /\ wire' = wire \o Content(mySendBuffer)
  /\ mySendBuffer' = MoveReadIndex(mySendBuffer, ReadRemain(mySendBuffer))
  /\ UNCHANGED <<sent, shorts, encodedBytes, recvVars>>

(* It takes less, and the loop of OnWrite goes on; or it takes nothing, and
   OnWrite waits to be called again.  Neither moves the read index.        *)
WriteShort ==
  /\ 0 < Room /\ Room < ReadRemain(mySendBuffer)
  /\ shorts < MaxShort
  /\ wire' = wire \o SubSeq(Content(mySendBuffer), 1, Room)
  /\ shorts' = shorts + 1
  /\ UNCHANGED <<sent, mySendBuffer, encodedBytes, recvVars>>

-----------------------------------------------------------------------------
(* The receiver.                                                           *)

(* read() returns k bytes, as many as the buffer can take or what has
   arrived so far.                                                         *)
Read ==
  /\ stage \in {"idle", "read"}
  /\ LET readMax == WriteRemain(Roomy(myRecvBuffer))
     IN  \E k \in 1..Len(wire) :
           /\ k <= readMax
           /\ myRecvBuffer' = Received(myRecvBuffer, SubSeq(wire, 1, k))
           /\ wire' = SubSeq(wire, k + 1, Len(wire))
           /\ stage' = IF k = readMax THEN "read" ELSE "decode"
           /\ lost' = (lost \/ k = readMax)
  /\ UNCHANGED <<sendVars, decoded, usedBytes>>

(* After a read that filled the buffer there is nothing more: EAGAIN.      *)
ReadNothing ==
  /\ stage = "read"
  /\ stage' = "decode"
  /\ UNCHANGED <<sendVars, wire, myRecvBuffer, decoded, lost, usedBytes>>

(* Bytes of the vector, counted or not, after a start sign.                *)
PackageLen(b, i) == GetInt32FromNetByte(SubSeq(b.bytes, i + 2, i + 1 + LenBytes))

MayStart(b, i) == Byte(b, i) = PB_START /\ i + 1 < b.w

EndAt(b, i) == i + PackageLen(b, i) - 1

(* The length, or the byte that it leads to, is not in the vector.         *)
LooksBeyond(b, i) ==
  MayStart(b, i) /\ (i + LenBytes < Size(b) => EndAt(b, i) < 0)

IsFrame(b, i) ==
  /\ MayStart(b, i) /\ ~LooksBeyond(b, i)
  /\ EndAt(b, i) < b.w /\ Byte(b, EndAt(b, i)) = PB_END

(* Where the scan of Decode stops.                                         *)
Stops(b) == {i \in b.r..(b.w - 1) : IsFrame(b, i) \/ LooksBeyond(b, i)}
First(b) == LET stops == Stops(b) IN CHOOSE i \in stops : \A j \in stops : i <= j

DecodeEnd ==
  /\ stage = "decode"
  /\ Stops(myRecvBuffer) = {}
  /\ stage' = "idle"
  /\ UNCHANGED <<sendVars, wire, myRecvBuffer, decoded, lost, usedBytes>>

-----------------------------------------------------------------------------
(* The fields of the frame at an index: where each length, or the code,    *)
(* begins, where the data does and where the end sign is.                  *)

IntAt(b, i) ==
  IF i \notin 0..(Size(b) - LenBytes) THEN 0
  ELSE GetInt32FromNetByte(SubSeq(b.bytes, i + 1, i + LenBytes))

FrameAt(b, index) ==
  LET id   == index + 1 + LenBytes
      name == id + LenBytes + IntAt(b, id)
      code == name + LenBytes + IntAt(b, name)
      info == code + LenBytes
  IN  [id |-> id, name |-> name, code |-> code, info |-> info,
       data |-> info + LenBytes + IntAt(b, info),
       end |-> EndAt(b, index)]

(* memcpy of a counted field: inside the vector and into its local array.  *)
Copies(b, from, to, size) ==
  to - from - LenBytes \in 0..(size - 1) /\ to <= Size(b)

DataLen(f) == f.end - LenBytes - f.data

(* A field that is parsed is not where it should be, or a string is made
   with a negative length.                                                 *)
Overruns(b, f) ==
  /\ f.id < f.end
  /\ \/ ~Copies(b, f.id, f.name, TINYPB_MSG_ID_SIZE)
     \/ /\ f.name < f.end
        /\ \/ ~Copies(b, f.name, f.code, TINYPB_METHOD_NAME_SIZE)
           \/ f.code < f.end /\ f.info > Size(b)
           \/ /\ f.info < f.end
              /\ \/ ~Copies(b, f.info, f.data, TINYPB_ERROR_INFO_SIZE)
                 \/ DataLen(f) < 0

(* A field begins behind the end sign.                                     *)
ParseError(f) == \E start \in {f.id, f.name, f.code, f.info} : start >= f.end

(* std::string of a char array: up to the first zero.                      *)
Text(s) ==
  LET zeros == {i \in 1..Len(s) : s[i] = 0}
  IN  IF zeros = {} THEN s
      ELSE SubSeq(s, 1, (CHOOSE i \in zeros : \A j \in zeros : i <= j) - 1)

(* From one length to the next.                                            *)
TextOf(b, from, to) == Text(SubSeq(b.bytes, from + LenBytes + 1, to))

Parsed(b, f) ==
  [myMessageID |-> TextOf(b, f.id, f.name),
   myMethodName |-> TextOf(b, f.name, f.code),
   myErrorCode |-> IntAt(b, f.code),
   myErrorInfo |-> TextOf(b, f.info, f.data),
   myPBData |-> SubSeq(b.bytes, f.data + 1, f.data + DataLen(f))]

(* The read index moves by the length of the frame, from where it is.      *)
TakeFrame(b, f, len) ==
  /\ myRecvBuffer' = MoveReadIndex(b, len)
  /\ usedBytes' = usedBytes \o Skipped(b, len)
  /\ decoded' = IF ParseError(f) THEN decoded ELSE Append(decoded, Parsed(b, f))


DecodeFrame ==
  /\ stage = "decode"
  /\ Stops(myRecvBuffer) # {}
  /\ \E index \in {First(myRecvBuffer)} :
        /\ IsFrame(myRecvBuffer, index)
        /\ \E f \in {FrameAt(myRecvBuffer, index)} :
              /\ ~Overruns(myRecvBuffer, f)
              /\ TakeFrame(myRecvBuffer, f, PackageLen(myRecvBuffer, index))
  /\ UNCHANGED <<sendVars, wire, stage, lost>>

(* The length, or a field, is not in the vector: undefined, or the program
   ends with an exception.                                                 *)
DecodeBeyond ==
  /\ stage = "decode"
  /\ Stops(myRecvBuffer) # {}
  /\ \E index \in {First(myRecvBuffer)} :
        \/ LooksBeyond(myRecvBuffer, index)
        \/ /\ IsFrame(myRecvBuffer, index)
           /\ \E f \in {FrameAt(myRecvBuffer, index)} : Overruns(myRecvBuffer, f)
  /\ stage' = "undefined"
  /\ UNCHANGED <<sendVars, wire, myRecvBuffer, decoded, lost, usedBytes>>

-----------------------------------------------------------------------------
Sender == Encode \/ WriteAll \/ WriteShort
Receiver == Read \/ ReadNothing \/ DecodeEnd \/ DecodeFrame \/ DecodeBeyond

(* Nothing more to send or to read, or nobody to read it.                  *)
Finished ==
  /\ sent = Len(Messages)
  /\ stage = "undefined" \/ (stage = "idle" /\ wire = <<>>)

Next == Sender \/ Receiver \/ (Finished /\ UNCHANGED vars)

(* Both threads run.                                                       *)
Spec == Init /\ [][Next]_vars /\ WF_vars(Sender) /\ WF_vars(Receiver)

-----------------------------------------------------------------------------
(* The length field of a partly received frame is zero, or negative, behind
   the end sign of a frame that is still in the vector: Decode finds a frame
   of no bytes, for ever.                                                  *)
Spins ==
  /\ stage = "decode" /\ Stops(myRecvBuffer) # {}
  /\ IsFrame(myRecvBuffer, First(myRecvBuffer))
  /\ PackageLen(myRecvBuffer, First(myRecvBuffer)) <= 0

Whole == ~lost /\ shorts = 0

(* No byte is left out, doubled or overtaken between WriteToBuffer and the
   read index of Decode, through two buffers that grow and are compacted, as
   long as no read fills the buffer and no write is cut short.             *)
BytesConserved ==
  Whole => encodedBytes =
    usedBytes \o Content(myRecvBuffer) \o wire \o Content(mySendBuffer)

IsPrefix(s, t) == Len(s) <= Len(t) /\ \A i \in 1..Len(s) : s[i] = t[i]

(* No start sign behind the first byte of a frame, no zero in a text, and a
   length that fits its field.                                             *)
Clean ==
  \A m \in 1..Len(Messages) :
    LET message == Named(Messages[m])
        frame == EncodeTinyPB(message)
    IN  /\ Len(frame) <= MaxInt32
        /\ \A i \in 2..Len(frame) : frame[i] # PB_START
        /\ \A text \in {message.myMessageID, message.myMethodName,
                        message.myErrorInfo} : Text(text) = text

Encoded == [m \in 1..Len(Messages) |-> Named(Messages[m])]

(* Decode returns the messages in order, each once and with every field as
   it was, wherever the stream was cut (tcp_buffer.h:4: the buffer is for
   packets that stick together or come in pieces), when no frame has a start
   sign in it or is longer than its length can say.                        *)
DecodedInOrder ==
  Whole /\ Clean => IsPrefix(decoded, Encoded)


-----------------------------------------------------------------------------
(* What the source says and the code does not do: these fail, see
   TinyPBStream_{fill,short,false,spin}.cfg.                               *)

(* "There is no room to read now, so the next pass will grow the buffer"
   (tcp_connection.cc:105): what was read stays read.                      *)
ReadIsCounted == ~lost

(* "Send the data when the fd is writable again" (tcp_connection.cc:279):
   what has been sent is not sent again.                                   *)
OnTheWire == usedBytes \o Content(myRecvBuffer) \o wire

StreamIsWhatWasEncoded ==
  ~lost => IsPrefix(OnTheWire, encodedBytes)

(* "If the end sign is where the length says, it is a whole packet"
   (tinypb_coder.cc:52): only what was sent is decoded.                    *)
DecodedWasSent ==
  Whole => \A i \in 1..Len(decoded) :
             \E m \in 1..Len(Messages) : decoded[i] = Encoded[m]

(* Decode returns, also when a packet comes in pieces (tcp_buffer.h:4).    *)
DecodeReturns == stage = "decode" ~> stage # "decode"
=============================================================================
