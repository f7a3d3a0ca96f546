---------------------------- MODULE Conversation ----------------------------
(***************************************************************************)
(* A client with several requests on one connection (TcpClient and the     *)
(* client half of TcpConnection) and the server that answers them (module  *)
(* RpcServer).  The client keeps a vector of what it has to send, each     *)
(* with a send callback, and a map from message identifiers to the         *)
(* callbacks that wait for an answer; the server answers in its own order. *)
(*                                                                         *)
(* A handler is one step.  A handler that finds several messages takes     *)
(* them one after the other, as it would if they came one by one; so here  *)
(* each comes alone.  Sockets carry whole messages, module TinyPBStream    *)
(* their bytes.                                                            *)
(***************************************************************************)
EXTENDS RpcServer, SequencesExt

CONSTANTS Id,           \* the message identifier that each request is given
          AtOnce,       \* those with ReadMessage right after WriteMessage; the
                        \* others call it from the send callback
          AfterSend,    \* what the send callback of each writes
          AfterAnswer   \* what the receive callback of each writes

ASSUME ClientAssumption ==
  /\ Requests \subseteq DOMAIN Id /\ AtOnce \subseteq Requests
  /\ AfterSend \in [Requests -> Seq(Requests)]
  /\ AfterAnswer \in [Requests -> Seq(Requests)]

(* Requests written from a callback.                                       *)
FromSend == UNION {ToSet(AfterSend[q]) : q \in Requests}
FromAnswer == UNION {ToSet(AfterAnswer[q]) : q \in Requests}

(* A request is a message of its own: the callback of one answer writes it,
   and once.                                                               *)
ASSUME SendersAssumption ==
  /\ FromSend \cap (FromAnswer \cup AtOnce) = {}
  /\ \A q \in FromSend : AfterSend[q] = <<>>
  /\ \A p, q \in Requests :
       \A i \in DOMAIN AfterAnswer[p], j \in DOMAIN AfterAnswer[q] :
         AfterAnswer[p][i] = AfterAnswer[q][j] => p = q /\ i = j

(* Two requests have one identifier only if one is written from the callback
   of the other and listened for later, and neither is answered twice: a
   program with both under way could not tell their answers apart.         *)
ASSUME IdAssumption ==
  \A q, r \in Requests :
    q # r /\ Id[q] = Id[r] =>
      /\ r \in ToSet(AfterAnswer[q]) \ AtOnce \/ q \in ToSet(AfterAnswer[r]) \ AtOnce
      /\ "replyingStub" \notin {Kind[q], Kind[r]}

VARIABLES
  sendCb,        \* mySendCbCollection, in order
  recvCb,        \* myRecvCbCollection: from identifiers to requests
  unsent,        \* requests in the client's mySendBuffer
  onOut, onIn,   \* what the client's FDEvent listens to
  written,       \* requests that WriteMessage was called for
  toServer,      \* requests in the socket
  sent,          \* how many of the answers the server's OnWrite has written
  read,          \* how many of them the client's OnRead has read
  got,           \* what the receive callback of each request was run with
  dropped,       \* answers that found no callback
  peer,          \* what the server's socket knows: "open", "closed", "reset"
  killed         \* a signal has ended the server's process

clientVars == <<sendCb, recvCb, unsent, onOut, onIn, written, read, got, dropped>>
socketVars == <<toServer, sent, peer, killed>>
serverVars == <<callVars, answers, runTime, conn, crashed>>
allVars == <<clientVars, socketVars, serverVars>>

ConversationTypeOK ==
  /\ TypeOK
  /\ sendCb \in Seq(Requests) /\ unsent \in Seq(Requests) /\ toServer \in Seq(Requests)
  /\ \A i \in DOMAIN recvCb : recvCb[i] \in written /\ Id[recvCb[i]] = i
  /\ onOut \in BOOLEAN /\ onIn \in BOOLEAN
  /\ written \in SUBSET Requests /\ dropped \in SUBSET Requests
  /\ got \in [Requests -> Seq(Requests)]
  /\ read \in Nat /\ sent \in Nat /\ read <= sent /\ sent <= Len(answers)
  /\ peer \in {"open", "closed", "reset"} /\ killed \in BOOLEAN

ConversationInit ==
  /\ Init
  /\ sendCb = <<>> /\ recvCb = <<>> /\ unsent = <<>>
  /\ onOut = FALSE /\ onIn = FALSE
  /\ written = {} /\ toServer = <<>> /\ sent = 0 /\ read = 0
  /\ got = [r \in Requests |-> <<>>] /\ dropped = {}
  /\ peer = "open" /\ killed = FALSE

-----------------------------------------------------------------------------
(* The client.                                                             *)

(* ReadMessage for each of rs, whose identifiers differ: insert() leaves a
   callback that is there under the identifier.                            *)
Registered(cbs, rs) ==
  [i \in DOMAIN cbs \cup {Id[r] : r \in rs} |->
     IF i \in DOMAIN cbs THEN cbs[i] ELSE CHOOSE r \in rs : Id[r] = i]

(* WriteMessage for each of rs: PushSendMessage and ListenWrite.           *)
WriteMessages(rs) ==
  /\ written' = written \cup ToSet(rs)
  /\ sendCb' = sendCb \o rs
  /\ onOut' = (onOut \/ rs # <<>>)

ReadAtOnce(rs) == ToSet(rs) \cap AtOnce

(* The program writes a request, from its connect callback or a timer.     *)
ProgramWrites(r) ==
  /\ peer = "open"
  /\ r \notin written \cup FromSend \cup FromAnswer
  /\ WriteMessages(<<r>>)
  /\ recvCb' = Registered(recvCb, ReadAtOnce(<<r>>))
  /\ onIn' = (onIn \/ r \in AtOnce)
  /\ UNCHANGED <<unsent, read, got, dropped, socketVars, serverVars>>

(* Mutant: what finds the socket full is not kept. *)
ClientOnWriteLoses(all) ==
  LET encoded == unsent \o sendCb
      pushed == UNION {ToSet(AfterSend[r]) : r \in ToSet(sendCb)}
      reading == (ToSet(sendCb) \cup pushed) \ AtOnce
  IN /\ peer = "open" /\ onOut
     /\ all \/ encoded # <<>>
     /\ unsent' = IF all THEN <<>> ELSE unsent
     /\ toServer' = IF all THEN toServer \o encoded ELSE toServer
     /\ onOut' = (~all \/ pushed # {})
     /\ written' = written \cup pushed
     /\ sendCb' = <<>>
     /\ recvCb' = Registered(recvCb, reading)
     /\ onIn' = (onIn \/ reading # {})
     /\ UNCHANGED <<read, got, dropped, sent, peer, killed, serverVars>>

(* Mutant: send callbacks wait until everything is written. *)
ClientOnWriteWaits(all) ==
  LET encoded == unsent \o sendCb
      pushed == UNION {ToSet(AfterSend[r]) : r \in ToSet(sendCb)}
      reading == (ToSet(sendCb) \cup pushed) \ AtOnce
  IN /\ peer = "open" /\ onOut
     /\ unsent' = IF all THEN <<>> ELSE encoded
     /\ toServer' = IF all THEN toServer \o encoded ELSE toServer
     /\ onOut' = (~all \/ pushed # {})
     /\ written' = written \cup pushed
     /\ sendCb' = <<>>
     /\ recvCb' = IF all THEN Registered(recvCb, reading) ELSE recvCb
     /\ onIn' = (onIn \/ all)
     /\ UNCHANGED <<read, got, dropped, sent, peer, killed, serverVars>>

(* OnWrite encodes what is to be sent and writes it, or finds the socket
   full.  Either way it runs the send callbacks, those of messages that they
   push themselves included, and clears the collection: what a send callback
   has pushed is not encoded any more.                                     *)
ClientOnWrite(all) ==
  LET encoded == unsent \o sendCb
      pushed == UNION {ToSet(AfterSend[r]) : r \in ToSet(sendCb)}
      reading == (ToSet(sendCb) \cup pushed) \ AtOnce
  IN /\ peer = "open" /\ onOut
     /\ all \/ encoded # <<>>
     /\ unsent' = IF all THEN <<>> ELSE encoded
     /\ toServer' = IF all THEN toServer \o encoded ELSE toServer
     /\ onOut' = (~all \/ pushed # {})
     /\ written' = written \cup pushed
     /\ sendCb' = <<>>
     /\ recvCb' = Registered(recvCb, reading)
     /\ onIn' = (onIn \/ reading # {})
     /\ UNCHANGED <<read, got, dropped, sent, peer, killed, serverVars>>

(* Mutant: the callback is not erased. *)
ClientOnReadKeeps ==
  /\ peer = "open" /\ onIn /\ read < sent
  /\ read' = read + 1
  /\ LET r == answers[read + 1].of
         id == Id[r]
     IN IF id \in DOMAIN recvCb
          THEN LET next == AfterAnswer[recvCb[id]]
               IN /\ got' = [got EXCEPT ![recvCb[id]] = Append(@, r)]
                  /\ WriteMessages(next)
                  /\ recvCb' = Registered(recvCb, ReadAtOnce(next))
                  /\ UNCHANGED dropped
          ELSE /\ dropped' = dropped \cup {r}
               /\ UNCHANGED <<got, written, sendCb, onOut, recvCb>>
  /\ UNCHANGED <<unsent, onIn, socketVars, serverVars>>

(* OnRead and OnExcute: the callback of the answer's identifier is run, may
   write further requests, and is erased then; an answer that finds none is
   dropped.                                                                *)
ClientOnRead ==
  /\ peer = "open" /\ onIn /\ read < sent
  /\ read' = read + 1
  /\ LET r == answers[read + 1].of
         id == Id[r]
     IN IF id \in DOMAIN recvCb
          THEN LET next == AfterAnswer[recvCb[id]]
               IN /\ got' = [got EXCEPT ![recvCb[id]] = Append(@, r)]
                  /\ WriteMessages(next)
                  /\ recvCb' = LET cbs == Registered(recvCb, ReadAtOnce(next))
                               IN Restrict(cbs, DOMAIN cbs \ {id})
                  /\ UNCHANGED dropped
          ELSE /\ dropped' = dropped \cup {r}
               /\ UNCHANGED <<got, written, sendCb, onOut, recvCb>>
  /\ UNCHANGED <<unsent, onIn, socketVars, serverVars>>

(* ~TcpClient closes the descriptor; the socket sends a reset if it holds
   answers that nobody has read.                                           *)
ClientGone ==
  /\ peer = "open"
  /\ peer' = IF read < sent THEN "reset" ELSE "closed"
  /\ sendCb' = <<>> /\ recvCb' = <<>> /\ unsent' = <<>>
  /\ onOut' = FALSE /\ onIn' = FALSE
  /\ UNCHANGED <<written, read, got, dropped, toServer, sent, killed, serverVars>>

-----------------------------------------------------------------------------
(* The server: module RpcServer, fed by the socket.                        *)

ServerAlive == ~killed /\ ~crashed

(* OnRead and OnExcute of the server.                                      *)
ServerOnRead ==
  /\ ServerAlive /\ toServer # <<>>
  /\ Dispatch(Head(toServer))
  /\ toServer' = Tail(toServer)
  /\ UNCHANGED <<clientVars, sent, peer, killed>>

ServerCallback ==
  /\ ServerAlive
  /\ \E r \in Requests : LaterReplies(r) \/ ClosureRuns(r)
  /\ UNCHANGED <<clientVars, socketVars>>

(* OnWrite: the answers since the last time.  A client that has closed sends
   a reset for them, which comes before the next write or does not; on a
   connection that was reset the write raises SIGPIPE, which nobody handles. *)
ServerOnWrite ==
  /\ ServerAlive /\ conn = "Connected" /\ sent < Len(answers)
  /\ sent' = Len(answers)
  /\ peer' \in IF peer = "closed" THEN {"closed", "reset"} ELSE {peer}
  /\ killed' = (peer = "reset")
  /\ UNCHANGED <<clientVars, toServer, serverVars>>

(* OnRead finds the end of the stream, also after requests that it has read
   in the same turn and does not decode any more; the connection is closed
   and collected.                                                          *)
ServerLeft ==
  /\ ServerAlive /\ peer # "open"
  /\ ClientLeaves \/ Collected
  /\ UNCHANGED <<clientVars, socketVars>>

-----------------------------------------------------------------------------
Over == peer # "open" \/ killed \/ crashed

ConversationNext ==
  \/ \E r \in Requests : ProgramWrites(r)
  \/ \E all \in BOOLEAN : ClientOnWrite(all)
  \/ ClientOnRead \/ ClientGone
  \/ ServerOnRead \/ ServerCallback \/ ServerOnWrite \/ ServerLeft

(* Both loops run, a socket takes what is written in the end, and services
   keep no callback for ever.                                              *)
ConversationSpec ==
  /\ ConversationInit /\ [][ConversationNext]_allVars
  /\ WF_allVars(ClientOnWrite(TRUE)) /\ WF_allVars(ClientOnRead)
  /\ WF_allVars(ServerOnRead) /\ WF_allVars(ServerOnWrite)
  /\ WF_allVars(ServerCallback)

-----------------------------------------------------------------------------
ToBeAnswered(r) == Kind[r] \notin Refused \cup {"cheapOrder"}

(* The callback of a request runs once at most, with the answer to this
   request and after the server has answered, in whatever order the service
   answers, and if it is served, was not written by a send callback and the
   connection stays, it runs (tcp_connection.cc 202-222 against
   rpc_dispatcher.cc 40-136).                                              *)
Promise == INSTANCE Exchange WITH
  Served <- {r \in Requests \ FromSend : ToBeAnswered(r)},
  asked <- written,
  served <- {r \in Requests : Answered(r)},
  over <- Over

ImplementsExchange == Promise!Spec

(* Every answer finds its callback: none comes before the send callback has
   asked for it, and none a second time, unless the service itself has called
   reply() (tcp_connection.cc 214-221, 290-297, rpc_interface.cc 27-45).   *)
NoAnswerDropped == \A r \in dropped : Kind[r] = "replyingStub"

(* Only a request that a send callback has written is lost: until it is
   dispatched, any other is among what is to be sent, in the client's buffer
   or in the socket, however often the socket is full (tcp_connection.cc
   235-302).                                                               *)
OnlyPushedAreLost ==
  ~Over => \A r \in (written \cap waiting) \ FromSend :
    r \in ToSet(sendCb) \cup ToSet(unsent) \cup ToSet(toServer)

OnItsWay(r) ==
  \/ r \in ToSet(sendCb) \cup ToSet(unsent) \cup ToSet(toServer) \cup kept
  \/ \E i \in read + 1 .. Len(answers) : answers[i].of = r

(* A callback waits for nothing only if the request was refused or the
   service does not answer, or a send callback has written it: of every
   other, the request or the answer is under way (rpc_dispatcher.cc 56-90,
   tcp_connection.cc 289-297).                                             *)
OnlyRefusedWaitInVain ==
  ~Over => \A i \in DOMAIN recvCb :
    OnItsWay(recvCb[i]) \/ ~ToBeAnswered(recvCb[i]) \/ recvCb[i] \in FromSend

-----------------------------------------------------------------------------
(* What the source says and the code does not do: these fail, see
   Conversation_claims.cfg.                                                *)

(* A message and its callback are put "into what is to be sent"
   (tcp_connection.cc:388): what was written is under way or dispatched.   *)
WrittenIsSent ==
  ~Over => \A r \in written \cap waiting :
    r \in ToSet(sendCb) \cup ToSet(unsent) \cup ToSet(toServer)

(* The server serves many clients (tcp_server.h:57): one that leaves takes
   its own connection down, not the process.                               *)
LeavingSparesServer == ~killed
=============================================================================
