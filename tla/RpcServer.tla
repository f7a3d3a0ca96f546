----------------------------- MODULE RpcServer ------------------------------
(***************************************************************************)
(* The server side of a call (net/rpc/rpc_dispatcher.cc,                   *)
(* net/rpc/rpc_interface.cc, net/rpc/rpc_closure.h): the requests of one   *)
(* connection, as OnExcute dispatches them one after the other on the loop *)
(* of the connection's thread.                                             *)
(*                                                                         *)
(* A handler runs to its end, so it is one action, with everything the     *)
(* dispatcher, the closure and the destructor of the interface do in it.   *)
(* The services are the program's users: OrderImpl of                      *)
(* testcases/test_rpc_server.cc, the stubs of generator/template with a    *)
(* run() that leaves the answer to the destructor or calls reply() itself, *)
(* and two that answer from a later callback of the loop, one with the     *)
(* done of protobuf, one with newRpcClosure of RpcInterface.               *)
(***************************************************************************)
EXTENDS Integers, Sequences, FiniteSets

CONSTANTS Requests,     \* the requests of the connection
          Kind,         \* what becomes of each
          NoRequest

Refused == {"badName", "noService", "noMethod", "badData"}
Kinds == Refused \cup {"order", "cheapOrder", "later",
                           "stub", "replyingStub", "asyncStub"}

ASSUME RequestsAssumption == NoRequest \notin Requests
ASSUME KindAssumption == Kind \in [Requests -> Kinds]

VARIABLES
  waiting,         \* requests that have not been dispatched
  error,           \* the error code in the response of each
  whole,           \* whether its response message is what the service makes
  answers,         \* what has been put into mySendBuffer, in order
  objects,         \* the objects Dispatch made for it and nobody has deleted
  kept,            \* requests whose done or closure waits for a callback
  interface,       \* the RpcInterface of each
  messageID,       \* of RunTime, and so of every line in the log
  myRpcInterface,  \* of RunTime
  conn,            \* myState of the connection, or "gone"
  crashed          \* the connection was used after it was gone

callVars == <<waiting, error, whole, objects, kept, interface>>
runTime  == <<messageID, myRpcInterface>>
vars == <<callVars, answers, runTime, conn, crashed>>

Objects == {"request", "response", "controller", "closure"}

TypeOK ==
  /\ waiting \in SUBSET Requests /\ kept \in SUBSET Requests
  /\ error \in [Requests -> Refused \cup {"none", "serialize"}]
  /\ whole \in [Requests -> BOOLEAN]
  /\ answers \in Seq([of : Requests, error : {"none", "serialize"}, whole : BOOLEAN])
  /\ objects \in [Requests -> SUBSET Objects]
  /\ interface \in [Requests -> {"none", "alive", "destroyed"}]
  /\ messageID \in Requests \cup {NoRequest}
  /\ myRpcInterface \in Requests \cup {NoRequest}
  /\ conn \in {"Connected", "Closed", "gone"}
  /\ crashed \in BOOLEAN
  /\ \A r \in Requests : interface[r] = "alive" => "response" \in objects[r]
  /\ \A r \in kept : r \notin waiting

Init ==
  /\ waiting = Requests /\ kept = {}
  /\ error = [r \in Requests |-> "none"]
  /\ whole = [r \in Requests |-> FALSE]
  /\ answers = <<>>
  /\ objects = [r \in Requests |-> {}]
  /\ interface = [r \in Requests |-> "none"]
  /\ messageID = NoRequest /\ myRpcInterface = NoRequest
  /\ conn = "Connected" /\ crashed = FALSE

-----------------------------------------------------------------------------
(* The closure of Dispatch: the response is serialised, or not, and goes   *)
(* into the send buffer.  RpcClosure::Run has the interface of a closure   *)
(* that never has one put into RunTime.                                    *)
ReplyWith(r, isWhole) ==
  /\ \E code \in {"none", "serialize"} :
       /\ error' = [error EXCEPT ![r] = code]
       /\ answers' = Append(answers, [of |-> r, error |-> code, whole |-> isWhole])
  /\ myRpcInterface' = NoRequest

Dispatchable(r) == r \in waiting /\ conn = "Connected"

(* The name does not parse, the service or the method is unknown, or the   *)
(* request does not: the error stays in a response that is dropped.        *)
DispatchRefused(r) ==
  /\ Dispatchable(r) /\ Kind[r] \in Refused
  /\ waiting' = waiting \ {r}
  /\ error' = [error EXCEPT ![r] = Kind[r]]
  /\ UNCHANGED <<whole, answers, objects, kept, interface, runTime, conn, crashed>>

(* Dispatch up to CallMethod.                                              *)
Accept(r) ==
  /\ Dispatchable(r)
  /\ waiting' = waiting \ {r}
  /\ messageID' = r

(* OrderImpl: done is run and deleted, and nothing else.                   *)
DispatchOrder(r) ==
  /\ Kind[r] = "order" /\ Accept(r)
  /\ whole' = [whole EXCEPT ![r] = TRUE]
  /\ ReplyWith(r, TRUE)
  /\ objects' = [objects EXCEPT ![r] = Objects \ {"closure"}]
  /\ UNCHANGED <<kept, interface, conn, crashed>>

(* OrderImpl, when the price is low.                                       *)
DispatchCheapOrder(r) ==
  /\ Kind[r] = "cheapOrder" /\ Accept(r)
  /\ whole' = [whole EXCEPT ![r] = TRUE]
  /\ objects' = [objects EXCEPT ![r] = Objects]
  /\ UNCHANGED <<error, answers, kept, interface, myRpcInterface, conn, crashed>>

(* A service that keeps done for a later callback.                         *)
DispatchLater(r) ==
  /\ Kind[r] = "later" /\ Accept(r)
  /\ kept' = kept \cup {r}
  /\ objects' = [objects EXCEPT ![r] = Objects]
  /\ UNCHANGED <<error, whole, answers, interface, myRpcInterface, conn, crashed>>

(* CALL_RPC_INTERFACE: the interface is made and run; when the block ends  *)
(* the last pointer to it goes, and its destructor replies and destroys.   *)
DispatchStub(r) ==
  /\ Kind[r] = "stub" /\ Accept(r)
  /\ whole' = [whole EXCEPT ![r] = TRUE]
  /\ ReplyWith(r, TRUE)
  /\ interface' = [interface EXCEPT ![r] = "destroyed"]
  /\ objects' = [objects EXCEPT ![r] = {}]
  /\ UNCHANGED <<kept, conn, crashed>>

(* run() has called reply(), as its comment asks: the closure is run by it
   and by the destructor, with the same response.                          *)
DispatchReplyingStub(r) ==
  /\ Kind[r] = "replyingStub" /\ Accept(r)
  /\ whole' = [whole EXCEPT ![r] = TRUE]
  /\ \E code \in {"none", "serialize"} :
       LET answer == [of |-> r, error |-> code, whole |-> TRUE]
       IN /\ error' = [error EXCEPT ![r] = code]
          /\ answers' = Append(Append(answers, answer), answer)
  /\ myRpcInterface' = NoRequest
  /\ interface' = [interface EXCEPT ![r] = "destroyed"]
  /\ objects' = [objects EXCEPT ![r] = {}]
  /\ UNCHANGED <<kept, conn, crashed>>

(* run() gives newRpcClosure to a call of its own.  The closure is to hold *)
(* the interface and does not: the end of the block replies here, too.     *)
DispatchAsyncStub(r) ==
  /\ Kind[r] = "asyncStub" /\ Accept(r)
  /\ kept' = kept \cup {r}
  /\ ReplyWith(r, FALSE)
  /\ interface' = [interface EXCEPT ![r] = "destroyed"]
  /\ objects' = [objects EXCEPT ![r] = {}]
  /\ UNCHANGED <<whole, conn, crashed>>

Dispatch(r) ==
  \/ DispatchRefused(r) \/ DispatchOrder(r) \/ DispatchCheapOrder(r)
  \/ DispatchLater(r) \/ DispatchStub(r) \/ DispatchReplyingStub(r)
  \/ DispatchAsyncStub(r)

-----------------------------------------------------------------------------
(* The callbacks that come later.                                          *)

(* Mutant: the service has lost its done. *)
LaterForgets(r) ==
  /\ r \in kept /\ Kind[r] = "later"
  /\ kept' = kept \ {r}
  /\ UNCHANGED <<waiting, error, whole, answers, objects, interface, runTime, conn,
                 crashed>>

(* done is run and deleted; the closure has the bare pointer of the        *)
(* connection.                                                             *)
LaterReplies(r) ==
  /\ r \in kept /\ Kind[r] = "later"
  /\ kept' = kept \ {r}
  /\ whole' = [whole EXCEPT ![r] = TRUE]
  /\ IF conn = "gone"
       THEN crashed' = TRUE /\ UNCHANGED <<error, answers, myRpcInterface>>
       ELSE ReplyWith(r, TRUE) /\ UNCHANGED crashed
  /\ objects' = [objects EXCEPT ![r] = @ \ {"closure"}]
  /\ UNCHANGED <<waiting, interface, messageID, conn>>

(* Mutant: the closure has an interface of its own, which replies, too. *)
ClosureRunsReplies(r) ==
  /\ r \in kept /\ Kind[r] = "asyncStub" /\ conn # "gone"
  /\ kept' = kept \ {r}
  /\ ReplyWith(r, TRUE)
  /\ UNCHANGED <<waiting, whole, objects, interface, messageID, conn, crashed>>

(* The closure of newRpcClosure is run: it is to fill the response.        *)
ClosureRuns(r) ==
  /\ r \in kept /\ Kind[r] = "asyncStub"
  /\ kept' = kept \ {r}
  /\ myRpcInterface' = NoRequest
  /\ UNCHANGED <<waiting, error, whole, answers, objects, interface, messageID, conn,
                 crashed>>

ClientLeaves ==
  /\ conn = "Connected"
  /\ conn' = "Closed"
  /\ UNCHANGED <<callVars, answers, runTime, crashed>>

Collected ==
  /\ conn = "Closed"
  /\ conn' = "gone"
  /\ UNCHANGED <<callVars, answers, runTime, crashed>>
-----------------------------------------------------------------------------
Step(r) == Dispatch(r) \/ LaterReplies(r) \/ ClosureRuns(r)

Next ==
  /\ ~crashed
  /\ (\E r \in Requests : Step(r)) \/ ClientLeaves \/ Collected

-----------------------------------------------------------------------------
Answered(r) == \E i \in 1..Len(answers) : answers[i].of = r

(* Whichever of the service, the destructor of its interface and a closure
   that comes late has to answer, a request is answered once at most, unless
   its run() itself calls reply(), which the destructor then does again
   (rpc_interface.cc 27-45), and only if Dispatch has accepted it.         *)
AnsweredOnce ==
  /\ \A i, j \in 1..Len(answers) :
       answers[i].of = answers[j].of => i = j \/ Kind[answers[i].of] = "replyingStub"
  /\ \A r \in Requests : Answered(r) => r \notin waiting /\ Kind[r] \notin Refused

-----------------------------------------------------------------------------
(* What the source says and the code does not do: these fail, see
   Conversation_claims.cfg.                                                *)

(* The client reads an error code and an error text from the answer
   (rpc_channel.cc:170-174): a request that is refused is answered.        *)
RefusedIsAnswered ==
  \A r \in Requests : error[r] \in Refused => Answered(r)

(* "not enough money" (test_rpc_server.cc:50) is what the client is told.  *)
ResponseIsAnswered ==
  \A r \in Requests :
    r \notin waiting /\ whole[r] => Answered(r) \/ conn # "Connected"

(* "you should call is when you wan to set response back", "it means this
   rpc method done" (rpc_interface.cc:40-41): a service that calls reply()
   has answered by that.                                                   *)
ReplyIsTheAnswer ==
  \A i, j \in 1..Len(answers) : answers[i].of = answers[j].of => i = j

(* The response is set back when the method is done (rpc_interface.cc:40):
   the answer is the response the service has made.                        *)
AnswerIsWhole == \A i \in 1..Len(answers) : answers[i].whole

(* "Whenever cb is run, the interface can be found by RpcInterface"
   (rpc_closure.h:47).                                                     *)
CallbackFindsInterface ==
  [][\A r \in Requests : ClosureRuns(r) =>
       interface[r] = "alive" /\ myRpcInterface' = r]_vars

(* A line of the log has "the message id of the request that the thread is
   dealing with" (log.cc:244).                                             *)
LogNamesRequest ==
  [][\A r \in Requests : LaterReplies(r) \/ ClosureRuns(r) => messageID = r]_vars
=============================================================================
