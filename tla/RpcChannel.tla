----------------------------- MODULE RpcChannel -----------------------------
(***************************************************************************)
(* The client side of a remote call: RpcChannel::CallMethod and the chain  *)
(* of callbacks it starts on the loop of its thread (rpc_channel.cc), the  *)
(* RpcController that carries the outcome (rpc_controller.cc), and the     *)
(* TcpClient and the client half of the TcpConnection underneath           *)
(* (tcp_client.cc, tcp_connection.cc).  Every call has its own channel,    *)
(* TcpClient and connection; the calls of one thread share its EventLoop.  *)
(*                                                                         *)
(* A handler is one step up to the closure that it runs, because the loop  *)
(* runs one callback at a time.  A closure is under way until it returns:  *)
(* it may make further calls, and when the loop has not been started yet   *)
(* such a call runs the loop inside of the closure.  What interleaves is   *)
(* the order of the handlers, of the calls in closures and of the network. *)
(*                                                                         *)
(* A channel lives as long as somebody holds it: holders is the set of the *)
(* shared pointers to it.  Destroying it destroys its TcpConnection, whose *)
(* destructor deletes the EventLoop of the thread; from there on the       *)
(* behaviour is undefined and no step is taken.                            *)
(***************************************************************************)
EXTENDS Naturals, Sequences

CONSTANTS Calls,          \* the calls of one thread, each with its own channel
          Stopping,       \* those whose closure stops the loop
          Capturing,      \* those whose closure holds the channel
          NoCall          \* the thread is not inside Loop()

ASSUME CallsAssumption ==
  NoCall \notin Calls /\ Stopping \subseteq Calls /\ Capturing \subseteq Calls

ErrorCodes == {"none", "init", "timeout", "connect", "serialize", "deserialize",
               "remote"}
Holders == {"caller", "closure", "timer", "connect", "send", "recv"}

VARIABLES
  phase,        \* of each call: "new", "called", "returned" from CallMethod
  inLoop,       \* the call whose CallMethod is inside Loop(), or NoCall
  isLooping,    \* myIsLooping
  stopFlag,     \* myStopFlag
  timer,        \* the timeout event of each call
  state,        \* myState of its connection
  onOut, onIn,  \* what the connection's FDEvent is listening with: the handler
                \* of its EPOLLOUT, and whether OnRead handles EPOLLIN
  unsent,       \* the request is in the send buffer, not yet in the socket
  sendCb,       \* mySendCbCollection has the request
  recvCb,       \* myRecvCbCollection waits for the response
  inbox,        \* what the peer has sent and OnRead has not read
  served,       \* the peer has answered or closed
  finished, canceled, errorCode,  \* the controller
  closureRuns,  \* how often the closure of the call has been started
  withClosure,  \* the calls whose Init was given a closure
  outer,        \* the calls whose closures are under way outside of the loop,
                \* each called from the one before it
  inner,        \* and those under way inside of it
  holders,      \* who holds the channel of each call
  fault         \* undefined behaviour that was met: a method of a destroyed
                \* channel, or of a controller that is not there

loopVars == <<inLoop, isLooping, stopFlag>>
connVars == <<state, onOut, onIn, unsent, sendCb, recvCb>>
peerVars == <<inbox, served>>
ctrlVars == <<finished, canceled, errorCode, closureRuns>>
closures == <<withClosure, outer, inner>>
vars == <<phase, loopVars, timer, connVars, peerVars, ctrlVars, closures,
          holders, fault>>

TypeOK ==
  /\ phase \in [Calls -> {"new", "called", "returned"}]
  /\ inLoop \in Calls \cup {NoCall}
  /\ isLooping \in BOOLEAN /\ stopFlag \in BOOLEAN
  /\ timer \in [Calls -> {"unset", "set", "over"}]
  /\ state \in [Calls -> {"NotConnected", "Connected", "Closed"}]
  /\ onOut \in [Calls -> {"none", "connect", "OnWrite"}]
  /\ onIn \in [Calls -> BOOLEAN]
  /\ unsent \in [Calls -> BOOLEAN]
  /\ sendCb \in [Calls -> BOOLEAN] /\ recvCb \in [Calls -> BOOLEAN]
  /\ inbox \in [Calls -> {"none", "ok", "error", "garbage", "eof"}]
  /\ served \in [Calls -> BOOLEAN]
  /\ finished \in [Calls -> BOOLEAN] /\ canceled \in [Calls -> BOOLEAN]
  /\ errorCode \in [Calls -> ErrorCodes]
  /\ closureRuns \in [Calls -> 0..1]
  /\ withClosure \subseteq Calls
  /\ outer \in Seq(withClosure) /\ inner \in Seq(withClosure)
  /\ holders \in [Calls -> SUBSET Holders]
  /\ fault \in {"none", "destroyed", "null"}

Init ==
  /\ phase = [c \in Calls |-> "new"]
  /\ inLoop = NoCall /\ isLooping = FALSE /\ stopFlag = FALSE
  /\ timer = [c \in Calls |-> "unset"]
  /\ state = [c \in Calls |-> "NotConnected"]
  /\ onOut = [c \in Calls |-> "none"]
  /\ onIn = [c \in Calls |-> FALSE]
  /\ unsent = [c \in Calls |-> FALSE]
  /\ sendCb = [c \in Calls |-> FALSE] /\ recvCb = [c \in Calls |-> FALSE]
  /\ inbox = [c \in Calls |-> "none"]
  /\ served = [c \in Calls |-> FALSE]
  /\ finished = [c \in Calls |-> FALSE] /\ canceled = [c \in Calls |-> FALSE]
  /\ errorCode = [c \in Calls |-> "none"]
  /\ closureRuns = [c \in Calls |-> 0]
  /\ withClosure \in SUBSET Calls /\ outer = <<>> /\ inner = <<>>
  /\ holders = [c \in Calls |->
                  {"caller"} \cup IF c \in Capturing \cap withClosure
                                   THEN {"closure"} ELSE {}]
  /\ fault = "none"

(* Some channel has been destroyed, and with it the thread's EventLoop.    *)
LoopDeleted == \E c \in Calls : holders[c] = {}

Defined == ~LoopDeleted /\ fault = "none"

InLoop == inLoop # NoCall

-----------------------------------------------------------------------------
(* RpcChannel::myCallBack and the controller.                              *)

(* RpcController::SetError: the last error set is the one that is read.    *)
SetError(c, error) == errorCode' = [errorCode EXCEPT ![c] = error]

(* RpcController::StartCancel.                                             *)
StartCancel(c) ==
  /\ canceled' = [canceled EXCEPT ![c] = TRUE]
  /\ finished' = [finished EXCEPT ![c] = TRUE]

(* myClosure->Run() begins: on top of the closures that are under way.     *)
ClosureStarts(c) ==
  /\ closureRuns' = [closureRuns EXCEPT ![c] = @ + 1]
  /\ IF InLoop
       THEN inner' = Append(inner, c) /\ UNCHANGED outer
       ELSE outer' = Append(outer, c) /\ UNCHANGED inner
  /\ UNCHANGED withClosure

(* Mutant: myCallBack does not ask whether the call has finished. *)
MyCallBackAlways(c) ==
  /\ IF c \in withClosure THEN ClosureStarts(c)
                          ELSE UNCHANGED <<closureRuns, closures>>
  /\ UNCHANGED <<finished, canceled>>

(* myCallBack: a call that has not finished runs its closure, when it has
   one.  That it has finished is written down after the closure.           *)
RunsClosure(c) == ~finished[c] /\ c \in withClosure

MyCallBack(c) ==
  /\ IF RunsClosure(c) THEN ClosureStarts(c)
                       ELSE UNCHANGED <<closureRuns, closures>>
  /\ UNCHANGED <<finished, canceled>>

(* An outcome: SetError for an error, then myCallBack.                     *)
Complete(c, error) ==
  /\ IF error = "none" THEN UNCHANGED errorCode ELSE SetError(c, error)
  /\ MyCallBack(c)

(* The closure that was started last returns, and SetFinished follows.  It
   may have stopped the loop, and if it captured the channel it lets go.  A
   handler that ran it returns, and with it the callback of a response; a
   CallMethod that ran it returns too, unless it is the one in Loop().     *)
ClosureReturns(c) ==
  /\ Defined
  /\ \/ /\ InLoop /\ inner # <<>> /\ c = inner[Len(inner)]
        /\ inner' = SubSeq(inner, 1, Len(inner) - 1)
        /\ UNCHANGED outer
     \/ /\ ~InLoop /\ outer # <<>> /\ c = outer[Len(outer)]
        /\ outer' = SubSeq(outer, 1, Len(outer) - 1)
        /\ UNCHANGED inner
  /\ finished' = [finished EXCEPT ![c] = TRUE]
  /\ stopFlag' = (stopFlag \/ (c \in Stopping /\ isLooping))
  /\ phase' = [phase EXCEPT ![c] = IF c = inLoop THEN @ ELSE "returned"]
  /\ holders' = [holders EXCEPT ![c] = @ \ {"closure", "recv"}]
  /\ UNCHANGED <<inLoop, isLooping, timer, connVars, peerVars, canceled,
                 errorCode, closureRuns, withClosure, fault>>

-----------------------------------------------------------------------------
(* CallMethod.  It is called at the top level of the thread, or from a
   callback while the loop is running, in a closure too.                   *)

BeginCall(c) == phase[c] = "new" /\ Defined

(* CallMethod has nothing left to do but to run the closure, or to return. *)
EndsWithCallBack(c) ==
  phase' = [phase EXCEPT ![c] = IF RunsClosure(c) THEN "called" ELSE "returned"]

(* The request or the response is a null pointer, or SerializeToString fails:
   the closure runs before CallMethod returns.                             *)
CallUnserializable(c) ==
  /\ BeginCall(c)
  /\ EndsWithCallBack(c)
  /\ \E error \in {"init", "serialize"} : Complete(c, error)
  /\ UNCHANGED <<loopVars, timer, connVars, peerVars, holders, fault>>

(* There is no controller, or Init was not called, so that myCallBack finds
   none: both paths call a method through a null pointer.                  *)
CallUninitialized(c) ==
  /\ BeginCall(c)
  /\ fault' = "null"
  /\ UNCHANGED <<phase, loopVars, timer, connVars, peerVars, ctrlVars, closures,
                 holders>>

(* connect() fails at once: the timeout event stays in the timer.          *)
CallRefused(c) ==
  /\ BeginCall(c)
  /\ EndsWithCallBack(c)
  /\ timer' = [timer EXCEPT ![c] = "set"]
  /\ Complete(c, "connect")
  /\ holders' = [holders EXCEPT ![c] = @ \cup {"timer"}]
  /\ UNCHANGED <<loopVars, connVars, peerVars, fault>>

(* The request and its callback are queued, the connection listens to
   EPOLLOUT (WriteMessage, PushSendMessage, ListenWrite).                  *)
WriteMessage(c) ==
  /\ sendCb' = [sendCb EXCEPT ![c] = TRUE]
  /\ onOut' = [onOut EXCEPT ![c] = "OnWrite"]
  /\ state' = [state EXCEPT ![c] = "Connected"]
  /\ UNCHANGED <<onIn, unsent, recvCb>>

(* connect() succeeds at once; this path starts no loop.                   *)
CallConnected(c) ==
  /\ BeginCall(c)
  /\ phase' = [phase EXCEPT ![c] = "returned"]
  /\ timer' = [timer EXCEPT ![c] = "set"]
  /\ WriteMessage(c)
  /\ holders' = [holders EXCEPT ![c] = @ \cup {"timer", "send"}]
  /\ UNCHANGED <<loopVars, peerVars, ctrlVars, closures, fault>>

(* Mutant: a call whose connect is in progress has no timeout event. *)
CallInProgressNoTimer(c) ==
  /\ BeginCall(c)
  /\ onOut' = [onOut EXCEPT ![c] = "connect"]
  /\ holders' = [holders EXCEPT ![c] = @ \cup {"connect"}]
  /\ IF isLooping
       THEN /\ phase' = [phase EXCEPT ![c] = "returned"]
            /\ UNCHANGED <<inLoop, isLooping>>
       ELSE /\ phase' = [phase EXCEPT ![c] = "called"]
            /\ inLoop' = c
            /\ isLooping' = TRUE
  /\ UNCHANGED <<timer, stopFlag, state, onIn, unsent, sendCb, recvCb, peerVars,
                 ctrlVars, closures, fault>>

(* connect() is in progress: listen to EPOLLOUT, and run the loop here unless
   it has been started before.                                             *)
CallInProgress(c) ==
  /\ BeginCall(c)
  /\ timer' = [timer EXCEPT ![c] = "set"]
  /\ onOut' = [onOut EXCEPT ![c] = "connect"]
  /\ holders' = [holders EXCEPT ![c] = @ \cup {"timer", "connect"}]
  /\ IF isLooping
       THEN /\ phase' = [phase EXCEPT ![c] = "returned"]
            /\ UNCHANGED <<inLoop, isLooping>>
       ELSE /\ phase' = [phase EXCEPT ![c] = "called"]
            /\ inLoop' = c
            /\ isLooping' = TRUE
  /\ UNCHANGED <<stopFlag, state, onIn, unsent, sendCb, recvCb, peerVars,
                 ctrlVars, closures, fault>>

(* Loop() sees the flag and returns, and CallMethod with it.               *)
LoopReturns ==
  /\ InLoop /\ inner = <<>> /\ stopFlag /\ Defined
  /\ phase' = [phase EXCEPT ![inLoop] = "returned"]
  /\ inLoop' = NoCall
  /\ UNCHANGED <<isLooping, stopFlag, timer, connVars, peerVars, ctrlVars,
                 closures, holders, fault>>

(* The caller's own pointer to the channel goes out of scope.              *)
CallerDrops(c) ==
  /\ phase[c] = "returned"
  /\ "caller" \in holders[c] /\ Defined
  /\ holders' = [holders EXCEPT ![c] = @ \ {"caller"}]
  /\ UNCHANGED <<phase, loopVars, timer, connVars, peerVars, ctrlVars, closures,
                 fault>>

-----------------------------------------------------------------------------
(* The handlers, run by the loop when the closure of the one before is over. *)

Handler == InLoop /\ inner = <<>> /\ Defined

(* The EPOLLOUT handler of ConnectServer connects again to learn the outcome.
   The FDEvent keeps the callback until ListenWrite replaces it.           *)
ConnectSucceeds(c) ==
  /\ Handler /\ onOut[c] = "connect"
  /\ WriteMessage(c)
  /\ holders' = [holders EXCEPT ![c] = (@ \ {"connect"}) \cup {"send"}]
  /\ UNCHANGED <<phase, loopVars, timer, peerVars, ctrlVars, closures, fault>>

ConnectFails(c) ==
  /\ Handler /\ onOut[c] = "connect"
  /\ onOut' = [onOut EXCEPT ![c] = "none"]
  /\ Complete(c, "connect")
  /\ UNCHANGED <<phase, loopVars, timer, state, onIn, unsent, sendCb, recvCb,
                 peerVars, holders, fault>>

(* OnWrite: encode what is queued, write until done or EAGAIN, then run the
   send callbacks whether or not everything was written: they wait for the
   response (ReadMessage, PushRecvMessage, ListenRead).                    *)
OnWrite(c) ==
  /\ Handler /\ onOut[c] = "OnWrite" /\ state[c] = "Connected"
  /\ \E all \in BOOLEAN :
       /\ unsent' = [unsent EXCEPT ![c] = ~all /\ (@ \/ sendCb[c])]
       /\ onOut' = [onOut EXCEPT ![c] = IF unsent'[c] THEN @ ELSE "none"]
  /\ sendCb' = [sendCb EXCEPT ![c] = FALSE]
  /\ recvCb' = [recvCb EXCEPT ![c] = @ \/ sendCb[c]]
  /\ onIn' = [onIn EXCEPT ![c] = @ \/ sendCb[c]]
  /\ holders' = [holders EXCEPT ![c] = IF sendCb[c]
                                       THEN (@ \ {"send"}) \cup {"recv"} ELSE @]
  /\ UNCHANGED <<phase, loopVars, timer, state, peerVars, ctrlVars, closures,
                 fault>>

(* OnRead finds the end of the stream: ClearConnection.  A response callback
   that still waits is not told.                                           *)
OnReadClosed(c) ==
  /\ Handler /\ onIn[c] /\ state[c] = "Connected" /\ inbox[c] = "eof"
  /\ state' = [state EXCEPT ![c] = "Closed"]
  /\ onIn' = [onIn EXCEPT ![c] = FALSE]
  /\ onOut' = [onOut EXCEPT ![c] = "none"]
  /\ UNCHANGED <<phase, loopVars, timer, unsent, sendCb, recvCb, peerVars,
                 ctrlVars, closures, holders, fault>>

OnReadResponse(c, kind) ==
  /\ Handler /\ onIn[c] /\ state[c] = "Connected" /\ inbox[c] = kind
  /\ recvCb[c]
  /\ inbox' = [inbox EXCEPT ![c] = "none"]
  /\ recvCb' = [recvCb EXCEPT ![c] = FALSE]
  /\ UNCHANGED <<phase, loopVars, timer, state, onOut, onIn, unsent, sendCb,
                 served>>

(* The response carries an error, or does not parse: SetError, myCallBack,
   and then the callback is erased, which lets go of the channel.          *)
OnReadFailure(c) ==
  /\ \/ OnReadResponse(c, "error") /\ Complete(c, "remote")
     \/ OnReadResponse(c, "garbage") /\ Complete(c, "deserialize")
  /\ holders' = [holders EXCEPT ![c] = IF RunsClosure(c) THEN @ ELSE @ \ {"recv"}]
  /\ UNCHANGED fault

(* The response is good: the callback lets go of the channel first and calls
   myCallBack then; without another holder, on a destroyed channel.        *)
OnReadSuccess(c) ==
  /\ OnReadResponse(c, "ok")
  /\ holders[c] # {"recv"}
  /\ Complete(c, "none")
  /\ holders' = [holders EXCEPT ![c] = @ \ {"recv"}]
  /\ UNCHANGED fault

OnReadSuccessDangling(c) ==
  /\ OnReadResponse(c, "ok")
  /\ holders[c] = {"recv"}
  /\ holders' = [holders EXCEPT ![c] = {}]
  /\ fault' = "destroyed"
  /\ UNCHANGED <<ctrlVars, closures>>

(* Mutant: the timeout does not ask whether the call has finished. *)
TimeoutAlways(c) ==
  /\ Handler /\ timer[c] = "set"
  /\ timer' = [timer EXCEPT ![c] = "over"]
  /\ canceled' = [canceled EXCEPT ![c] = TRUE]
  /\ finished' = [finished EXCEPT ![c] = TRUE]
  /\ errorCode' = [errorCode EXCEPT ![c] = "timeout"]
  /\ holders' = [holders EXCEPT ![c] = @ \ {"timer"}]
  /\ UNCHANGED <<phase, loopVars, connVars, peerVars, closureRuns, closures, fault>>

(* Mutant: the timeout runs the closure, finished or not. *)
TimeoutRunsClosure(c) ==
  /\ Handler /\ timer[c] = "set"
  /\ timer' = [timer EXCEPT ![c] = "over"]
  /\ finished' = [finished EXCEPT ![c] = TRUE]
  /\ errorCode' = [errorCode EXCEPT ![c] = "timeout"]
  /\ closureRuns' = [closureRuns EXCEPT ![c] = @ + 1]
  /\ holders' = [holders EXCEPT ![c] = @ \ {"timer"}]
  /\ UNCHANGED <<phase, loopVars, connVars, peerVars, canceled, closures, fault>>

(* The timeout: nothing when the call has finished.  Otherwise StartCancel
   marks it finished, so that myCallBack returns without a closure.        *)
Timeout(c) ==
  /\ Handler /\ timer[c] = "set"
  /\ timer' = [timer EXCEPT ![c] = "over"]
  /\ IF finished[c]
       THEN UNCHANGED ctrlVars
       ELSE StartCancel(c) /\ SetError(c, "timeout") /\ UNCHANGED closureRuns
  /\ holders' = [holders EXCEPT ![c] = @ \ {"timer"}]
  /\ UNCHANGED <<phase, loopVars, connVars, peerVars, closures, fault>>

-----------------------------------------------------------------------------
(* The peer and the network (external): a request that was sent may be
   answered once, and a connection may be closed by the peer.              *)

PeerAnswers(c) ==
  /\ recvCb[c] /\ ~unsent[c] /\ ~served[c] /\ Defined
  /\ served' = [served EXCEPT ![c] = TRUE]
  /\ \E answer \in {"ok", "error", "garbage"} :
       inbox' = [inbox EXCEPT ![c] = answer]
  /\ UNCHANGED <<phase, loopVars, timer, connVars, ctrlVars, closures, holders,
                 fault>>

PeerCloses(c) ==
  /\ state[c] = "Connected" /\ inbox[c] = "none" /\ Defined
  /\ served' = [served EXCEPT ![c] = TRUE]
  /\ inbox' = [inbox EXCEPT ![c] = "eof"]
  /\ UNCHANGED <<phase, loopVars, timer, connVars, ctrlVars, closures, holders,
                 fault>>

CallMethod(c) ==
  \/ CallUnserializable(c) \/ CallUninitialized(c) \/ CallRefused(c)
  \/ CallConnected(c) \/ CallInProgress(c)

LoopHandler(c) ==
  \/ ConnectSucceeds(c) \/ ConnectFails(c) \/ OnWrite(c) \/ OnReadClosed(c)
  \/ OnReadFailure(c) \/ OnReadSuccess(c) \/ OnReadSuccessDangling(c)
  \/ Timeout(c)

Next ==
  \/ \E c \in Calls : \/ CallMethod(c) \/ LoopHandler(c) \/ CallerDrops(c)
                      \/ ClosureReturns(c) \/ PeerAnswers(c) \/ PeerCloses(c)
  \/ LoopReturns

(* The loop runs its timer and leaves when it is told to (module EventLoop
   and module Timer), and a closure returns when the calls that it makes have
   returned.  Nothing is assumed of the peer.                              *)
Fairness ==
  /\ WF_vars(LoopReturns)
  /\ \A c \in Calls : WF_vars(ClosureReturns(c)) /\ WF_vars(Timeout(c))

Spec == Init /\ [][Next]_vars /\ Fairness

-----------------------------------------------------------------------------
IsIn(c, stack) == \E i \in 1..Len(stack) : stack[i] = c

(* The closure of c was started before the loop and makes a call now whose
   connect waits in Loop(): the handlers run inside of it.                 *)
LoopInClosure(c) == InLoop /\ IsIn(c, outer)

(* A call has one outcome, whatever order the answer, the end of the stream,
   the failure to connect and the timeout come in: its closure starts once
   and only while the call has not finished, so not for an answer that comes
   after the timeout, and a call whose closure has started is not cancelled
   any more, but for one that runs the loop inside of that closure
   (myCallBack and the timeout's StartCancel, rpc_channel.cc:107-116).     *)
OneOutcome ==
  [][\A c \in Calls :
       /\ closureRuns'[c] # closureRuns[c] => closureRuns[c] = 0 /\ ~finished[c]
       /\ canceled'[c] # canceled[c] => closureRuns[c] = 0 \/ LoopInClosure(c)]_vars

(* What the closure has been told stays true, while it runs and afterwards:
   neither a timeout that was already waiting nor anything the peer still
   sends changes the error of a call whose closure has started, but for the
   timeout in a loop inside of that closure.                               *)
OutcomeKept ==
  [][\A c \in Calls :
       closureRuns[c] > 0 /\ errorCode'[c] # errorCode[c] => LoopInClosure(c)]_vars

(* The response callback lets go of its pointer and then uses the channel
   (rpc_channel.cc:185-186).  While the call has no outcome yet somebody else
   holds the channel: an answer in time never finds the callback alone, and
   the destroyed channel of ChannelAliveInCallbacks is that of a call whose
   timeout has passed.                                                     *)
WantedChannelIsHeld ==
  \A c \in Calls : recvCb[c] /\ ~finished[c] => holders[c] \ {"recv"} # {}

(* A call made on a thread whose loop runs comes to an end, even when the
   peer never answers, unless the loop ends before.  One that was rejected
   before its timer was set ends with its closure, or not at all.          *)
CallFinishes ==
  \A c \in Calls :
    phase[c] # "new" /\ errorCode[c] \notin {"init", "serialize"} /\ InLoop
      ~> finished[c] \/ ~InLoop \/ ~Defined

-----------------------------------------------------------------------------
(* What the source says and the code does not do: these fail, see
   RpcChannel_claims.cfg.                                                  *)

(* The closure of a call is where the program learns that the call has
   failed (test_rpc_client.cc:108-116), so a call that has finished has run
   its closure.                                                            *)
ClosureRunsWhenFinished ==
  \A c \in Calls : finished[c] => closureRuns[c] = 1

(* A call ends with its closure or is cancelled, not both: the timeout looks
   at Finished() to find out (rpc_channel.cc:107), which myCallBack sets only
   behind the closure (243-246).                                           *)
ClosureOrCanceled == \A c \in Calls : ~(closureRuns[c] > 0 /\ canceled[c])

(* A call whose answer was read is not a call that timed out: without a
   closure nothing tells the timeout so (rpc_channel.cc:241-248).          *)
AnswerRead(c) ==
  state[c] = "Connected" /\ served[c] /\ inbox[c] = "none" /\ ~sendCb[c] /\ ~recvCb[c]

AnsweredStaysAnswered ==
  [][\A c \in Calls : AnswerRead(c) => errorCode'[c] = errorCode[c]]_vars

(* "RpcChannel not call init()" (rpc_channel.cc:84) is what the controller of
   such a call reports: the call returns.                                  *)
InitErrorIsReported == fault # "null"

(* "On a timeout the rpc is cancelled" (rpc_channel.cc:112): nothing that
   happens later changes the outcome of a cancelled call.                  *)
CanceledStaysCanceled ==
  [][\A c \in Calls : canceled[c] => errorCode'[c] = errorCode[c]]_vars

(* Capturing the shared pointer keeps the channel alive for the callbacks
   (rpc_channel.cc:123-126): no callback uses a destroyed channel.         *)
ChannelAliveInCallbacks == fault # "destroyed"

(* The loop of a thread is destroyed when the thread ends (eventloop.cc:54),
   not before: never while it runs.                                        *)
LoopOutlivesCalls == InLoop => ~LoopDeleted

(* A client asks isLooping to learn whether the loop is running
   (tcp_client.cc:190): the flag is up only while it is.                   *)
IsLoopingMeansRunning == isLooping => InLoop
=============================================================================
