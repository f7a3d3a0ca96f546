-------------------------- MODULE RpcChannelProofs --------------------------
(***************************************************************************)
(* What is proved about module RpcChannel for any number of calls on one   *)
(* thread: its types, that a call has one outcome and what a closure has   *)
(* been told stays true, but for a timeout in a loop inside of the         *)
(* closure, and that the channel of a call without an outcome is held.     *)
(* Then, for module MsgIDUtil, which names the calls: that the identifiers *)
(* of a thread count up by one, of any length and digits.                  *)
(***************************************************************************)
EXTENDS RpcChannel, MsgIDUtil, WellFoundedInduction, TLAPS

LEMMA SafetySpec == Spec => Init /\ [][Next]_vars
PROOF BY PTL DEF Spec

-----------------------------------------------------------------------------
(* The closures that are under way, one on the other.                      *)

LEMMA IsInAppend ==
  ASSUME NEW S, NEW stack \in Seq(S), NEW c \in S
  PROVE  /\ Append(stack, c) \in Seq(S)
         /\ IsIn(c, Append(stack, c))
         /\ \A d : IsIn(d, stack) => IsIn(d, Append(stack, c))
<1>1. /\ Append(stack, c) \in Seq(S) /\ Len(Append(stack, c)) = Len(stack) + 1
      /\ Len(stack) \in Nat
      /\ Append(stack, c)[Len(stack) + 1] = c
      /\ \A i \in 1..Len(stack) : Append(stack, c)[i] = stack[i]
  OBVIOUS
<1>2. IsIn(c, Append(stack, c))
  BY <1>1 DEF IsIn
<1>3. ASSUME NEW d, IsIn(d, stack) PROVE IsIn(d, Append(stack, c))
  <2>1. PICK i \in 1..Len(stack) : stack[i] = d
    BY <1>3 DEF IsIn
  <2>2. i \in 1..Len(Append(stack, c)) /\ Append(stack, c)[i] = d
    BY <1>1, <2>1
  <2> QED
    BY <2>2 DEF IsIn
<1> QED
  BY <1>1, <1>2, <1>3

LEMMA IsInFront ==
  ASSUME NEW S, NEW stack \in Seq(S), stack # <<>>
  PROVE  /\ SubSeq(stack, 1, Len(stack) - 1) \in Seq(S)
         /\ stack[Len(stack)] \in S
         /\ \A d : IsIn(d, stack) /\ d # stack[Len(stack)]
                     => IsIn(d, SubSeq(stack, 1, Len(stack) - 1))
<1>1. Len(stack) \in Nat \ {0}
  OBVIOUS
<1>2. /\ SubSeq(stack, 1, Len(stack) - 1) \in Seq(S)
      /\ stack[Len(stack)] \in S
      /\ Len(SubSeq(stack, 1, Len(stack) - 1)) = Len(stack) - 1
      /\ \A i \in 1..(Len(stack) - 1) :
           SubSeq(stack, 1, Len(stack) - 1)[i] = stack[i]
  BY <1>1
<1>3. ASSUME NEW d, IsIn(d, stack), d # stack[Len(stack)]
      PROVE  IsIn(d, SubSeq(stack, 1, Len(stack) - 1))
  <2>1. PICK i \in 1..Len(stack) : stack[i] = d
    BY <1>3 DEF IsIn
  <2>2. i \in 1..(Len(stack) - 1)
    BY <1>1, <1>3, <2>1
  <2> QED
    BY <1>2, <2>1, <2>2 DEF IsIn
<1> QED
  BY <1>2, <1>3

-----------------------------------------------------------------------------
(* A call passes one token through its callbacks: it is still to be made, or
   its connect is in progress, or its request or its response is waited for,
   and never two of these.  A call whose closure has started has none left,
   and until it has finished its closure is under way.  The counter of closure
   runs stays within its type only because of the token, so that this and the
   types are one induction.                                                *)
Token(c) ==
  /\ phase[c] = "new" => onOut[c] # "connect" /\ ~sendCb[c] /\ ~recvCb[c]
  /\ onOut[c] = "connect" => ~sendCb[c] /\ ~recvCb[c]
  /\ ~(sendCb[c] /\ recvCb[c])

Spent(c) ==
  phase[c] # "new" /\ onOut[c] # "connect" /\ ~sendCb[c] /\ ~recvCb[c]

UnderWay(c) == IsIn(c, outer) \/ IsIn(c, inner)

CallInv(c) ==
  /\ Token(c)
  /\ closureRuns[c] > 0 => Spent(c)
  /\ closureRuns[c] > 0 /\ ~finished[c] => UnderWay(c)

OutcomeInv == TypeOK /\ \A c \in Calls : CallInv(c)

LEMMA OutcomeInit == Init => OutcomeInv
<1> SUFFICES ASSUME Init PROVE OutcomeInv
  OBVIOUS
<1>1. /\ isLooping \in BOOLEAN /\ stopFlag \in BOOLEAN
      /\ onIn \in [Calls -> BOOLEAN] /\ unsent \in [Calls -> BOOLEAN]
      /\ sendCb \in [Calls -> BOOLEAN] /\ recvCb \in [Calls -> BOOLEAN]
      /\ served \in [Calls -> BOOLEAN]
      /\ finished \in [Calls -> BOOLEAN] /\ canceled \in [Calls -> BOOLEAN]
  BY Zenon DEF Init
<1>2. /\ phase \in [Calls -> {"new", "called", "returned"}]
      /\ timer \in [Calls -> {"unset", "set", "over"}]
      /\ state \in [Calls -> {"NotConnected", "Connected", "Closed"}]
      /\ onOut \in [Calls -> {"none", "connect", "OnWrite"}]
      /\ inbox \in [Calls -> {"none", "ok", "error", "garbage", "eof"}]
      /\ inLoop \in Calls \cup {NoCall} /\ fault \in {"none", "destroyed", "null"}
  BY DEF Init
<1>3. /\ errorCode \in [Calls -> ErrorCodes]
      /\ closureRuns \in [Calls -> 0..1]
      /\ holders \in [Calls -> SUBSET Holders]
  BY DEF Init, ErrorCodes, Holders
<1>4. /\ withClosure \subseteq Calls
      /\ outer \in Seq(withClosure) /\ inner \in Seq(withClosure)
  BY DEF Init
<1>5. ASSUME NEW c \in Calls PROVE CallInv(c)
  <2>1. onOut[c] = "none" /\ ~sendCb[c] /\ ~recvCb[c] /\ closureRuns[c] = 0
    BY DEF Init
  <2> QED
    BY <2>1 DEF CallInv, Token
<1> QED
  BY <1>1, <1>2, <1>3, <1>4, <1>5 DEF OutcomeInv, TypeOK

(* A call that still has its token may have an outcome: its closure starts,
   for the first time, if it has one and has not finished.                 *)
LEMMA CompleteKeeps ==
  ASSUME OutcomeInv, NEW c \in Calls, NEW error \in ErrorCodes,
         Complete(c, error), ~Spent(c)
  PROVE  /\ errorCode' \in [Calls -> ErrorCodes]
         /\ \A d \in Calls \ {c} : errorCode'[d] = errorCode[d]
         /\ finished' = finished /\ canceled' = canceled
         /\ closureRuns' \in [Calls -> 0..1] /\ closureRuns[c] = 0
         /\ \A d \in Calls \ {c} : closureRuns'[d] = closureRuns[d]
         /\ closureRuns'[c] # closureRuns[c] => ~finished[c]
         /\ withClosure' = withClosure
         /\ outer' \in Seq(withClosure) /\ inner' \in Seq(withClosure)
         /\ \A d \in Calls : UnderWay(d) => UnderWay(d)'
         /\ closureRuns'[c] > 0 => UnderWay(c)'
<1>1. /\ errorCode' \in [Calls -> ErrorCodes]
      /\ \A d \in Calls \ {c} : errorCode'[d] = errorCode[d]
      /\ finished' = finished /\ canceled' = canceled
  BY DEF Complete, SetError, MyCallBack, OutcomeInv, TypeOK
<1>2. closureRuns[c] = 0
  BY DEF OutcomeInv, TypeOK, CallInv
<1>3. CASE ~RunsClosure(c)
  BY <1>1, <1>2, <1>3 DEF Complete, MyCallBack, closures, OutcomeInv, TypeOK, UnderWay
<1>4. CASE RunsClosure(c)
  <2>1. c \in withClosure /\ ~finished[c] /\ ClosureStarts(c)
    BY <1>4 DEF Complete, MyCallBack, RunsClosure
  <2>2. /\ closureRuns' \in [Calls -> 0..1]
        /\ \A d \in Calls \ {c} : closureRuns'[d] = closureRuns[d]
    BY <1>2, <2>1 DEF ClosureStarts, OutcomeInv, TypeOK
  <2>3. outer \in Seq(withClosure) /\ inner \in Seq(withClosure)
    BY DEF OutcomeInv, TypeOK
  <2>4. /\ withClosure' = withClosure
        /\ \/ outer' = outer /\ inner' = Append(inner, c)
           \/ inner' = inner /\ outer' = Append(outer, c)
    BY <2>1 DEF ClosureStarts
  <2>5. /\ outer' \in Seq(withClosure) /\ inner' \in Seq(withClosure)
        /\ \A d \in Calls : UnderWay(d) => UnderWay(d)'
        /\ UnderWay(c)'
    BY <2>1, <2>3, <2>4, IsInAppend, Zenon DEF UnderWay
  <2> QED
    BY <1>1, <1>2, <2>1, <2>2, <2>4, <2>5
<1> QED
  BY <1>3, <1>4

(* A closure that returns is taken off, the others stay under way.         *)
LEMMA ReturnKeeps ==
  ASSUME OutcomeInv, NEW c \in Calls, ClosureReturns(c)
  PROVE  /\ outer' \in Seq(withClosure) /\ inner' \in Seq(withClosure)
         /\ withClosure' = withClosure
         /\ \A d \in Calls \ {c} : UnderWay(d) => UnderWay(d)'
         /\ finished' \in [Calls -> BOOLEAN] /\ finished'[c]
         /\ \A d \in Calls \ {c} : finished'[d] = finished[d]
<1>1. outer \in Seq(withClosure) /\ inner \in Seq(withClosure)
  BY DEF OutcomeInv, TypeOK
<1>2. /\ withClosure' = withClosure
      /\ \/ /\ outer' = outer /\ inner # <<>> /\ c = inner[Len(inner)]
            /\ inner' = SubSeq(inner, 1, Len(inner) - 1)
         \/ /\ inner' = inner /\ outer # <<>> /\ c = outer[Len(outer)]
            /\ outer' = SubSeq(outer, 1, Len(outer) - 1)
  BY DEF ClosureReturns
<1>3. /\ outer' \in Seq(withClosure) /\ inner' \in Seq(withClosure)
      /\ \A d \in Calls \ {c} : UnderWay(d) => UnderWay(d)'
  BY <1>1, <1>2, IsInFront, Zenon DEF UnderWay
<1>4. /\ finished' = [finished EXCEPT ![c] = TRUE]
      /\ finished \in [Calls -> BOOLEAN]
  BY DEF ClosureReturns, OutcomeInv, TypeOK
<1>5. finished' \in [Calls -> BOOLEAN] /\ finished'[c]
  BY <1>4, Zenon
<1>6. \A d \in Calls \ {c} : finished'[d] = finished[d]
  BY <1>4, Zenon
<1> QED
  BY <1>2, <1>3, <1>5, <1>6

LEMMA TypeNext == OutcomeInv /\ [Next]_vars => TypeOK'
<1> SUFFICES ASSUME OutcomeInv, [Next]_vars PROVE TypeOK'
  OBVIOUS
<1> USE DEF loopVars, connVars, peerVars, ctrlVars, closures
<1>1. TypeOK
  BY DEF OutcomeInv
<1>2. {"none", "init", "timeout", "connect", "serialize", "deserialize", "remote"}
        \subseteq ErrorCodes
  BY DEF ErrorCodes
<1>3. ASSUME NEW c \in Calls, CallUnserializable(c) PROVE TypeOK'
  <2>1. ~Spent(c)
    BY <1>3 DEF CallUnserializable, BeginCall, Spent
  <2>2. PICK error \in ErrorCodes : Complete(c, error)
    BY <1>2, <1>3 DEF CallUnserializable
  <2>3. phase' \in [Calls -> {"new", "called", "returned"}]
    BY <1>1, <1>3 DEF CallUnserializable, EndsWithCallBack, TypeOK
  <2> QED
    BY <1>1, <1>3, <2>1, <2>2, <2>3, CompleteKeeps DEF CallUnserializable, TypeOK
<1>4. ASSUME NEW c \in Calls, CallUninitialized(c) PROVE TypeOK'
  BY <1>1, <1>4 DEF CallUninitialized, TypeOK
<1>5. ASSUME NEW c \in Calls, CallRefused(c) PROVE TypeOK'
  <2>1. ~Spent(c)
    BY <1>5 DEF CallRefused, BeginCall, Spent
  <2>2. /\ phase' \in [Calls -> {"new", "called", "returned"}]
        /\ timer' \in [Calls -> {"unset", "set", "over"}]
        /\ holders' \in [Calls -> SUBSET Holders]
    BY <1>1, <1>5 DEF CallRefused, EndsWithCallBack, TypeOK, Holders
  <2>3. Complete(c, "connect") /\ "connect" \in ErrorCodes
    BY <1>2, <1>5 DEF CallRefused
  <2> QED
    BY <1>1, <1>5, <2>1, <2>2, <2>3, CompleteKeeps DEF CallRefused, TypeOK
<1>6. ASSUME NEW c \in Calls, CallConnected(c) PROVE TypeOK'
  BY <1>1, <1>6 DEF CallConnected, WriteMessage, TypeOK, Holders
<1>7. ASSUME NEW c \in Calls, CallInProgress(c) PROVE TypeOK'
  <2>1. isLooping' \in BOOLEAN
    BY <1>1, <1>7, Zenon DEF CallInProgress, TypeOK
  <2>2. /\ phase' \in [Calls -> {"new", "called", "returned"}]
        /\ inLoop' \in Calls \cup {NoCall}
        /\ holders' \in [Calls -> SUBSET Holders]
    BY <1>1, <1>7 DEF CallInProgress, TypeOK, Holders
  <2>3. timer' \in [Calls -> {"unset", "set", "over"}]
        /\ onOut' \in [Calls -> {"none", "connect", "OnWrite"}]
    BY <1>1, <1>7 DEF CallInProgress, TypeOK
  <2> QED
    BY <1>1, <1>7, <2>1, <2>2, <2>3 DEF CallInProgress, TypeOK
<1>8. CASE LoopReturns
  BY <1>1, <1>8 DEF LoopReturns, InLoop, TypeOK
<1>9. ASSUME NEW c \in Calls, CallerDrops(c) PROVE TypeOK'
  BY <1>1, <1>9 DEF CallerDrops, TypeOK
<1>10. ASSUME NEW c \in Calls, ConnectSucceeds(c) PROVE TypeOK'
  BY <1>1, <1>10 DEF ConnectSucceeds, WriteMessage, TypeOK, Holders
<1>11. ASSUME NEW c \in Calls, ConnectFails(c) PROVE TypeOK'
  <2>1. ~Spent(c)
    BY <1>11 DEF ConnectFails, Spent
  <2>2. Complete(c, "connect") /\ "connect" \in ErrorCodes
    BY <1>2, <1>11 DEF ConnectFails
  <2> QED
    BY <1>1, <1>11, <2>1, <2>2, CompleteKeeps DEF ConnectFails, TypeOK
<1>12. ASSUME NEW c \in Calls, OnWrite(c) PROVE TypeOK'
  <2>1. /\ unsent' \in [Calls -> BOOLEAN] /\ sendCb' \in [Calls -> BOOLEAN]
        /\ recvCb' \in [Calls -> BOOLEAN] /\ onIn' \in [Calls -> BOOLEAN]
    BY <1>1, <1>12, Zenon DEF OnWrite, TypeOK
  <2>2. /\ onOut' \in [Calls -> {"none", "connect", "OnWrite"}]
        /\ holders' \in [Calls -> SUBSET Holders]
    BY <1>1, <1>12 DEF OnWrite, TypeOK, Holders
  <2> QED
    BY <1>1, <1>12, <2>1, <2>2 DEF OnWrite, TypeOK
<1>13. ASSUME NEW c \in Calls, OnReadClosed(c) PROVE TypeOK'
  BY <1>1, <1>13 DEF OnReadClosed, TypeOK
<1>14. ASSUME NEW c \in Calls, OnReadFailure(c) PROVE TypeOK'
  <2>1. ~Spent(c)
    BY <1>14 DEF OnReadFailure, OnReadResponse, Spent
  <2>2. PICK error \in ErrorCodes : Complete(c, error)
    BY <1>2, <1>14 DEF OnReadFailure
  <2>3. /\ inbox' \in [Calls -> {"none", "ok", "error", "garbage", "eof"}]
        /\ recvCb' \in [Calls -> BOOLEAN]
        /\ holders' \in [Calls -> SUBSET Holders]
    BY <1>1, <1>14 DEF OnReadFailure, OnReadResponse, TypeOK
  <2> QED
    BY <1>1, <1>14, <2>1, <2>2, <2>3, CompleteKeeps
    DEF OnReadFailure, OnReadResponse, TypeOK
<1>15. ASSUME NEW c \in Calls, OnReadSuccess(c) PROVE TypeOK'
  <2>1. ~Spent(c)
    BY <1>15 DEF OnReadSuccess, OnReadResponse, Spent
  <2>2. Complete(c, "none") /\ "none" \in ErrorCodes
    BY <1>2, <1>15 DEF OnReadSuccess
  <2> QED
    BY <1>1, <1>15, <2>1, <2>2, CompleteKeeps
    DEF OnReadSuccess, OnReadResponse, TypeOK
<1>16. ASSUME NEW c \in Calls, OnReadSuccessDangling(c) PROVE TypeOK'
  BY <1>1, <1>16 DEF OnReadSuccessDangling, OnReadResponse, TypeOK
<1>17. ASSUME NEW c \in Calls, Timeout(c) PROVE TypeOK'
  <2>1. finished' \in [Calls -> BOOLEAN] /\ canceled' \in [Calls -> BOOLEAN]
    <3>1. CASE finished[c]
      BY <1>1, <1>17, <3>1 DEF Timeout, TypeOK
    <3>2. CASE ~finished[c]
      <4>1. /\ finished' = [finished EXCEPT ![c] = TRUE]
            /\ canceled' = [canceled EXCEPT ![c] = TRUE]
        BY <1>17, <3>2 DEF Timeout, StartCancel
      <4>2. /\ finished \in [Calls -> BOOLEAN]
            /\ canceled \in [Calls -> BOOLEAN]
        BY <1>1 DEF TypeOK
      <4> QED
        BY <4>1, <4>2, Zenon
    <3> QED
      BY <3>1, <3>2
  <2>2. /\ errorCode' \in [Calls -> ErrorCodes]
        /\ closureRuns' \in [Calls -> 0..1]
        /\ holders' \in [Calls -> SUBSET Holders]
        /\ timer' \in [Calls -> {"unset", "set", "over"}]
    BY <1>1, <1>2, <1>17 DEF Timeout, StartCancel, SetError, TypeOK
  <2> QED
    BY <1>1, <1>17, <2>1, <2>2 DEF Timeout, TypeOK
<1>18. ASSUME NEW c \in Calls, PeerAnswers(c) \/ PeerCloses(c)
       PROVE  TypeOK'
  <2>1. served' \in [Calls -> BOOLEAN]
    BY <1>1, <1>18, Zenon DEF PeerAnswers, PeerCloses, TypeOK
  <2>2. inbox' \in [Calls -> {"none", "ok", "error", "garbage", "eof"}]
    BY <1>1, <1>18 DEF PeerAnswers, PeerCloses, TypeOK
  <2> QED
    BY <1>1, <1>18, <2>1, <2>2 DEF PeerAnswers, PeerCloses, TypeOK
<1>19. ASSUME NEW c \in Calls, ClosureReturns(c) PROVE TypeOK'
  <2>1. stopFlag' \in BOOLEAN
    BY <1>19, Zenon DEF ClosureReturns
  <2>2. /\ phase' \in [Calls -> {"new", "called", "returned"}]
        /\ holders' \in [Calls -> SUBSET Holders]
    BY <1>1, <1>19 DEF ClosureReturns, TypeOK
  <2> QED
    BY <1>1, <1>19, <2>1, <2>2, ReturnKeeps DEF ClosureReturns, TypeOK
<1>20. CASE UNCHANGED vars
  BY <1>1, <1>20 DEF vars, TypeOK
<1> QED
  BY <1>3, <1>4, <1>5, <1>6, <1>7, <1>8, <1>9, <1>10, <1>11, <1>12, <1>13,
     <1>14, <1>15, <1>16, <1>17, <1>18, <1>19, <1>20
  DEF Next, CallMethod, LoopHandler

-----------------------------------------------------------------------------
CallAction(c) ==
  \/ CallMethod(c) \/ LoopHandler(c) \/ CallerDrops(c) \/ ClosureReturns(c)
  \/ PeerAnswers(c) \/ PeerCloses(c)

(* Nothing but the action of call d touches what is kept of call d.        *)
CallUntouched(d) ==
  /\ phase'[d] = phase[d]
  /\ onOut'[d] = onOut[d] /\ sendCb'[d] = sendCb[d] /\ recvCb'[d] = recvCb[d]
  /\ closureRuns'[d] = closureRuns[d] /\ errorCode'[d] = errorCode[d]
  /\ finished'[d] = finished[d] /\ canceled'[d] = canceled[d]
  /\ UnderWay(d) => UnderWay(d)'

(* What one step may do to a call: OneOutcome and OutcomeKept say it of all. *)
StartsOnce(c) ==
  closureRuns'[c] # closureRuns[c] => closureRuns[c] = 0 /\ ~finished[c]

CanceledInTime(c) ==
  canceled'[c] # canceled[c] => closureRuns[c] = 0 \/ LoopInClosure(c)

ErrorKept(c) ==
  closureRuns[c] > 0 /\ errorCode'[c] # errorCode[c] => LoopInClosure(c)

StepOf(c) ==
  /\ \A d \in Calls \ {c} : CallUntouched(d)
  /\ CallInv(c)'
  /\ StartsOnce(c) /\ CanceledInTime(c) /\ ErrorKept(c)

(* The actions that give a call its outcome all take its token.            *)
LEMMA OutcomeStep ==
  ASSUME OutcomeInv, NEW c \in Calls, NEW error \in ErrorCodes,
         Complete(c, error), ~Spent(c), Spent(c)',
         \A d \in Calls \ {c} :
           /\ phase'[d] = phase[d] /\ onOut'[d] = onOut[d]
           /\ sendCb'[d] = sendCb[d] /\ recvCb'[d] = recvCb[d]
  PROVE  StepOf(c)
<1>1. \A d \in Calls \ {c} : CallUntouched(d)
  BY CompleteKeeps DEF CallUntouched
<1>2. CallInv(c)'
  BY CompleteKeeps DEF CallInv, Token, Spent
<1>3. StartsOnce(c) /\ CanceledInTime(c) /\ ErrorKept(c)
  BY CompleteKeeps DEF StartsOnce, CanceledInTime, ErrorKept
<1> QED
  BY <1>1, <1>2, <1>3 DEF StepOf

(* The other actions but the timeout and a closure's return leave the
   controller alone, and take the token no further than to the next place. *)
LEMMA QuietStep ==
  ASSUME OutcomeInv, NEW c \in Calls, UNCHANGED <<ctrlVars, closures>>,
         Token(c)', closureRuns[c] > 0 => Spent(c)',
         \A d \in Calls \ {c} :
           /\ phase'[d] = phase[d] /\ onOut'[d] = onOut[d]
           /\ sendCb'[d] = sendCb[d] /\ recvCb'[d] = recvCb[d]
  PROVE  StepOf(c)
<1>1. \A d \in Calls : UnderWay(d)' <=> UnderWay(d)
  BY DEF UnderWay, closures
<1>2. /\ closureRuns' = closureRuns /\ errorCode' = errorCode
      /\ finished' = finished /\ canceled' = canceled
  BY DEF ctrlVars
<1>3. \A d \in Calls \ {c} : CallUntouched(d)
  BY <1>1, <1>2 DEF CallUntouched
<1>4. CallInv(c)'
  BY <1>1, <1>2 DEF CallInv, OutcomeInv
<1>5. StartsOnce(c) /\ CanceledInTime(c) /\ ErrorKept(c)
  BY <1>2 DEF StartsOnce, CanceledInTime, ErrorKept
<1> QED
  BY <1>3, <1>4, <1>5 DEF StepOf

LEMMA CallStep ==
  ASSUME OutcomeInv, NEW c \in Calls, CallAction(c)
  PROVE  StepOf(c)
<1> USE DEF loopVars, connVars, peerVars
<1>0. TypeOK /\ Token(c) /\ (closureRuns[c] > 0 => Spent(c))
  BY DEF OutcomeInv, CallInv
<1>e. {"none", "init", "timeout", "connect", "serialize", "deserialize", "remote"}
        \subseteq ErrorCodes
  BY DEF ErrorCodes
<1>1. CASE CallUnserializable(c)
  <2>1. PICK error \in ErrorCodes : Complete(c, error)
    BY <1>1, <1>e DEF CallUnserializable
  <2>2. ~Spent(c) /\ Spent(c)'
    BY <1>0, <1>1 DEF CallUnserializable, BeginCall, EndsWithCallBack, Spent,
                      Token, TypeOK
  <2> QED
    BY <1>0, <1>1, <2>1, <2>2, OutcomeStep
    DEF CallUnserializable, EndsWithCallBack, TypeOK
<1>2. CASE CallRefused(c)
  <2>1. ~Spent(c) /\ Spent(c)'
    BY <1>0, <1>2 DEF CallRefused, BeginCall, EndsWithCallBack, Spent, Token, TypeOK
  <2> QED
    BY <1>0, <1>2, <1>e, <2>1, OutcomeStep DEF CallRefused, EndsWithCallBack, TypeOK
<1>3. CASE CallConnected(c)
  BY <1>0, <1>3, QuietStep
  DEF CallConnected, BeginCall, WriteMessage, Token, Spent, TypeOK
<1>4. CASE CallInProgress(c)
  BY <1>0, <1>4, QuietStep DEF CallInProgress, BeginCall, Token, Spent, TypeOK
<1>5. CASE ConnectSucceeds(c)
  BY <1>0, <1>5, QuietStep DEF ConnectSucceeds, WriteMessage, Token, Spent, TypeOK
<1>6. CASE ConnectFails(c)
  <2>1. ~Spent(c) /\ Spent(c)'
    BY <1>0, <1>6 DEF ConnectFails, Spent, Token, TypeOK
  <2> QED
    BY <1>0, <1>6, <1>e, <2>1, OutcomeStep DEF ConnectFails, TypeOK
<1>7. CASE OnWrite(c)
  BY <1>0, <1>7, QuietStep DEF OnWrite, Token, Spent, TypeOK
<1>8. CASE OnReadClosed(c)
  BY <1>0, <1>8, QuietStep DEF OnReadClosed, Token, Spent, TypeOK
<1>9. CASE OnReadFailure(c)
  <2>1. PICK error \in ErrorCodes : Complete(c, error)
    BY <1>9, <1>e DEF OnReadFailure
  <2>2. ~Spent(c) /\ Spent(c)'
    BY <1>0, <1>9 DEF OnReadFailure, OnReadResponse, Spent, Token, TypeOK
  <2> QED
    BY <1>0, <1>9, <2>1, <2>2, OutcomeStep DEF OnReadFailure, OnReadResponse, TypeOK
<1>10. CASE OnReadSuccess(c)
  <2>1. ~Spent(c) /\ Spent(c)'
    BY <1>0, <1>10 DEF OnReadSuccess, OnReadResponse, Spent, Token, TypeOK
  <2> QED
    BY <1>0, <1>10, <1>e, <2>1, OutcomeStep DEF OnReadSuccess, OnReadResponse, TypeOK
<1>11. CASE OnReadSuccessDangling(c)
  BY <1>0, <1>11, QuietStep
  DEF OnReadSuccessDangling, OnReadResponse, Token, Spent, TypeOK
<1>12. CASE Timeout(c)
  <2>1. UNCHANGED <<phase, onOut, sendCb, recvCb, outer, inner, closureRuns>>
    BY <1>12 DEF Timeout, closures, ctrlVars
  <2>2. \A d \in Calls : UnderWay(d)' <=> UnderWay(d)
    BY <2>1 DEF UnderWay
  <2>3. CASE finished[c]
    BY <1>0, <1>12, <2>1, <2>3, QuietStep DEF Timeout, Token, Spent
  <2>4. CASE ~finished[c]
    <3>1. /\ finished' = [finished EXCEPT ![c] = TRUE]
          /\ canceled' = [canceled EXCEPT ![c] = TRUE]
          /\ errorCode' = [errorCode EXCEPT ![c] = "timeout"]
      BY <1>12, <2>4 DEF Timeout, StartCancel, SetError
    <3>2. closureRuns[c] > 0 => LoopInClosure(c)
      <4>1. InLoop /\ inner = <<>>
        BY <1>12 DEF Timeout, Handler
      <4>2. ~IsIn(c, inner)
        BY <4>1 DEF IsIn
      <4> QED
        BY <2>4, <4>1, <4>2 DEF OutcomeInv, CallInv, UnderWay, LoopInClosure
    <3>3. finished'[c] /\ \A d \in Calls \ {c} :
            /\ finished'[d] = finished[d] /\ canceled'[d] = canceled[d]
            /\ errorCode'[d] = errorCode[d]
      BY <1>0, <3>1 DEF TypeOK
    <3>4. closureRuns[c] = 0 \/ closureRuns[c] > 0
      BY <1>0 DEF TypeOK
    <3>5. \A d \in Calls \ {c} : CallUntouched(d)
      BY <2>1, <2>2, <3>3 DEF CallUntouched
    <3>6. CallInv(c)'
      BY <1>0, <2>1, <3>3 DEF CallInv, Token, Spent
    <3> QED
      BY <2>1, <3>2, <3>4, <3>5, <3>6
      DEF StepOf, StartsOnce, CanceledInTime, ErrorKept
  <2> QED
    BY <2>3, <2>4
<1>13. CASE CallerDrops(c) \/ PeerAnswers(c) \/ PeerCloses(c) \/ CallUninitialized(c)
  BY <1>0, <1>13, QuietStep
  DEF CallerDrops, PeerAnswers, PeerCloses, CallUninitialized, Token, Spent
<1>14. CASE ClosureReturns(c)
  <2>1. UNCHANGED <<onOut, sendCb, recvCb, closureRuns, canceled, errorCode>>
    BY <1>14 DEF ClosureReturns
  <2>2. \A d \in Calls \ {c} : CallUntouched(d)
    <3>1. \A d \in Calls \ {c} : phase'[d] = phase[d]
      BY <1>0, <1>14 DEF ClosureReturns, TypeOK
    <3> QED
      BY <1>14, <2>1, <3>1, ReturnKeeps DEF CallUntouched
  <2>3. phase'[c] = phase[c] \/ phase'[c] = "returned"
    BY <1>0, <1>14 DEF ClosureReturns, TypeOK
  <2>4. CallInv(c)'
    BY <1>0, <1>14, <2>1, <2>3, ReturnKeeps DEF CallInv, Token, Spent
  <2> QED
    BY <2>1, <2>2, <2>4 DEF StepOf, StartsOnce, CanceledInTime, ErrorKept
<1> QED
  BY <1>1, <1>2, <1>3, <1>4, <1>5, <1>6, <1>7, <1>8, <1>9, <1>10, <1>11,
     <1>12, <1>13, <1>14 DEF CallAction, CallMethod, LoopHandler

(* The loop's return touches nothing of a call but that CallMethod returns. *)
LEMMA LoopReturnsUntouched ==
  ASSUME OutcomeInv, LoopReturns \/ UNCHANGED vars, NEW d \in Calls
  PROVE  /\ phase'[d] = phase[d] \/ phase'[d] = "returned"
         /\ UNCHANGED <<onOut, sendCb, recvCb, ctrlVars, closures>>
PROOF BY DEF LoopReturns, vars, connVars, OutcomeInv, TypeOK

LEMMA OutcomeNext == OutcomeInv /\ [Next]_vars => OutcomeInv'
<1> SUFFICES ASSUME OutcomeInv, [Next]_vars, NEW d \in Calls PROVE CallInv(d)'
  BY TypeNext DEF OutcomeInv
<1>0. CallInv(d)
  BY DEF OutcomeInv
<1>1. ASSUME NEW c \in Calls, CallAction(c) PROVE CallInv(d)'
  <2>1. StepOf(c)
    BY <1>1, CallStep
  <2>2. CASE d = c
    BY <2>1, <2>2 DEF StepOf
  <2>3. CASE d # c
    <3>1. CallUntouched(d)
      BY <2>1, <2>3 DEF StepOf
    <3> QED
      BY <1>0, <3>1 DEF CallInv, Token, Spent, CallUntouched
  <2> QED
    BY <2>2, <2>3
<1>2. CASE LoopReturns \/ UNCHANGED vars
  BY <1>0, <1>2, LoopReturnsUntouched
  DEF CallInv, Token, Spent, UnderWay, ctrlVars, closures
<1> QED
  BY <1>1, <1>2 DEF Next, CallAction

LEMMA OutcomeInvariant == Spec => []OutcomeInv
PROOF BY OutcomeInit, OutcomeNext, SafetySpec, PTL

(* Every variable of a client's calls keeps its type; in particular no
   closure starts twice.                                                   *)
THEOREM TypeCorrect == Spec => []TypeOK
<1>1. OutcomeInv => TypeOK
  BY DEF OutcomeInv
<1> QED
  BY <1>1, OutcomeInvariant, PTL

(* What the step of one call may do, no step does otherwise to any call.   *)
LEMMA OutcomeSteps ==
  ASSUME OutcomeInv, [Next]_vars, NEW d \in Calls
  PROVE  StartsOnce(d) /\ CanceledInTime(d) /\ ErrorKept(d)
<1>1. ASSUME NEW c \in Calls, CallAction(c)
      PROVE  StartsOnce(d) /\ CanceledInTime(d) /\ ErrorKept(d)
  <2>1. StepOf(c)
    BY <1>1, CallStep
  <2>2. d = c \/ CallUntouched(d)
    BY <2>1 DEF StepOf
  <2> QED
    BY <2>1, <2>2
    DEF StepOf, CallUntouched, StartsOnce, CanceledInTime, ErrorKept
<1>2. CASE LoopReturns \/ UNCHANGED vars
  BY <1>2, LoopReturnsUntouched
  DEF ctrlVars, StartsOnce, CanceledInTime, ErrorKept
<1> QED
  BY <1>1, <1>2 DEF Next, CallAction

(* A closure starts once and for an unfinished call only, and a call whose
   closure has started is cancelled only by the timeout in a loop that its
   closure has entered, in whatever order the callbacks come.              *)
THEOREM CallHasOneOutcome == Spec => OneOutcome
<1>1. OutcomeInv /\ [Next]_vars
        => [\A c \in Calls :
              /\ closureRuns'[c] # closureRuns[c] => closureRuns[c] = 0 /\ ~finished[c]
              /\ canceled'[c] # canceled[c]
                   => closureRuns[c] = 0 \/ LoopInClosure(c)]_vars
  BY OutcomeSteps DEF StartsOnce, CanceledInTime
<1> QED
  BY <1>1, OutcomeInvariant, SafetySpec, PTL DEF OneOutcome

(* What the closure of a call has been told stays true, but for that timeout. *)
THEOREM OutcomeIsKept == Spec => OutcomeKept
<1>1. OutcomeInv /\ [Next]_vars
        => [\A c \in Calls : closureRuns[c] > 0 /\ errorCode'[c] # errorCode[c]
                               => LoopInClosure(c)]_vars
  BY OutcomeSteps DEF ErrorKept
<1> QED
  BY <1>1, OutcomeInvariant, SafetySpec, PTL DEF OutcomeKept

-----------------------------------------------------------------------------
(* The timeout event is what holds the channel of a call that has no outcome:
   it is set before the connection is made, and when it has been handled the
   call has finished.                                                      *)
TimerHolds(c) ==
  /\ onOut[c] = "connect" \/ sendCb[c] \/ recvCb[c] => timer[c] # "unset"
  /\ timer[c] = "set" => "timer" \in holders[c]
  /\ timer[c] = "over" => finished[c]

HolderInv == \A c \in Calls : TimerHolds(c)

(* Nothing but the action of call c touches the holders of call c.         *)
HoldersUntouched(d) ==
  /\ onOut'[d] = onOut[d] /\ sendCb'[d] = sendCb[d] /\ recvCb'[d] = recvCb[d]
  /\ timer'[d] = timer[d] /\ holders'[d] = holders[d]
  /\ finished[d] => finished'[d]

LEMMA HolderStep ==
  ASSUME OutcomeInv, HolderInv, NEW c \in Calls, CallAction(c)
  PROVE  /\ \A d \in Calls \ {c} : HoldersUntouched(d)
         /\ TimerHolds(c)'
<1> USE DEF loopVars, connVars, peerVars, ctrlVars, OutcomeInv, TypeOK,
            HolderInv, TimerHolds, HoldersUntouched
<1>1. CASE CallUnserializable(c)
  BY <1>1 DEF CallUnserializable, Complete, SetError, MyCallBack
<1>2. CASE CallRefused(c)
  BY <1>2 DEF CallRefused, Complete, SetError, MyCallBack
<1>3. CASE CallConnected(c)
  BY <1>3 DEF CallConnected, WriteMessage
<1>4. CASE CallInProgress(c)
  BY <1>4 DEF CallInProgress
<1>5. CASE ConnectSucceeds(c)
  BY <1>5 DEF ConnectSucceeds, WriteMessage
<1>6. CASE ConnectFails(c)
  BY <1>6 DEF ConnectFails, Complete, SetError, MyCallBack
<1>7. CASE OnWrite(c)
  BY <1>7 DEF OnWrite
<1>8. CASE OnReadClosed(c)
  BY <1>8 DEF OnReadClosed
<1>9. CASE OnReadFailure(c)
  BY <1>9 DEF OnReadFailure, OnReadResponse, Complete, SetError, MyCallBack
<1>10. CASE OnReadSuccess(c)
  BY <1>10 DEF OnReadSuccess, OnReadResponse, Complete, SetError, MyCallBack
<1>11. CASE OnReadSuccessDangling(c)
  BY <1>11 DEF OnReadSuccessDangling, OnReadResponse
<1>12. CASE Timeout(c)
  BY <1>12 DEF Timeout, StartCancel, SetError
<1>13. CASE CallerDrops(c) \/ PeerAnswers(c) \/ PeerCloses(c) \/ CallUninitialized(c)
  BY <1>13 DEF CallerDrops, PeerAnswers, PeerCloses, CallUninitialized
<1>14. CASE ClosureReturns(c)
  BY <1>14 DEF ClosureReturns
<1> QED
  BY <1>1, <1>2, <1>3, <1>4, <1>5, <1>6, <1>7, <1>8, <1>9, <1>10, <1>11,
     <1>12, <1>13, <1>14 DEF CallAction, CallMethod, LoopHandler

LEMMA HolderNext == OutcomeInv /\ HolderInv /\ [Next]_vars => HolderInv'
<1> SUFFICES ASSUME OutcomeInv, HolderInv, [Next]_vars PROVE HolderInv'
  OBVIOUS
<1>1. ASSUME NEW c \in Calls, CallAction(c) PROVE HolderInv'
  BY <1>1, HolderStep DEF HolderInv, TimerHolds, HoldersUntouched
<1>2. CASE LoopReturns \/ UNCHANGED vars
  BY <1>2 DEF LoopReturns, vars, connVars, ctrlVars, HolderInv, TimerHolds
<1> QED
  BY <1>1, <1>2 DEF Next, CallAction

(* While a call has no outcome, the callback that waits for its response is
   not the only holder of the channel it is going to use.                  *)
THEOREM WantedChannelHeld == Spec => []WantedChannelIsHeld
<1>1. Init => HolderInv
  BY DEF Init, HolderInv, TimerHolds
<1>2. OutcomeInv /\ HolderInv => WantedChannelIsHeld
  <2> SUFFICES ASSUME OutcomeInv, HolderInv,
                      NEW c \in Calls, recvCb[c], ~finished[c]
               PROVE  holders[c] \ {"recv"} # {}
    BY DEF WantedChannelIsHeld
  <2>1. timer[c] = "set"
    BY DEF OutcomeInv, TypeOK, HolderInv, TimerHolds
  <2> QED
    BY <2>1 DEF HolderInv, TimerHolds
<1> QED
  BY <1>1, <1>2, HolderNext, OutcomeInvariant, SafetySpec, PTL

-----------------------------------------------------------------------------
(* The message identifiers of the calls, module MsgIDUtil.                 *)

(* Induction, said of a set of naturals: the least that is not in it would
   be zero or the successor of one that is.                                *)
LEMMA AllNaturals ==
  ASSUME NEW S, 0 \in S, \A n \in Nat : n \in S => n + 1 \in S
  PROVE  \A n \in Nat : n \in S
<1> SUFFICES ASSUME NEW m \in Nat, m \notin S PROVE FALSE
  OBVIOUS
<1> DEFINE Less == {p \in Nat \X Nat : p[1] < p[2]}
           Missed == {n \in Nat : n \notin S}
<1>1. IsWellFoundedOn(Less, Nat)
  BY NatLessThanWellFounded DEF OpToRel
<1>2. PICK x \in Missed : \A y \in Missed : ~(<<y, x>> \in Less)
  <2>1. Missed \subseteq Nat /\ Missed # {}
    OBVIOUS
  <2> HIDE DEF Missed, Less
  <2> QED
    BY <1>1, <2>1, WFMin
<1>3. x \in Nat /\ x # 0 /\ x \notin S
  BY <1>2
<1>4. x - 1 \in Nat /\ x - 1 + 1 = x
  BY <1>3
<1>5. x - 1 \notin Missed
  <2>1. <<x - 1, x>> \in Less
    BY <1>3, <1>4
  <2> QED
    BY <1>2, <2>1
<1> QED
  BY <1>3, <1>4, <1>5

(* What Value computes on its way, digit by digit.                         *)
CountsDigits(value, id) ==
  value = [i \in 0..messageIDLen |->
             IF i = 0 THEN 0 ELSE (Nine + 1) * value[i - 1] + id[i]]

(* There is such a function: one up to the i-th digit is one digit longer
   with the digit after it.                                                *)
LEMMA ValueExists ==
  ASSUME NEW id \in IDs
  PROVE  \E value : CountsDigits(value, id)
<1> DEFINE Upto(n, f) == /\ f \in [0..n -> Nat] /\ f[0] = 0
                         /\ \A i \in 1..n : f[i] = (Nine + 1) * f[i - 1] + id[i]
           S == {n \in Nat : n <= messageIDLen => \E f : Upto(n, f)}
<1>1. Nine \in Nat /\ messageIDLen \in Nat
  BY DigitsAssumption
<1>2. 0 \in S
  <2>1. Upto(0, [i \in 0..0 |-> 0])
    OBVIOUS
  <2> QED
    BY <2>1
<1>3. ASSUME NEW n \in Nat, n \in S PROVE n + 1 \in S
  <2> HIDE DEF Upto
  <2> SUFFICES ASSUME n + 1 <= messageIDLen PROVE \E g : Upto(n + 1, g)
    OBVIOUS
  <2>1. PICK f : Upto(n, f)
    BY <1>1, <1>3
  <2> USE DEF Upto
  <2> DEFINE g == [i \in 0..(n + 1) |->
                     IF i = n + 1 THEN (Nine + 1) * f[n] + id[n + 1] ELSE f[i]]
  <2>2. id[n + 1] \in Nat /\ f[n] \in Nat
    BY <1>1, <2>1 DEF IDs, Positions
  <2>3. (Nine + 1) * f[n] \in Nat
    BY <1>1, <2>2
  <2>4. g \in [0..(n + 1) -> Nat]
    BY <2>1, <2>2, <2>3
  <2>5. g[0] = 0
    BY <2>1
  <2>6. ASSUME NEW i \in 1..(n + 1) PROVE g[i] = (Nine + 1) * g[i - 1] + id[i]
    <3>1. CASE i = n + 1
      BY <3>1
    <3>2. CASE i \in 1..n
      <4>1. i # n + 1 /\ i - 1 # n + 1 /\ i \in 0..(n + 1) /\ i - 1 \in 0..(n + 1)
        BY <3>2
      <4>2. g[i] = f[i] /\ g[i - 1] = f[i - 1]
        BY <4>1
      <4> QED
        BY <2>1, <3>2, <4>2
    <3> QED
      BY <3>1, <3>2
  <2> QED
    BY <2>4, <2>5, <2>6
<1>4. messageIDLen \in S
  <2> HIDE DEF S
  <2> QED
    BY <1>1, <1>2, <1>3, AllNaturals
<1>5. \E f : Upto(messageIDLen, f)
  <2> HIDE DEF Upto
  <2> QED
    BY <1>1, <1>4
<1> PICK f : Upto(messageIDLen, f)
  BY <1>5
<1>6. f = [i \in 0..messageIDLen |-> f[i]]
  OBVIOUS
<1>7. ASSUME NEW i \in 0..messageIDLen
      PROVE  f[i] = IF i = 0 THEN 0 ELSE (Nine + 1) * f[i - 1] + id[i]
  BY <1>1
<1>8. CountsDigits(f, id)
  BY <1>6, <1>7 DEF CountsDigits
<1> QED
  BY <1>8

(* Value is where such a function ends.                                    *)
LEMMA ValueIs ==
  ASSUME NEW id \in IDs
  PROVE  \E value : CountsDigits(value, id) /\ Value(id) = value[messageIDLen]
<1> DEFINE v == CHOOSE value : CountsDigits(value, id)
<1>1. CountsDigits(v, id)
  BY ValueExists
<1>2. Value(id) = v[messageIDLen]
  BY DEF Value, CountsDigits
<1> QED
  BY <1>1, <1>2

(* A digit that takes the carry is there unless all are nines.             *)
LEMMA CarryIs ==
  ASSUME NEW id \in IDs, NEW k \in Positions, id[k] # Nine
  PROVE  /\ CarryAt(id) \in Positions /\ id[CarryAt(id)] # Nine
         /\ \A j \in (CarryAt(id) + 1)..messageIDLen : id[j] = Nine
<1> DEFINE Last(i) == id[i] # Nine /\ \A j \in (i + 1)..messageIDLen : id[j] = Nine
           S == {n \in Nat : \A i \in Positions :
                               id[i] # Nine /\ messageIDLen - i <= n => \E l \in Positions : Last(l)}
<1>1. messageIDLen \in Nat
  BY DigitsAssumption
<1>2. 0 \in S
  BY <1>1 DEF Positions
<1>3. ASSUME NEW n \in Nat, n \in S PROVE n + 1 \in S
  <2> SUFFICES ASSUME NEW i \in Positions, id[i] # Nine, messageIDLen - i <= n + 1
               PROVE  \E l \in Positions : Last(l)
    OBVIOUS
  <2>1. CASE \A j \in (i + 1)..messageIDLen : id[j] = Nine
    BY <2>1
  <2>2. ASSUME NEW j \in (i + 1)..messageIDLen, id[j] # Nine
        PROVE  \E l \in Positions : Last(l)
    <3>1. j \in Positions /\ messageIDLen - j <= n
      BY <1>1, <2>2 DEF Positions
    <3> QED
      BY <1>3, <2>2, <3>1
  <2> QED
    BY <2>1, <2>2
<1>4. messageIDLen \in S
  <2> HIDE DEF S
  <2> QED
    BY <1>1, <1>2, <1>3, AllNaturals
<1>5. \E l \in Positions : Last(l)
  BY <1>1, <1>4 DEF Positions
<1> QED
  BY <1>5 DEF CarryAt

(* The next identifier shows the next number: nothing changes before the
   carry, one is more at it, and every nine behind it that becomes a nought
   gives one back.                                                         *)
LEMMA SuccessorCounts ==
  ASSUME NEW id \in IDs, NEW k \in Positions, id[k] # Nine
  PROVE  Successor(id) \in IDs /\ Value(Successor(id)) = Value(id) + 1
<1> DEFINE c == CarryAt(id)
           next == Successor(id)
<1>1. /\ c \in Positions /\ id[c] # Nine
      /\ \A j \in (c + 1)..messageIDLen : id[j] = Nine
  BY CarryIs
<1>2. Nine \in Nat /\ messageIDLen \in Nat \ {0} /\ Positions = 1..messageIDLen
  BY DigitsAssumption DEF Positions
<1>3. \A j \in Positions :
        next[j] = CASE j < c -> id[j] [] j = c -> id[j] + 1 [] OTHER -> 0
  BY DEF Successor
<1>4. next \in IDs
  <2>1. ASSUME NEW j \in Positions PROVE next[j] \in 0..Nine
    <3>1. id[j] \in 0..Nine /\ j \in Int /\ c \in Int
      BY <1>1, <1>2 DEF IDs
    <3> HIDE DEF c, next
    <3>2. CASE j < c
      BY <1>3, <3>1, <3>2
    <3>3. CASE j = c
      BY <1>1, <1>2, <1>3, <3>1, <3>3
    <3>4. CASE j > c
      BY <1>2, <1>3, <3>1, <3>4
    <3> QED
      BY <3>1, <3>2, <3>3, <3>4
  <2>2. next = [j \in Positions |-> next[j]]
    BY DEF Successor
  <2> HIDE DEF next
  <2> QED
    BY <2>1, <2>2 DEF IDs
<1>5. PICK f : CountsDigits(f, id) /\ Value(id) = f[messageIDLen]
  BY ValueIs
<1>6. PICK h : CountsDigits(h, next) /\ Value(next) = h[messageIDLen]
  BY <1>4, ValueIs
<1> HIDE DEF c, next
<1>7. /\ f[0] = 0 /\ h[0] = 0
      /\ \A i \in 1..messageIDLen : f[i] = (Nine + 1) * f[i - 1] + id[i]
      /\ \A i \in 1..messageIDLen : h[i] = (Nine + 1) * h[i - 1] + next[i]
  <2>1. \A i \in 0..messageIDLen :
          /\ f[i] = IF i = 0 THEN 0 ELSE (Nine + 1) * f[i - 1] + id[i]
          /\ h[i] = IF i = 0 THEN 0 ELSE (Nine + 1) * h[i - 1] + next[i]
    BY <1>5, <1>6 DEF CountsDigits
  <2>2. 0 \in 0..messageIDLen
        /\ \A i \in 1..messageIDLen : i \in 0..messageIDLen /\ i # 0
    BY <1>2
  <2> QED
    BY <2>1, <2>2
<1> DEFINE S == {i \in Nat : i <= messageIDLen =>
                               f[i] \in Int /\ h[i] = IF i < c THEN f[i] ELSE f[i] + 1}
<1>8. 0 \in S
  BY <1>1, <1>2, <1>7
<1>9. ASSUME NEW n \in Nat, n \in S PROVE n + 1 \in S
  <2> SUFFICES ASSUME n + 1 <= messageIDLen
               PROVE  /\ f[n + 1] \in Int
                      /\ h[n + 1] = IF n + 1 < c THEN f[n + 1] ELSE f[n + 1] + 1
    OBVIOUS
  <2>1. /\ n + 1 \in 1..messageIDLen /\ n + 1 \in Positions /\ n + 1 - 1 = n
        /\ c \in Int /\ f[n] \in Int /\ id[n + 1] \in Int
    BY <1>1, <1>2, <1>9 DEF IDs
  <2>2. /\ f[n + 1] = (Nine + 1) * f[n] + id[n + 1]
        /\ h[n + 1] = (Nine + 1) * h[n] + next[n + 1]
    BY <1>7, <2>1
  <2>3. (Nine + 1) * f[n] \in Int /\ f[n + 1] \in Int
    BY <1>2, <2>1, <2>2
  <2>7. h[n] = IF n < c THEN f[n] ELSE f[n] + 1
    BY <1>2, <1>9, <2>1
  <2> HIDE DEF S
  <2>4. CASE n + 1 < c
    <3>1. h[n] = f[n] /\ next[n + 1] = id[n + 1]
      BY <1>3, <2>1, <2>4, <2>7
    <3> QED
      BY <2>2, <2>3, <2>4, <3>1
  <2>5. CASE n + 1 = c
    <3>1. h[n] = f[n] /\ next[n + 1] = id[n + 1] + 1
      BY <1>3, <2>1, <2>5, <2>7
    <3> QED
      BY <2>1, <2>2, <2>3, <2>5, <3>1
  <2>6. CASE n + 1 > c
    <3>0. n + 1 \in (c + 1)..messageIDLen
      BY <2>1, <2>6
    <3>1. h[n] = f[n] + 1 /\ next[n + 1] = 0 /\ id[n + 1] = Nine
      BY <1>1, <1>3, <2>1, <2>6, <2>7, <3>0
    <3>2. (Nine + 1) * (f[n] + 1) = (Nine + 1) * f[n] + Nine + 1
      BY <1>2, <2>1
    <3> QED
      BY <1>2, <2>1, <2>2, <2>3, <2>6, <3>1, <3>2
  <2> QED
    BY <2>1, <2>3, <2>4, <2>5, <2>6
<1>10. messageIDLen \in S
  <2> HIDE DEF S
  <2> QED
    BY <1>2, <1>8, <1>9, AllNaturals
<1>11. h[messageIDLen] = f[messageIDLen] + 1
  BY <1>1, <1>2, <1>10
<1> QED
  BY <1>4, <1>5, <1>6, <1>11 DEF next

(* The generator keeps the types of its string and its counters.           *)
LEMMA IDTypeNext == IDTypeOK /\ [IDNext]_idVars => IDTypeOK'
<1> SUFFICES ASSUME IDTypeOK, [IDNext]_idVars PROVE IDTypeOK'
  OBVIOUS
<1>1. Nine \in Nat /\ messageIDLen \in Nat \ {0} /\ MaxDrawn \in Nat
  BY DigitsAssumption
<1>2. \A id \in IDs : id # <<>>
  <2>1. 1 \in Positions
    BY <1>1 DEF Positions
  <2> QED
    BY <2>1 DEF IDs
<1>3. CASE Draw
  <2>1. maxDigits' = drawn' * messageIDLen
    <3>1. drawn \in Int /\ messageIDLen \in Int
      BY <1>1 DEF IDTypeOK
    <3>2. (drawn + 1) * messageIDLen = drawn * messageIDLen + messageIDLen
      BY <3>1
    <3> QED
      BY <1>3, <3>2 DEF Draw, IDTypeOK
  <2>2. drawn' \in 0..MaxDrawn /\ drawn' # 0
    BY <1>1, <1>3 DEF Draw, IDTypeOK
  <2> QED
    BY <1>2, <1>3, <2>1, <2>2 DEF Draw, IDTypeOK
<1>4. CASE Increment
  <2>1. messageIDNo \in IDs /\ messageIDNo' = Successor(messageIDNo)
    BY <1>4 DEF Increment, IDTypeOK
  <2>2. PICK k \in Positions : messageIDNo[k] # Nine
    BY <1>4 DEF Increment, AllNines
  <2>3. messageIDNo' \in IDs
    BY <2>1, <2>2, SuccessorCounts
  <2> QED
    BY <1>2, <1>4, <2>1, <2>3 DEF Increment, IDTypeOK
<1>5. CASE CarryOut
  BY <1>5 DEF CarryOut, IDTypeOK
<1>6. CASE UNCHANGED idVars
  BY <1>6 DEF idVars, IDTypeOK
<1> QED
  BY <1>3, <1>4, <1>5, <1>6 DEF IDNext

(* The string always has as many digits as an identifier, from nought to the
   largest.                                                                *)
THEOREM IDTypeCorrect == IDSpec => []IDTypeOK
<1>1. IDInit => IDTypeOK
  <2>1. 0 \in 0..MaxDrawn /\ 0 = 0 * messageIDLen
    BY DigitsAssumption
  <2> QED
    BY <2>1 DEF IDInit, IDTypeOK
<1> QED
  BY <1>1, IDTypeNext, PTL DEF IDSpec

(* Between two draws the identifiers of a thread count up by one, for any
   number of digits and whatever digits were drawn (msg_id_util.cc 56-70): no
   two calls of a thread are given the same one then.                      *)
THEOREM IdentifiersCount == IDSpec => CountsByOne
<1>1. IDTypeOK /\ [IDNext]_idVars
        => [drawn > 0 /\ drawn' = drawn /\ outside' = outside =>
              Value(messageIDNo') = Value(messageIDNo) + 1]_messageIDNo
  <2> SUFFICES ASSUME IDTypeOK, IDNext, drawn' = drawn, messageIDNo' # messageIDNo
               PROVE  Value(messageIDNo') = Value(messageIDNo) + 1
    BY DEF idVars
  <2>1. drawn \in Int
    BY DigitsAssumption DEF IDTypeOK
  <2>2. Increment
    BY <2>1 DEF IDNext, Draw, CarryOut, idVars
  <2>3. messageIDNo \in IDs /\ messageIDNo' = Successor(messageIDNo)
    BY <2>2 DEF Increment, IDTypeOK
  <2>4. PICK k \in Positions : messageIDNo[k] # Nine
    BY <2>2 DEF Increment, AllNines
  <2> QED
    BY <2>3, <2>4, SuccessorCounts
<1> QED
  BY <1>1, IDTypeCorrect, PTL DEF IDSpec, CountsByOne


(* The carry leaves the string only after digits were drawn a second time
   (msg_id_util.cc 30, 49, 58-61): until then the maximum has as many nines as
   the identifier, so all nines are the maximum.                           *)
THEOREM FirstRoundStaysInside == IDSpec => [](drawn <= 1 => ~outside)
<1> DEFINE Inside == drawn <= 1 => ~outside
<1>1. IDInit => Inside
  BY DEF IDInit
<1>2. IDTypeOK /\ Inside /\ [IDNext]_idVars => Inside'
  <2> SUFFICES ASSUME IDTypeOK, Inside, [IDNext]_idVars, drawn' <= 1, outside' PROVE FALSE
    BY DEF IDTypeOK
  <2>1. drawn \in Int /\ messageIDLen \in Int
    BY DigitsAssumption DEF IDTypeOK
  <2>2. drawn <= 1
    <3>1. drawn' = drawn \/ drawn' = drawn + 1
      BY Zenon DEF IDNext, Draw, Increment, CarryOut, idVars
    <3> QED
      BY <2>1, <3>1
  <2>3. ~outside
    BY <2>2
  <2>4. CarryOut
    BY <2>3 DEF IDNext, Draw, Increment, idVars
  <2>5. drawn = 1
    BY <2>1, <2>2, <2>4, DigitsAssumption DEF CarryOut, AllNines, IDTypeOK
  <2>6. maxDigits = messageIDLen
    BY <2>1, <2>5 DEF IDTypeOK
  <2> QED
    BY <2>4, <2>6 DEF CarryOut, IsMax
<1> QED
  BY <1>1, <1>2, IDTypeCorrect, PTL DEF IDSpec
=============================================================================
