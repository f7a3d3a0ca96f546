------------------------- MODULE ConversationProofs -------------------------
(***************************************************************************)
(* What is proved about module Conversation, for any requests, kinds and   *)
(* programs.  Its server is the one of module RpcServer, whatever the      *)
(* client and the socket do: it answers a request once at most, unless a   *)
(* service replies for itself.  Then the whole: no answer misses its       *)
(* callback but a second one, no callback waits for nothing, each step is  *)
(* one that module Exchange allows, and who is not sent or not answered.   *)
(***************************************************************************)
EXTENDS Conversation, TLAPS

(* A step of the whole is one of the server, or none for it.  What comes out
   of the socket is a request: Dispatch wants it waiting.                  *)
LEMMA ServerStep == TypeOK /\ [ConversationNext]_allVars => [Next]_vars
<1> SUFFICES ASSUME TypeOK, [ConversationNext]_allVars PROVE [Next]_vars
  OBVIOUS
<1>1. UNCHANGED serverVars => UNCHANGED vars
  BY DEF serverVars, vars
<1>2. CASE ServerOnRead
  <2>1. PICK r : Dispatch(r) /\ ~crashed
    BY <1>2 DEF ServerOnRead, ServerAlive
  <2>2. r \in Requests
    BY <2>1 DEF TypeOK, Dispatch, DispatchRefused, DispatchOrder,
      DispatchCheapOrder, DispatchLater, DispatchStub, DispatchReplyingStub, DispatchAsyncStub,
      Accept, Dispatchable
  <2> QED
    BY <2>1, <2>2 DEF Next, Step
<1>3. CASE ServerCallback
  BY <1>3 DEF ServerCallback, ServerAlive, Next, Step
<1>4. CASE ServerOnWrite
  BY <1>4, <1>1 DEF ServerOnWrite
<1>5. CASE ServerLeft
  BY <1>5 DEF ServerLeft, ServerAlive, Next
<1>6. ASSUME NEW r \in Requests, ProgramWrites(r) PROVE [Next]_vars
  BY <1>6, <1>1 DEF ProgramWrites
<1>7. ASSUME NEW all \in BOOLEAN, ClientOnWrite(all) PROVE [Next]_vars
  BY <1>7, <1>1 DEF ClientOnWrite
<1>8. CASE ClientOnRead
  BY <1>8, <1>1 DEF ClientOnRead
<1>9. CASE ClientGone
  BY <1>9, <1>1 DEF ClientGone
<1>10. CASE UNCHANGED allVars
  BY <1>10, <1>1 DEF allVars
<1> QED
  BY <1>2, <1>3, <1>4, <1>5, <1>6, <1>7, <1>8, <1>9, <1>10 DEF ConversationNext

-----------------------------------------------------------------------------
(* The types of the server.                                                *)

Answer == [of : Requests, error : {"none", "serialize"}, whole : BOOLEAN]

(* The answers to r come after those that were there: one, or two if its
   service has called reply() itself.                                      *)
Replies(r) ==
  /\ answers' \in Seq(Answer) /\ Len(answers) < Len(answers')
  /\ \A i \in 1..Len(answers) : answers'[i] = answers[i]
  /\ \A i \in Len(answers) + 1 .. Len(answers') : answers'[i].of = r
  /\ Len(answers') = Len(answers) + 1 \/ Kind[r] = "replyingStub"

(* What Reply leaves: an error code of the request, and one more answer, of it. *)
LEMMA ReplyType ==
  ASSUME TypeOK, NEW r \in Requests, NEW isWhole \in BOOLEAN, ReplyWith(r, isWhole)
  PROVE  /\ error' \in [Requests -> Refused \cup {"none", "serialize"}]
         /\ Replies(r)
         /\ answers' \in Seq(Answer)
         /\ myRpcInterface' = NoRequest
<1>1. PICK code \in {"none", "serialize"} :
        /\ error' = [error EXCEPT ![r] = code]
        /\ answers' = Append(answers, [of |-> r, error |-> code, whole |-> isWhole])
  BY DEF ReplyWith
<1> DEFINE a == [of |-> r, error |-> code, whole |-> isWhole]
<1>2. a \in Answer /\ a.of = r
  BY DEF Answer
<1>3. answers \in Seq(Answer)
  BY DEF TypeOK, Answer
<1>4. error' \in [Requests -> Refused \cup {"none", "serialize"}]
  BY <1>1 DEF TypeOK
<1> HIDE DEF a, Answer
<1>5. Replies(r)
  <2>1. answers' = Append(answers, a)
    BY <1>1 DEF a
  <2> QED
    BY <1>2, <1>3, <2>1 DEF Replies
<1> QED
  BY <1>1, <1>4, <1>5 DEF ReplyWith, Replies

(* The same of a service that replies for itself: two more.                *)
LEMMA ReplyTwiceType ==
  ASSUME TypeOK, NEW r \in Requests, DispatchReplyingStub(r)
  PROVE  /\ error' \in [Requests -> Refused \cup {"none", "serialize"}]
         /\ Replies(r)
         /\ answers' \in Seq(Answer)
<1>1. PICK code \in {"none", "serialize"} :
        /\ error' = [error EXCEPT ![r] = code]
        /\ answers' = Append(Append(answers, [of |-> r, error |-> code, whole |-> TRUE]),
                             [of |-> r, error |-> code, whole |-> TRUE])
  BY DEF DispatchReplyingStub
<1> DEFINE a == [of |-> r, error |-> code, whole |-> TRUE]
<1>2. a \in Answer /\ a.of = r
  BY DEF Answer
<1>3. answers \in Seq(Answer)
  BY DEF TypeOK, Answer
<1>4. error' \in [Requests -> Refused \cup {"none", "serialize"}]
  BY <1>1 DEF TypeOK
<1>5. Kind[r] = "replyingStub"
  BY DEF DispatchReplyingStub
<1> HIDE DEF a, Answer
<1>6. Replies(r)
  <2>1. answers' = Append(Append(answers, a), a)
    BY <1>1 DEF a
  <2>2. /\ answers' \in Seq(Answer) /\ Len(answers') = Len(answers) + 2
        /\ \A i \in 1..Len(answers) : answers'[i] = answers[i]
        /\ answers'[Len(answers) + 1] = a /\ answers'[Len(answers) + 2] = a
        /\ Len(answers) \in Nat
    BY <1>2, <1>3, <2>1
  <2>3. \A i \in Len(answers) + 1 .. Len(answers') :
          i = Len(answers) + 1 \/ i = Len(answers) + 2
    BY <2>2
  <2> QED
    BY <1>2, <1>5, <2>2, <2>3 DEF Replies
<1> QED
  BY <1>4, <1>6 DEF Replies

(* A step of the server keeps the types.                                   *)
LEMMA TypeNext == TypeOK /\ [Next]_vars => TypeOK'
<1> SUFFICES ASSUME TypeOK, [Next]_vars PROVE TypeOK'
  OBVIOUS
<1>1. CASE UNCHANGED vars
  BY <1>1 DEF TypeOK, vars, callVars, runTime
<1>2. ASSUME NEW r \in Requests, DispatchRefused(r) PROVE TypeOK'
  BY <1>2, KindAssumption DEF TypeOK, DispatchRefused, runTime
<1>3. ASSUME NEW r \in Requests, DispatchOrder(r) PROVE TypeOK'
  BY <1>3, ReplyType DEF TypeOK, DispatchOrder, Accept, Answer, Objects
<1>4. ASSUME NEW r \in Requests, DispatchCheapOrder(r) PROVE TypeOK'
  BY <1>4 DEF TypeOK, DispatchCheapOrder, Accept, Objects
<1>5. ASSUME NEW r \in Requests, DispatchLater(r) PROVE TypeOK'
  BY <1>5 DEF TypeOK, DispatchLater, Accept, Objects
<1>6. ASSUME NEW r \in Requests, DispatchStub(r) PROVE TypeOK'
  BY <1>6, ReplyType DEF TypeOK, DispatchStub, Accept, Answer
<1>7. ASSUME NEW r \in Requests, DispatchAsyncStub(r) PROVE TypeOK'
  BY <1>7, ReplyType DEF TypeOK, DispatchAsyncStub, Accept, Answer
<1>12. ASSUME NEW r \in Requests, DispatchReplyingStub(r) PROVE TypeOK'
  BY <1>12, ReplyTwiceType DEF TypeOK, DispatchReplyingStub, Accept, Answer
<1>8. ASSUME NEW r \in Requests, LaterReplies(r) PROVE TypeOK'
  <2>1. /\ error' \in [Requests -> Refused \cup {"none", "serialize"}]
        /\ answers' \in Seq(Answer)
        /\ myRpcInterface' \in Requests \cup {NoRequest}
        /\ crashed' \in BOOLEAN
    BY <1>8, ReplyType DEF TypeOK, LaterReplies, Answer
  <2> QED
    BY <1>8, <2>1 DEF TypeOK, LaterReplies, Answer
<1>9. ASSUME NEW r \in Requests, ClosureRuns(r) PROVE TypeOK'
  BY <1>9 DEF TypeOK, ClosureRuns
<1>10. CASE ClientLeaves
  BY <1>10 DEF TypeOK, ClientLeaves, callVars, runTime
<1>11. CASE Collected
  BY <1>11 DEF TypeOK, Collected, callVars, runTime
<1> QED
  BY <1>1, <1>2, <1>3, <1>4, <1>5, <1>6, <1>7, <1>8, <1>9, <1>10, <1>11, <1>12
  DEF Next, Step, Dispatch

(* The server starts with them.                                            *)
LEMMA TypeInit == Init => TypeOK
<1> SUFFICES ASSUME Init PROVE TypeOK
  OBVIOUS
<1>1. answers \in Seq([of : Requests, error : {"none", "serialize"}, whole : BOOLEAN])
  BY DEF Init
<1>2. /\ error \in [Requests -> Refused \cup {"none", "serialize"}]
      /\ whole \in [Requests -> BOOLEAN]
      /\ objects \in [Requests -> SUBSET Objects]
      /\ interface \in [Requests -> {"none", "alive", "destroyed"}]
  BY DEF Init
<1> QED
  BY <1>1, <1>2 DEF Init, TypeOK

(* Every variable of the server has its type in a conversation, whatever the
   client writes and when it leaves.                                       *)
THEOREM TypeCorrect == ConversationSpec => []TypeOK
<1>1. ConversationInit => TypeOK
  BY TypeInit DEF ConversationInit
<1>2. TypeOK /\ [ConversationNext]_allVars => TypeOK'
  BY ServerStep, TypeNext
<1> QED
  BY <1>1, <1>2, PTL DEF ConversationSpec

-----------------------------------------------------------------------------
(* One answer at most.                                                     *)

(* Who has yet to answer has not answered.                                 *)
OwesAnswer == \A r \in kept : Kind[r] = "later" => ~Answered(r)

AnswerInv == TypeOK /\ AnsweredOnce /\ OwesAnswer

(* Only what has not been answered may be answered, and is no longer
   waiting or kept then.                                                   *)
LEMMA AppendAnswer ==
  ASSUME TypeOK, AnsweredOnce, NEW r \in Requests, Replies(r), ~Answered(r)
  PROVE  /\ \A i, j \in 1..Len(answers') :
              answers'[i].of = answers'[j].of =>
                i = j \/ Kind[answers'[i].of] = "replyingStub"
         /\ \A q \in Requests : Answered(q)' <=> Answered(q) \/ q = r
<1>1. answers \in Seq(Answer) /\ Len(answers) \in Nat /\ Len(answers') \in Nat
  BY DEF TypeOK, Answer, Replies
<1>2. /\ Len(answers) < Len(answers')
      /\ \A i \in 1..Len(answers) : answers'[i] = answers[i]
      /\ \A i \in Len(answers) + 1 .. Len(answers') : answers'[i].of = r
      /\ Len(answers') = Len(answers) + 1 \/ Kind[r] = "replyingStub"
  BY DEF Replies
<1>3. \A i \in 1..Len(answers) : answers[i].of # r
  BY DEF Answered
<1> HIDE DEF Answer
<1>4. ASSUME NEW i \in 1..Len(answers'), NEW j \in 1..Len(answers'),
             answers'[i].of = answers'[j].of
      PROVE  i = j \/ Kind[answers'[i].of] = "replyingStub"
  <2>1. CASE i \in 1..Len(answers) /\ j \in 1..Len(answers)
    BY <1>2, <1>4, <2>1 DEF AnsweredOnce
  <2>2. CASE i \in Len(answers) + 1 .. Len(answers')
    <3>1. j \in Len(answers) + 1 .. Len(answers')
      BY <1>1, <1>2, <1>3, <1>4, <2>2
    <3>2. Len(answers') = Len(answers) + 1 => i = j
      BY <1>1, <2>2, <3>1
    <3> QED
      BY <1>2, <2>2, <3>2
  <2>3. CASE j \in Len(answers) + 1 .. Len(answers')
    <3>1. i \in Len(answers) + 1 .. Len(answers')
      BY <1>1, <1>2, <1>3, <1>4, <2>3
    <3> QED
      BY <2>2, <3>1
  <2> QED
    BY <1>1, <2>1, <2>2, <2>3
<1>5. ASSUME NEW q \in Requests PROVE Answered(q)' <=> Answered(q) \/ q = r
  <2>1. Len(answers') \in Len(answers) + 1 .. Len(answers') /\ Len(answers') \in 1..Len(answers')
    BY <1>1, <1>2
  <2>2. Answered(r)'
    BY <1>2, <2>1 DEF Answered
  <2>3. Answered(q) => Answered(q)'
    <3>1. \A i \in 1..Len(answers) : i \in 1..Len(answers')
      BY <1>1, <1>2
    <3> QED
      BY <1>2, <3>1 DEF Answered
  <2>4. ASSUME NEW i \in 1..Len(answers'), answers'[i].of = q PROVE Answered(q) \/ q = r
    <3>1. i \in 1..Len(answers) \/ i \in Len(answers) + 1 .. Len(answers')
      BY <1>1
    <3> QED
      BY <1>2, <2>4, <3>1 DEF Answered
  <2> QED
    BY <2>2, <2>3, <2>4 DEF Answered
<1> QED
  BY <1>4, <1>5

(* A step that answers nothing.                                            *)
LEMMA NoAnswer ==
  ASSUME AnswerInv, answers' = answers, waiting' \subseteq waiting,
         \A r \in kept' \ kept : r \in waiting
  PROVE  AnsweredOnce' /\ OwesAnswer'
<1>1. \A r : Answered(r)' <=> Answered(r)
  BY DEF Answered
<1>2. \A r \in waiting : r \in Requests
  BY DEF AnswerInv, TypeOK
<1> QED
  BY <1>1, <1>2 DEF AnswerInv, AnsweredOnce, OwesAnswer

(* A step that answers r.                                                  *)
LEMMA OneAnswer ==
  ASSUME AnswerInv, NEW r \in Requests, Kind[r] \notin Refused, ~Answered(r),
         Replies(r),
         waiting' \subseteq waiting \ {r},
         \A q \in kept' : q \in kept \ {r} \/ (q = r /\ Kind[q] # "later")
  PROVE  AnsweredOnce' /\ OwesAnswer'
<1>1. /\ \A i, j \in 1..Len(answers') :
           answers'[i].of = answers'[j].of => i = j \/ Kind[answers'[i].of] = "replyingStub"
      /\ \A q \in Requests : Answered(q)' <=> Answered(q) \/ q = r
  BY AppendAnswer DEF AnswerInv
<1>2. \A q \in kept : q \in Requests
  BY DEF AnswerInv, TypeOK
<1>3. OwesAnswer'
  BY <1>1, <1>2 DEF AnswerInv, OwesAnswer
<1>4. AnsweredOnce'
  BY <1>1 DEF AnswerInv, AnsweredOnce
<1> QED
  BY <1>3, <1>4

(* A step of the server answers nothing, or one request that it owes one.  *)
LEMMA AnswerNext == AnswerInv /\ [Next]_vars => AnswerInv'
<1> SUFFICES ASSUME AnswerInv, [Next]_vars PROVE AnsweredOnce' /\ OwesAnswer'
  BY TypeNext DEF AnswerInv
<1> USE DEF Refused
<1>1. CASE UNCHANGED vars
  BY <1>1, NoAnswer DEF vars, callVars
<1>2. ASSUME NEW r \in waiting PROVE r \in Requests /\ ~Answered(r) /\ r \notin kept
  BY DEF AnswerInv, TypeOK, AnsweredOnce
<1>3. ASSUME NEW r \in Requests, DispatchRefused(r) PROVE AnsweredOnce' /\ OwesAnswer'
  BY <1>3, NoAnswer DEF DispatchRefused
<1>4. ASSUME NEW r \in Requests, DispatchOrder(r) PROVE AnsweredOnce' /\ OwesAnswer'
  <2>1. Replies(r)
    BY <1>4, ReplyType DEF DispatchOrder, AnswerInv
  <2> QED
    BY <1>4, <2>1, <1>2, OneAnswer DEF DispatchOrder, Accept, Dispatchable
<1>5. ASSUME NEW r \in Requests, DispatchCheapOrder(r) PROVE AnsweredOnce' /\ OwesAnswer'
  BY <1>5, NoAnswer DEF DispatchCheapOrder, Accept
<1>6. ASSUME NEW r \in Requests, DispatchLater(r) PROVE AnsweredOnce' /\ OwesAnswer'
  BY <1>6, NoAnswer DEF DispatchLater, Accept, Dispatchable
<1>7. ASSUME NEW r \in Requests, DispatchStub(r) PROVE AnsweredOnce' /\ OwesAnswer'
  <2>1. Replies(r)
    BY <1>7, ReplyType DEF DispatchStub, AnswerInv
  <2> QED
    BY <1>7, <2>1, <1>2, OneAnswer DEF DispatchStub, Accept, Dispatchable
<1>8. ASSUME NEW r \in Requests, DispatchAsyncStub(r) PROVE AnsweredOnce' /\ OwesAnswer'
  <2>1. Replies(r)
    BY <1>8, ReplyType DEF DispatchAsyncStub, AnswerInv
  <2> QED
    BY <1>8, <2>1, <1>2, OneAnswer DEF DispatchAsyncStub, Accept, Dispatchable
<1>12. ASSUME NEW r \in Requests, DispatchReplyingStub(r)
       PROVE  AnsweredOnce' /\ OwesAnswer'
  <2>1. Replies(r)
    BY <1>12, ReplyTwiceType DEF AnswerInv
  <2> QED
    BY <1>12, <2>1, <1>2, OneAnswer DEF DispatchReplyingStub, Accept, Dispatchable
<1>9. ASSUME NEW r \in Requests, LaterReplies(r) PROVE AnsweredOnce' /\ OwesAnswer'
  <2>1. CASE conn = "gone"
    BY <1>9, <2>1, NoAnswer DEF LaterReplies
  <2>2. CASE conn # "gone"
    <3>1. Replies(r)
      BY <1>9, <2>2, ReplyType DEF LaterReplies, AnswerInv
    <3>2. ~Answered(r) /\ r \notin waiting
      BY <1>9 DEF LaterReplies, AnswerInv, OwesAnswer, TypeOK
    <3> QED
      BY <1>9, <3>1, <3>2, OneAnswer DEF LaterReplies
  <2> QED
    BY <2>1, <2>2
<1>10. ASSUME NEW r \in Requests, ClosureRuns(r) PROVE AnsweredOnce' /\ OwesAnswer'
  BY <1>10, NoAnswer DEF ClosureRuns
<1>11. CASE ClientLeaves \/ Collected
  BY <1>11, NoAnswer DEF ClientLeaves, Collected, callVars
<1> QED
  BY <1>1, <1>3, <1>4, <1>5, <1>6, <1>7, <1>8, <1>9, <1>10, <1>11, <1>12
  DEF Next, Step, Dispatch

(* However many requests come and whichever of done, a later callback and the
   destructor of an interface answers them, each is answered once at most,
   and only after it was accepted; two answers has only a request whose run()
   calls reply() itself (rpc_dispatcher.cc 109-133, rpc_interface.cc 27-45). *)
THEOREM RequestsAnsweredOnce == ConversationSpec => []AnsweredOnce
<1>1. ConversationInit => AnswerInv
  BY TypeInit DEF ConversationInit, Init, AnswerInv, AnsweredOnce, OwesAnswer, Answered
<1>2. AnswerInv /\ [ConversationNext]_allVars => AnswerInv'
  BY ServerStep, AnswerNext DEF AnswerInv
<1>3. AnswerInv => AnsweredOnce
  BY DEF AnswerInv
<1> QED
  BY <1>1, <1>2, <1>3, PTL DEF ConversationSpec

-----------------------------------------------------------------------------
(* Facts about sequences of requests.                                      *)

(* The members of a sequence, of the empty one, of one of one.             *)
LEMMA MembersType == \A s \in Seq(Requests) : ToSet(s) \subseteq Requests
  BY DEF ToSet

(* Nothing is a member of the empty sequence, nor twice.                   *)
LEMMA EmptyMembers == ToSet(<<>>) = {} /\ IsInjective(<<>>)
  BY DEF ToSet, IsInjective

(* A sequence of one has one member, once.                                 *)
LEMMA SingleMember ==
  ASSUME NEW r \in Requests
  PROVE  <<r>> \in Seq(Requests) /\ ToSet(<<r>>) = {r} /\ IsInjective(<<r>>)
  BY DEF ToSet, IsInjective

(* The members of a concatenation are those of its parts.                  *)
LEMMA ConcatMembers ==
  ASSUME NEW s \in Seq(Requests), NEW t \in Seq(Requests)
  PROVE  s \o t \in Seq(Requests) /\ ToSet(s \o t) = ToSet(s) \cup ToSet(t)
<1>1. /\ Len(s) \in Nat /\ Len(t) \in Nat /\ DOMAIN s = 1..Len(s) /\ DOMAIN t = 1..Len(t)
      /\ s \o t \in Seq(Requests) /\ DOMAIN (s \o t) = 1..(Len(s) + Len(t))
      /\ \A i \in 1..Len(s) : (s \o t)[i] = s[i]
      /\ \A i \in 1..Len(t) : (s \o t)[Len(s) + i] = t[i]
      /\ \A i \in Len(s) + 1 .. Len(s) + Len(t) : (s \o t)[i] = t[i - Len(s)]
  OBVIOUS
<1>2. ASSUME NEW i \in DOMAIN (s \o t) PROVE (s \o t)[i] \in ToSet(s) \cup ToSet(t)
  <2>1. CASE i \in 1..Len(s)
    BY <1>1, <2>1 DEF ToSet
  <2>2. CASE i \in Len(s) + 1 .. Len(s) + Len(t)
    <3>1. i - Len(s) \in DOMAIN t
      BY <1>1, <2>2
    <3> QED
      BY <1>1, <2>2, <3>1 DEF ToSet
  <2> QED
    BY <1>1, <1>2, <2>1, <2>2
<1>3. ASSUME NEW i \in DOMAIN s PROVE s[i] \in ToSet(s \o t)
  BY <1>1 DEF ToSet
<1>4. ASSUME NEW i \in DOMAIN t PROVE t[i] \in ToSet(s \o t)
  <2>1. Len(s) + i \in DOMAIN (s \o t) /\ (s \o t)[Len(s) + i] = t[i]
    BY <1>1
  <2> QED
    BY <2>1 DEF ToSet
<1> QED
  BY <1>1, <1>2, <1>3, <1>4 DEF ToSet

(* Two sequences without repetition and without a common member make one.  *)
LEMMA ConcatInjective ==
  ASSUME NEW s \in Seq(Requests), NEW t \in Seq(Requests),
         IsInjective(s), IsInjective(t), ToSet(s) \cap ToSet(t) = {}
  PROVE  IsInjective(s \o t)
<1>1. /\ Len(s) \in Nat /\ Len(t) \in Nat /\ DOMAIN s = 1..Len(s) /\ DOMAIN t = 1..Len(t)
      /\ DOMAIN (s \o t) = 1..(Len(s) + Len(t))
      /\ \A i \in 1..Len(s) : (s \o t)[i] = s[i]
      /\ \A i \in Len(s) + 1 .. Len(s) + Len(t) : (s \o t)[i] = t[i - Len(s)]
  OBVIOUS
<1>2. \A i \in DOMAIN s, j \in DOMAIN t : s[i] # t[j]
  BY DEF ToSet
<1> SUFFICES ASSUME NEW i \in DOMAIN (s \o t), NEW j \in DOMAIN (s \o t),
                    (s \o t)[i] = (s \o t)[j]
             PROVE  i = j
  BY DEF IsInjective
<1>3. CASE i \in 1..Len(s) /\ j \in 1..Len(s)
  BY <1>1, <1>3 DEF IsInjective
<1>4. CASE i \in 1..Len(s) /\ j \in Len(s) + 1 .. Len(s) + Len(t)
  <2>1. j - Len(s) \in DOMAIN t
    BY <1>1, <1>4
  <2> QED
    BY <1>1, <1>2, <1>4, <2>1
<1>5. CASE i \in Len(s) + 1 .. Len(s) + Len(t) /\ j \in 1..Len(s)
  <2>1. i - Len(s) \in DOMAIN t
    BY <1>1, <1>5
  <2> QED
    BY <1>1, <1>2, <1>5, <2>1
<1>6. CASE i \in Len(s) + 1 .. Len(s) + Len(t) /\ j \in Len(s) + 1 .. Len(s) + Len(t)
  <2>1. i - Len(s) \in DOMAIN t /\ j - Len(s) \in DOMAIN t
    BY <1>1, <1>6
  <2>2. i - Len(s) = j - Len(s)
    BY <1>1, <1>6, <2>1 DEF IsInjective
  <2> QED
    BY <1>1, <2>2
<1> QED
  BY <1>1, <1>3, <1>4, <1>5, <1>6

(* What is left when the first is taken.                                   *)
LEMMA TailMembers ==
  ASSUME NEW s \in Seq(Requests), s # <<>>, IsInjective(s)
  PROVE  /\ Tail(s) \in Seq(Requests) /\ IsInjective(Tail(s))
         /\ Head(s) \in ToSet(s) /\ ToSet(Tail(s)) = ToSet(s) \ {Head(s)}
<1>1. /\ Len(s) \in Nat \ {0} /\ DOMAIN s = 1..Len(s)
      /\ Tail(s) \in Seq(Requests) /\ DOMAIN Tail(s) = 1..(Len(s) - 1)
      /\ \A i \in 1..(Len(s) - 1) : Tail(s)[i] = s[i + 1]
      /\ Head(s) = s[1]
  OBVIOUS
<1>2. IsInjective(Tail(s))
  BY <1>1 DEF IsInjective
<1>3. Head(s) \in ToSet(s)
  BY <1>1 DEF ToSet
<1>4. ASSUME NEW i \in DOMAIN Tail(s) PROVE Tail(s)[i] \in ToSet(s) \ {Head(s)}
  <2>1. i + 1 \in DOMAIN s /\ 1 \in DOMAIN s /\ i + 1 # 1
    BY <1>1
  <2> QED
    BY <1>1, <2>1 DEF ToSet, IsInjective
<1>5. ASSUME NEW i \in DOMAIN s, s[i] # Head(s) PROVE s[i] \in ToSet(Tail(s))
  <2>1. i # 1
    BY <1>1, <1>5
  <2>2. i - 1 \in DOMAIN Tail(s) /\ Tail(s)[i - 1] = s[i]
    BY <1>1, <2>1
  <2> QED
    BY <2>2 DEF ToSet
<1> QED
  BY <1>1, <1>2, <1>3, <1>4, <1>5 DEF ToSet

-----------------------------------------------------------------------------
(* No answer is dropped.                                                   *)

(* Written, and not yet dispatched.                                        *)
Underway == ToSet(sendCb) \cup ToSet(unsent) \cup ToSet(toServer)

(* The server has it or has answered, and the client has not read that.    *)
Owed(r) ==
  \/ r \in kept /\ Kind[r] = "later"
  \/ \E i \in read + 1 .. Len(answers) : answers[i].of = r

(* An answer to r will find the callback of r, and no other one.           *)
Listened(r) == Id[r] \in DOMAIN recvCb /\ recvCb[Id[r]] = r

(* Its callback has been run, and a second answer is to come.              *)
Again(r) == Kind[r] = "replyingStub" /\ got[r] # <<>>

(* A request is in one place, and in none after it was dispatched.         *)
OnePlace ==
  /\ IsInjective(sendCb) /\ IsInjective(unsent) /\ IsInjective(toServer)
  /\ ToSet(sendCb) \cap ToSet(unsent) = {}
  /\ ToSet(toServer) \cap (ToSet(sendCb) \cup ToSet(unsent)) = {}
  /\ Underway \subseteq (waiting \cap written) \ FromSend
  /\ Requests \ waiting \subseteq written \ FromSend

(* A callback that has been run was run with an answer that was read, one
   that waits has not been run, and only one that was run has written more. *)
OwnAnswers ==
  /\ \A r \in Requests :
       got[r] = <<>> \/ (got[r] = <<r>> /\ \E i \in 1..read : answers[i].of = r)
  /\ \A i \in DOMAIN recvCb : got[recvCb[i]] = <<>>
  /\ \A q, r \in Requests : r \in ToSet(AfterAnswer[q]) \cap written => got[q] # <<>>

(* While the client stays, what may be answered is listened for, but for a
   second answer, and what is listened for may be answered.                                          *)
Expected ==
  peer = "open" =>
    /\ \A r \in ToSet(unsent) \cup ToSet(toServer) \cup (ToSet(sendCb) \cap AtOnce) :
         Listened(r)
    /\ \A r \in Requests : Owed(r) => Listened(r) \/ Again(r)
    /\ \A i \in DOMAIN recvCb :
         \/ recvCb[i] \in Underway \cup FromSend
         \/ Owed(recvCb[i]) \/ ~ToBeAnswered(recvCb[i])

(* The server loses neither its connection nor its process before the client
   has left.                                                               *)
ClientLeftFirst == killed \/ crashed \/ conn # "Connected" => peer # "open"

ConversationInv ==
  /\ AnswerInv /\ ConversationTypeOK
  /\ OnePlace /\ OwnAnswers /\ Expected /\ ClientLeftFirst /\ NoAnswerDropped

(* What the client registers is there, and what was there before still is. *)
LEMMA Registers ==
  ASSUME NEW cbs, NEW rs,
         \A p, q \in rs : Id[p] = Id[q] => p = q
  PROVE  /\ DOMAIN Registered(cbs, rs) = DOMAIN cbs \cup {Id[r] : r \in rs}
         /\ \A i \in DOMAIN cbs : Registered(cbs, rs)[i] = cbs[i]
         /\ \A r \in rs : Id[r] \notin DOMAIN cbs => Registered(cbs, rs)[Id[r]] = r
<1> DEFINE R == Registered(cbs, rs)
<1>1. ASSUME NEW r \in rs, Id[r] \notin DOMAIN cbs PROVE R[Id[r]] = r
  <2>1. R[Id[r]] = CHOOSE q \in rs : Id[q] = Id[r]
    BY <1>1 DEF Registered
  <2>2. R[Id[r]] \in rs /\ Id[R[Id[r]]] = Id[r]
    BY <2>1
  <2> QED
    BY <2>2
<1> QED
  BY <1>1 DEF Registered

(* The callback of a request that waits for its dispatch has not been run. *)
LEMMA WaitingHasNot ==
  ASSUME ConversationInv, NEW r \in waiting
  PROVE  r \in Requests /\ ~Answered(r) /\ got[r] = <<>>
<1>1. r \in Requests /\ ~Answered(r)
  BY DEF ConversationInv, AnswerInv, AnsweredOnce, TypeOK
<1>2. ASSUME NEW i \in 1..read, answers[i].of = r PROVE FALSE
  <2>1. i \in 1..Len(answers)
    BY DEF ConversationInv, ConversationTypeOK, TypeOK
  <2> QED
    BY <1>1, <1>2, <2>1 DEF Answered
<1> QED
  BY <1>1, <1>2 DEF ConversationInv, OwnAnswers

(* Two requests with one identifier are not both awaited: the later of them
   is written by the callback of the other, and listened for after that.   *)
LEMMA NoClash ==
  ASSUME ConversationInv, NEW q \in Requests, NEW r \in waiting, Id[q] = Id[r],
         got[q] = <<>>,
         q \in FromAnswer => q \in written \cup AtOnce,
         r \in FromAnswer => r \in written \cup AtOnce
  PROVE  q = r
<1>1. r \in Requests /\ got[r] = <<>>
  BY WaitingHasNot
<1>2. CASE r \in ToSet(AfterAnswer[q]) \ AtOnce
  <2>1. r \in FromAnswer
    BY <1>2 DEF FromAnswer
  <2> QED
    BY <1>1, <1>2, <2>1 DEF ConversationInv, OwnAnswers
<1>3. CASE q \in ToSet(AfterAnswer[r]) \ AtOnce
  <2>1. q \in FromAnswer
    BY <1>1, <1>3 DEF FromAnswer
  <2> QED
    BY <1>1, <1>3, <2>1 DEF ConversationInv, OwnAnswers
<1> QED
  BY <1>1, <1>2, <1>3, IdAssumption

(* What is registered of requests that wait, one of which may have been
   registered before: their own callbacks, beside those that were there.   *)
LEMMA RegistersWaiting ==
  ASSUME ConversationInv, NEW rs \in SUBSET waiting,
         \A r \in rs : r \in FromAnswer => r \in written \cup AtOnce
  PROVE  /\ DOMAIN Registered(recvCb, rs) = DOMAIN recvCb \cup {Id[r] : r \in rs}
         /\ \A i \in DOMAIN recvCb : Registered(recvCb, rs)[i] = recvCb[i]
         /\ \A r \in rs : Registered(recvCb, rs)[Id[r]] = r
<1>1. \A r \in rs : r \in Requests /\ got[r] = <<>>
  BY WaitingHasNot
<1>2. \A p, q \in rs : Id[p] = Id[q] => p = q
  BY <1>1, NoClash
<1>3. ASSUME NEW r \in rs, Id[r] \in DOMAIN recvCb PROVE recvCb[Id[r]] = r
  <2> DEFINE q == recvCb[Id[r]]
  <2>1. /\ q \in written /\ q \in Requests /\ Id[q] = Id[r] /\ got[q] = <<>>
    BY <1>3 DEF ConversationInv, ConversationTypeOK, OwnAnswers
  <2> HIDE DEF q
  <2>2. q = r
    BY <1>3, <2>1, NoClash
  <2> QED
    BY <2>2 DEF q
<1> QED
  BY <1>2, <1>3, Registers

(* A step of the client alone leaves what the server owes as it is.        *)
LEMMA OwedStays ==
  ASSUME kept' = kept, answers' = answers, read' = read, NEW r
  PROVE  Owed(r)' <=> Owed(r)
  BY DEF Owed

(* The program writes: a request that waits is put where none is.          *)
LEMMA ProgramKeeps ==
  ASSUME ConversationInv, NEW r \in Requests, ProgramWrites(r), AnswerInv'
  PROVE  ConversationInv'
<1> DEFINE rs == {r} \cap AtOnce
<1> USE DEF ConversationInv
<1>1. /\ ToSet(<<r>>) = {r} /\ IsInjective(<<r>>) /\ <<r>> \in Seq(Requests)
  BY SingleMember
<1>2. /\ written' = written \cup {r} /\ sendCb' = sendCb \o <<r>>
      /\ recvCb' = Registered(recvCb, rs) /\ onOut' = TRUE
      /\ onIn' = (onIn \/ r \in AtOnce)
      /\ UNCHANGED <<unsent, read, got, dropped, socketVars, serverVars>>
      /\ r \notin written \cup FromSend \cup FromAnswer
  BY <1>1 DEF ProgramWrites, WriteMessages, ReadAtOnce
<1>3. r \in waiting /\ r \notin Underway
  BY <1>2 DEF OnePlace
<1>4. /\ DOMAIN recvCb' = DOMAIN recvCb \cup {Id[q] : q \in rs}
      /\ \A i \in DOMAIN recvCb : recvCb'[i] = recvCb[i]
      /\ \A q \in rs : recvCb'[Id[q]] = q
  BY <1>2, <1>3, RegistersWaiting
<1>5. /\ sendCb' \in Seq(Requests) /\ ToSet(sendCb') = ToSet(sendCb) \cup {r}
      /\ IsInjective(sendCb')
  <2>1. sendCb \in Seq(Requests) /\ IsInjective(sendCb) /\ ToSet(sendCb) \cap ToSet(<<r>>) = {}
    BY <1>1, <1>3 DEF ConversationTypeOK, OnePlace, Underway
  <2> HIDE DEF ConversationInv
  <2> QED
    BY <1>1, <1>2, <2>1, ConcatMembers, ConcatInjective
<1>6. ConversationTypeOK'
  <2>1. ASSUME NEW i \in DOMAIN recvCb' PROVE recvCb'[i] \in written' /\ Id[recvCb'[i]] = i
    <3>1. CASE i \in DOMAIN recvCb
      BY <1>2, <1>4, <3>1 DEF ConversationTypeOK
    <3>2. CASE i \in {Id[q] : q \in rs}
      BY <1>2, <1>4, <3>2
    <3> QED
      BY <1>4, <2>1, <3>1, <3>2
  <2> QED
    BY <1>2, <1>5, <2>1 DEF ConversationTypeOK, socketVars, serverVars, AnswerInv
<1>7. OnePlace'
  BY <1>2, <1>3, <1>5 DEF OnePlace, Underway, socketVars, serverVars, callVars
<1>8. got[r] = <<>>
  BY <1>3, WaitingHasNot
<1>9. OwnAnswers'
  <2>1. \A i \in DOMAIN recvCb' : got'[recvCb'[i]] = <<>>
    BY <1>2, <1>4, <1>8 DEF OwnAnswers
  <2>2. \A q, p \in Requests : p \in ToSet(AfterAnswer[q]) => p \in FromAnswer
    BY DEF FromAnswer
  <2> QED
    BY <1>2, <2>1, <2>2 DEF OwnAnswers, serverVars
<1>10. Expected'
  <2> SUFFICES ASSUME peer = "open" PROVE Expected'
    BY <1>2 DEF Expected, socketVars
  <2>1. \A q \in Requests : Owed(q)' <=> Owed(q)
    BY <1>2, OwedStays DEF serverVars, callVars
  <2>2. \A q : Listened(q) => Listened(q)'
    BY <1>4 DEF Listened
  <2>3. r \in AtOnce => Listened(r)'
    BY <1>4 DEF Listened
  <2>4. Underway' = Underway \cup {r}
    BY <1>2, <1>5 DEF Underway, socketVars
  <2>5. \A i \in DOMAIN recvCb : recvCb[i] \in Requests
    BY DEF ConversationTypeOK
  <2>6. \A q : Again(q)' <=> Again(q)
    BY <1>2 DEF Again
  <2>7. \A q \in Requests : Owed(q)' => Listened(q)' \/ Again(q)'
    BY <1>2, <2>1, <2>2, <2>6 DEF Expected
  <2> HIDE DEF ConversationInv
  <2>8. \A q \in ToSet(unsent') \cup ToSet(toServer') \cup (ToSet(sendCb') \cap AtOnce) :
          Listened(q)'
    BY <1>2, <1>5, <2>2, <2>3 DEF ConversationInv, Expected, socketVars
  <2>9. \A i \in DOMAIN recvCb' :
          \/ recvCb'[i] \in Underway' \cup FromSend
          \/ (Owed(recvCb[i]) \/ ~ToBeAnswered(recvCb[i]))'
    BY <1>2, <1>4, <2>1, <2>4, <2>5 DEF ConversationInv, Expected, ToBeAnswered
  <2> QED
    BY <1>2, <2>7, <2>8, <2>9 DEF Expected, socketVars
<1> QED
  BY <1>2, <1>6, <1>7, <1>9, <1>10
     DEF ClientLeftFirst, NoAnswerDropped, socketVars, serverVars

(* OnWrite: what was to be sent goes on its way, and all that has not called
   ReadMessage yet is registered, which nobody waits for under its name.   *)
LEMMA OnWriteKeeps ==
  ASSUME ConversationInv, NEW all \in BOOLEAN, ClientOnWrite(all), AnswerInv'
  PROVE  ConversationInv'
<1> USE DEF ConversationInv
<1> DEFINE encoded == unsent \o sendCb
           pushed == UNION {ToSet(AfterSend[r]) : r \in ToSet(sendCb)}
           reading == (ToSet(sendCb) \cup pushed) \ AtOnce
<1>1. /\ peer = "open"
      /\ unsent' = IF all THEN <<>> ELSE encoded
      /\ toServer' = IF all THEN toServer \o encoded ELSE toServer
      /\ onOut' = (~all \/ pushed # {})
      /\ written' = written \cup pushed
      /\ sendCb' = <<>>
      /\ recvCb' = Registered(recvCb, reading)
      /\ onIn' = (onIn \/ reading # {})
      /\ UNCHANGED <<read, got, dropped, sent, peer, killed, serverVars>>
  BY DEF ClientOnWrite
<1>2. /\ ToSet(sendCb) \subseteq Requests /\ sendCb \in Seq(Requests)
      /\ unsent \in Seq(Requests) /\ toServer \in Seq(Requests)
  BY MembersType DEF ConversationTypeOK
<1>3. pushed \subseteq FromSend /\ FromSend \subseteq Requests \cap waiting
      /\ FromSend \cap FromAnswer = {}
  BY <1>2, ClientAssumption, SendersAssumption, MembersType DEF FromSend, OnePlace
<1>4. reading \subseteq waiting /\ \A r \in reading : r \in FromAnswer => r \in written
  BY <1>3 DEF OnePlace, Underway
<1> HIDE DEF encoded, pushed, reading
<1>5. /\ DOMAIN recvCb' = DOMAIN recvCb \cup {Id[q] : q \in reading}
      /\ \A i \in DOMAIN recvCb : recvCb'[i] = recvCb[i]
      /\ \A q \in reading : recvCb'[Id[q]] = q
  BY <1>1, <1>4, RegistersWaiting
<1>6. /\ encoded \in Seq(Requests) /\ IsInjective(encoded)
      /\ ToSet(encoded) = ToSet(unsent) \cup ToSet(sendCb)
  <2> HIDE DEF ConversationInv
  <2>1. IsInjective(unsent) /\ IsInjective(sendCb) /\ ToSet(unsent) \cap ToSet(sendCb) = {}
    BY DEF OnePlace, ConversationInv
  <2> QED
    BY <1>2, <2>1, ConcatMembers, ConcatInjective DEF encoded
<1>7. /\ toServer \o encoded \in Seq(Requests) /\ IsInjective(toServer \o encoded)
      /\ ToSet(toServer \o encoded) = Underway
  <2> HIDE DEF ConversationInv
  <2>1. /\ IsInjective(toServer)
        /\ ToSet(toServer) \cap (ToSet(sendCb) \cup ToSet(unsent)) = {}
    BY DEF OnePlace, ConversationInv
  <2>2. /\ toServer \o encoded \in Seq(Requests)
        /\ ToSet(toServer \o encoded) = ToSet(toServer) \cup ToSet(encoded)
    BY <1>2, <1>6, ConcatMembers
  <2>3. IsInjective(toServer \o encoded)
    BY <1>2, <1>6, <2>1, ConcatInjective
  <2> QED
    BY <1>6, <2>2, <2>3 DEF Underway
<1>8. /\ unsent' \in Seq(Requests) /\ toServer' \in Seq(Requests) /\ sendCb' \in Seq(Requests)
      /\ ToSet(sendCb') = {} /\ ToSet(unsent') \cup ToSet(toServer') = Underway
      /\ ToSet(unsent') \cap ToSet(toServer') = {}
      /\ IsInjective(sendCb') /\ IsInjective(unsent') /\ IsInjective(toServer')
  <2>1. CASE all
    BY <1>1, <1>7, <2>1, EmptyMembers
  <2>2. CASE ~all
    BY <1>1, <1>2, <1>6, <2>2, EmptyMembers DEF Underway, OnePlace
  <2> QED
    BY <2>1, <2>2
<1>9. Underway' = Underway
  BY <1>8 DEF Underway
<1>10. \A r \in reading : r \in written' /\ r \in Requests /\ got[r] = <<>>
                          /\ r \in Underway \cup FromSend
  BY <1>1, <1>3, <1>4, WaitingHasNot DEF reading, OnePlace, Underway
<1>11. ASSUME NEW i \in DOMAIN recvCb'
       PROVE  \/ i \in DOMAIN recvCb /\ recvCb'[i] = recvCb[i]
              \/ recvCb'[i] \in reading /\ Id[recvCb'[i]] = i
  BY <1>5
<1>12. ConversationTypeOK'
  <2>1. \A i \in DOMAIN recvCb' : recvCb'[i] \in written' /\ Id[recvCb'[i]] = i
    BY <1>1, <1>10, <1>11 DEF ConversationTypeOK
  <2>2. onOut' \in BOOLEAN /\ onIn' \in BOOLEAN
    BY <1>1
  <2> QED
    BY <1>1, <1>3, <1>8, <2>1, <2>2 DEF ConversationTypeOK, serverVars, AnswerInv
<1>13. OnePlace'
  BY <1>1, <1>3, <1>8, <1>9 DEF OnePlace, Underway, serverVars, callVars
<1>14. OwnAnswers'
  <2>1. \A i \in DOMAIN recvCb' : got'[recvCb'[i]] = <<>>
    BY <1>1, <1>10, <1>11 DEF OwnAnswers
  <2>2. \A q, p \in Requests : p \in ToSet(AfterAnswer[q]) => p \in FromAnswer
    BY DEF FromAnswer
  <2>3. \A q, p \in Requests : p \in ToSet(AfterAnswer[q]) \cap written' => got'[q] # <<>>
    BY <1>1, <1>3, <2>2 DEF OwnAnswers
  <2> QED
    BY <1>1, <2>1, <2>3 DEF OwnAnswers, serverVars
<1>15. Expected'
  <2>1. \A q \in Requests : Owed(q)' <=> Owed(q)
    BY <1>1, OwedStays DEF serverVars, callVars
  <2>2. \A q : Listened(q) => Listened(q)'
    BY <1>5 DEF Listened
  <2>3. \A r \in reading : Listened(r)'
    BY <1>5 DEF Listened
  <2>4. \A r \in Underway : Listened(r)'
    BY <1>1, <2>2, <2>3 DEF Expected, Underway, reading
  <2>5. ASSUME NEW i \in DOMAIN recvCb
        PROVE  \/ recvCb[i] \in Underway \cup FromSend
               \/ Owed(recvCb[i]) \/ ~ToBeAnswered(recvCb[i])
    BY <1>1, <2>5 DEF Expected
  <2>6. \A i \in DOMAIN recvCb : recvCb[i] \in Requests
    BY DEF ConversationTypeOK
  <2>7. \A r \in Requests : ToBeAnswered(r)' <=> ToBeAnswered(r)
    BY DEF ToBeAnswered
  <2>8. \A i \in DOMAIN recvCb' :
          \/ recvCb'[i] \in Underway' \cup FromSend
          \/ \E q \in Requests : q = recvCb'[i] /\ (Owed(q)' \/ ~ToBeAnswered(q)')
    BY <1>9, <1>10, <1>11, <2>1, <2>5, <2>6, <2>7
  <2>9. \A i \in DOMAIN recvCb' :
          \/ recvCb'[i] \in Underway' \cup FromSend
          \/ (Owed(recvCb[i]) \/ ~ToBeAnswered(recvCb[i]))'
    BY <2>8
  <2> QED
    BY <1>1, <1>8, <1>9, <2>1, <2>2, <2>4, <2>9 DEF Expected, Again
<1> QED
  BY <1>1, <1>12, <1>13, <1>14, <1>15
     DEF ClientLeftFirst, NoAnswerDropped, serverVars

(* The callback of one answer writes requests that wait and that nobody has
   written, each once.                                                     *)
LEMMA NextAreNew ==
  ASSUME ConversationInv, NEW r \in Requests, got[r] = <<>>
  PROVE  /\ AfterAnswer[r] \in Seq(Requests) /\ IsInjective(AfterAnswer[r])
         /\ ToSet(AfterAnswer[r]) \subseteq (waiting \cap FromAnswer) \ (written \cup FromSend)
<1>1. AfterAnswer[r] \in Seq(Requests)
  BY ClientAssumption
<1>2. IsInjective(AfterAnswer[r])
  BY SendersAssumption DEF IsInjective
<1>3. ToSet(AfterAnswer[r]) \subseteq Requests /\ ToSet(AfterAnswer[r]) \subseteq FromAnswer
  BY <1>1, MembersType DEF FromAnswer
<1>4. ToSet(AfterAnswer[r]) \cap written = {}
  BY <1>3 DEF ConversationInv, OwnAnswers
<1> QED
  BY <1>1, <1>2, <1>3, <1>4, SendersAssumption DEF ConversationInv, OnePlace

(* A request is written by the callback of one answer only.                *)
LEMMA OneWriter ==
  ASSUME NEW p \in Requests, NEW q \in Requests,
         NEW r \in ToSet(AfterAnswer[p]), r \in ToSet(AfterAnswer[q])
  PROVE  p = q
<1>1. PICK i \in DOMAIN AfterAnswer[p], j \in DOMAIN AfterAnswer[q] :
        AfterAnswer[p][i] = r /\ AfterAnswer[q][j] = r
  BY DEF ToSet
<1> QED
  BY <1>1, SendersAssumption

(* What the client reads next is an answer that is listened for, or a second
   one.                                                                    *)
LEMMA ReadsAnswer ==
  ASSUME ConversationInv, ClientOnRead, NEW r, r = answers[read + 1].of
  PROVE  /\ r \in Requests /\ r \notin waiting
         /\ read + 1 \in 1..Len(answers)
         /\ Listened(r) \/ Again(r)
<1> USE DEF ConversationInv
<1>1. /\ peer = "open" /\ read \in Nat /\ read + 1 \in read + 1 .. Len(answers)
      /\ read + 1 \in 1..Len(answers)
  BY DEF ClientOnRead, ConversationTypeOK, AnswerInv, TypeOK
<1>2. r \in Requests /\ Owed(r) /\ Answered(r)
  <2>1. answers \in Seq(Answer)
    BY DEF AnswerInv, TypeOK, Answer
  <2>2. answers[read + 1] \in Answer
    BY <1>1, <2>1
  <2>3. r \in Requests
    BY <2>2 DEF Answer
  <2> QED
    BY <1>1, <2>3 DEF Owed, Answered
<1>3. Listened(r) \/ Again(r)
  BY <1>1, <1>2 DEF Expected
<1> QED
  BY <1>1, <1>2, <1>3 DEF AnswerInv, AnsweredOnce

(* Reading an answer leaves what is owed to other requests.                *)
LEMMA OwedOfOthers ==
  ASSUME AnswerInv, read \in Nat, read' = read + 1, UNCHANGED serverVars,
         NEW q \in Requests, q # answers[read + 1].of
  PROVE  Owed(q)' <=> Owed(q)
<1>1. \A i \in read + 1 .. Len(answers) : answers[i].of = q => i \in read' + 1 .. Len(answers)
  BY DEF AnswerInv, TypeOK
<1>2. \A i \in read' + 1 .. Len(answers) : i \in read + 1 .. Len(answers)
  BY DEF AnswerInv, TypeOK
<1> QED
  BY <1>1, <1>2 DEF Owed, serverVars, callVars

(* What OnRead does with an answer that is listened for.                   *)
LEMMA OnReadFinds ==
  ASSUME ConversationInv, ClientOnRead, NEW r, r = answers[read + 1].of, Listened(r)
  PROVE  /\ r \in Requests /\ r \in written \ waiting /\ got[r] = <<>>
         /\ read + 1 \in 1..Len(answers)
         /\ got' = [got EXCEPT ![r] = <<r>>]
         /\ WriteMessages(AfterAnswer[r])
         /\ recvCb' = LET cbs == Registered(recvCb, ReadAtOnce(AfterAnswer[r]))
                      IN Restrict(cbs, DOMAIN cbs \ {Id[r]})
         /\ dropped' = dropped
<1> USE DEF ConversationInv
<1>1. r \in Requests /\ r \notin waiting /\ read + 1 \in 1..Len(answers)
  BY ReadsAnswer
<1>4. got[r] = <<>> /\ r \in written
  BY DEF Listened, OwnAnswers, ConversationTypeOK
<1>6. /\ got' = [got EXCEPT ![r] = Append(@, r)]
      /\ WriteMessages(AfterAnswer[r])
      /\ recvCb' = LET cbs == Registered(recvCb, ReadAtOnce(AfterAnswer[r]))
                   IN Restrict(cbs, DOMAIN cbs \ {Id[r]})
      /\ dropped' = dropped
  BY DEF ClientOnRead, Listened
<1>7. got' = [got EXCEPT ![r] = <<r>>]
  <2>1. Append(<<>>, r) = <<r>>
    OBVIOUS
  <2>2. [got EXCEPT ![r] = Append(@, r)] = [got EXCEPT ![r] = Append(got[r], r)]
    OBVIOUS
  <2> QED
    BY <1>4, <1>6, <2>1, <2>2
<1> QED
  BY <1>1, <1>4, <1>6, <1>7

(* And with a second answer: nobody waits under its identifier.            *)
LEMMA OnReadDrops ==
  ASSUME ConversationInv, ClientOnRead, NEW r, r = answers[read + 1].of, Again(r)
  PROVE  /\ dropped' = dropped \cup {r}
         /\ UNCHANGED <<got, written, sendCb, onOut, recvCb>>
<1>1. Id[r] \notin DOMAIN recvCb
  <2> SUFFICES ASSUME Id[r] \in DOMAIN recvCb PROVE FALSE
    OBVIOUS
  <2>1. PICK q : q = recvCb[Id[r]]
    OBVIOUS
  <2>2. q \in Requests /\ Id[q] = Id[r] /\ got[q] = <<>>
    BY <2>1 DEF ConversationInv, ConversationTypeOK, OwnAnswers
  <2>3. r \in Requests /\ q # r /\ Kind[r] = "replyingStub"
    BY <2>2, ReadsAnswer DEF Again
  <2> QED
    BY <2>2, <2>3, IdAssumption
<1> QED
  BY <1>1 DEF ClientOnRead

(* OnRead of a second answer changes nothing that matters.                 *)
LEMMA OnReadAgainKeeps ==
  ASSUME ConversationInv, ClientOnRead, AnswerInv', Again(answers[read + 1].of)
  PROVE  ConversationInv'
<1> USE DEF ConversationInv
<1>0. PICK r : r = answers[read + 1].of
  OBVIOUS
<1>1. /\ r \in Requests /\ read + 1 \in 1..Len(answers) /\ Again(r)
      /\ dropped' = dropped \cup {r}
      /\ UNCHANGED <<got, written, sendCb, onOut, recvCb>>
  BY <1>0, ReadsAnswer, OnReadDrops
<1>2. /\ peer = "open" /\ read \in Nat /\ read' = read + 1 /\ read < sent
      /\ UNCHANGED <<unsent, onIn, socketVars, serverVars>>
  BY DEF ClientOnRead, ConversationTypeOK
<1>3. ConversationTypeOK'
  <2>1. /\ read' \in Nat /\ sent' \in Nat /\ read' <= sent' /\ sent' <= Len(answers')
    BY <1>2 DEF ConversationTypeOK, socketVars, serverVars
  <2> QED
    BY <1>1, <1>2, <2>1 DEF ConversationTypeOK, socketVars, AnswerInv
<1>4. OnePlace'
  BY <1>1, <1>2 DEF OnePlace, Underway, socketVars, serverVars, callVars
<1>5. OwnAnswers'
  <2>1. 1..read \subseteq 1..read' /\ answers' = answers
    BY <1>2 DEF serverVars
  <2> QED
    BY <1>1, <2>1 DEF OwnAnswers
<1>6. Expected'
  <2>1. ASSUME NEW q \in Requests, q # r PROVE Owed(q)' <=> Owed(q)
    BY <1>0, <1>2, <2>1, OwedOfOthers
  <2>2. Again(r)'
    BY <1>1 DEF Again
  <2>3. \A q : (Listened(q)' <=> Listened(q)) /\ (Again(q)' <=> Again(q))
    BY <1>1 DEF Listened, Again
  <2>4. \A i \in DOMAIN recvCb : recvCb[i] \in Requests /\ recvCb[i] # r
    BY <1>1 DEF OwnAnswers, ConversationTypeOK, Again
  <2>5. Underway' = Underway
    BY <1>1, <1>2 DEF Underway, socketVars
  <2>6. \A q \in Requests : Owed(q)' => Listened(q)' \/ Again(q)'
    BY <1>2, <2>1, <2>2, <2>3 DEF Expected
  <2>7. \A i \in DOMAIN recvCb' :
          \/ recvCb'[i] \in Underway' \cup FromSend
          \/ (Owed(recvCb[i]) \/ ~ToBeAnswered(recvCb[i]))'
    BY <1>1, <1>2, <2>1, <2>4, <2>5 DEF Expected, ToBeAnswered
  <2> QED
    BY <1>1, <1>2, <2>3, <2>6, <2>7 DEF Expected, socketVars
<1>7. NoAnswerDropped'
  BY <1>1 DEF NoAnswerDropped, Again
<1> QED
  BY <1>1, <1>2, <1>3, <1>4, <1>5, <1>6, <1>7 DEF ClientLeftFirst, socketVars, serverVars

(* OnRead: the callback of the answer's own request is run and goes; those
   of the others stay, and those that it brings are of other requests.     *)
LEMMA OnReadKeeps ==
  ASSUME ConversationInv, ClientOnRead, AnswerInv', Listened(answers[read + 1].of)
  PROVE  ConversationInv'
<1> USE DEF ConversationInv
<1>0. PICK r : r = answers[read + 1].of
  OBVIOUS
<1> DEFINE next == AfterAnswer[r]
           rs == ToSet(next) \cap AtOnce
           cbs == Registered(recvCb, rs)
<1>1. /\ r \in Requests /\ r \in written \ waiting /\ got[r] = <<>> /\ Listened(r)
      /\ read + 1 \in 1..Len(answers)
      /\ got' = [got EXCEPT ![r] = <<r>>]
      /\ WriteMessages(next)
      /\ recvCb' = Restrict(cbs, DOMAIN cbs \ {Id[r]})
      /\ dropped' = dropped
  BY <1>0, OnReadFinds DEF ReadAtOnce
<1>2. /\ peer = "open" /\ read \in Nat /\ read' = read + 1 /\ read < sent
      /\ UNCHANGED <<unsent, onIn, socketVars, serverVars>>
  BY DEF ClientOnRead, ConversationTypeOK
<1>3. /\ next \in Seq(Requests) /\ IsInjective(next)
      /\ ToSet(next) \subseteq (waiting \cap FromAnswer) \ (written \cup FromSend)
  BY <1>1, NextAreNew
<1>4. \A q \in ToSet(next) : q \in Requests /\ q # r /\ got[q] = <<>>
  BY <1>1, <1>3, WaitingHasNot
<1>5. \A i \in 1..Len(answers) :
        answers[i].of = r => i = read + 1 \/ Kind[r] = "replyingStub"
  BY <1>0, <1>1 DEF AnswerInv, AnsweredOnce
<1> HIDE DEF rs
<1>6. /\ DOMAIN cbs = DOMAIN recvCb \cup {Id[q] : q \in rs}
      /\ \A i \in DOMAIN recvCb : cbs[i] = recvCb[i]
      /\ \A q \in rs : cbs[Id[q]] = q
  BY <1>3, RegistersWaiting DEF rs
<1> HIDE DEF cbs, next
<1>7. \A q \in rs : Id[q] # Id[r]
  BY <1>1, <1>4, <1>6 DEF rs, Listened
<1>8. /\ DOMAIN recvCb' = DOMAIN cbs \ {Id[r]}
      /\ \A i \in DOMAIN recvCb' : recvCb'[i] = cbs[i]
  BY <1>1 DEF Restrict
<1>9. ASSUME NEW i \in DOMAIN recvCb'
      PROVE  /\ i # Id[r]
             /\ \/ i \in DOMAIN recvCb /\ recvCb'[i] = recvCb[i]
                \/ recvCb'[i] \in rs /\ Id[recvCb'[i]] = i
  BY <1>6, <1>8
<1>10. /\ written' = written \cup ToSet(next) /\ sendCb' = sendCb \o next
       /\ onOut' = (onOut \/ next # <<>>)
  BY <1>1 DEF WriteMessages
<1>11. ToSet(sendCb) \cup ToSet(unsent) \cup ToSet(toServer) = Underway
       /\ Underway \subseteq written
  BY DEF Underway, OnePlace
<1>12. /\ sendCb' \in Seq(Requests) /\ ToSet(sendCb') = ToSet(sendCb) \cup ToSet(next)
       /\ IsInjective(sendCb')
  <2>1. /\ sendCb \in Seq(Requests) /\ IsInjective(sendCb)
        /\ ToSet(sendCb) \cap ToSet(next) = {}
    BY <1>3, <1>11 DEF ConversationTypeOK, OnePlace
  <2> HIDE DEF ConversationInv
  <2> QED
    BY <1>3, <1>10, <2>1, ConcatMembers, ConcatInjective
<1>13. ConversationTypeOK'
  <2>1. \A i \in DOMAIN recvCb' : recvCb'[i] \in written' /\ Id[recvCb'[i]] = i
    BY <1>9, <1>10 DEF ConversationTypeOK, rs
  <2>2. got' \in [Requests -> Seq(Requests)]
    BY <1>1, SingleMember DEF ConversationTypeOK
  <2>3. onOut' \in BOOLEAN
    BY <1>10
  <2>4. /\ read' \in Nat /\ sent' \in Nat /\ read' <= sent' /\ sent' <= Len(answers')
    BY <1>2 DEF ConversationTypeOK, socketVars, serverVars
  <2>5. written' \in SUBSET Requests /\ dropped' \in SUBSET Requests
    BY <1>1, <1>4, <1>10 DEF ConversationTypeOK
  <2> QED
    BY <1>2, <1>12, <2>1, <2>2, <2>3, <2>4, <2>5
       DEF ConversationTypeOK, socketVars, AnswerInv
<1>14. OnePlace'
  <2>1. Underway' = Underway \cup ToSet(next)
    BY <1>2, <1>12 DEF Underway, socketVars
  <2> QED
    BY <1>2, <1>3, <1>10, <1>11, <1>12, <2>1
       DEF OnePlace, socketVars, serverVars, callVars
<1>15. OwnAnswers'
  <2>1. ASSUME NEW q \in Requests
        PROVE  got'[q] = <<>> \/ (got'[q] = <<q>> /\ \E i \in 1..read' : answers'[i].of = q)
    <3>1. CASE q = r
      <4>1. read + 1 \in 1..read' /\ answers'[read + 1].of = r
        BY <1>0, <1>2 DEF serverVars
      <4> QED
        BY <1>1, <3>1, <4>1 DEF ConversationTypeOK
    <3>2. CASE q # r
      <4>1. got'[q] = got[q] /\ 1..read \subseteq 1..read' /\ answers' = answers
        BY <1>1, <1>2, <3>2 DEF ConversationTypeOK, serverVars
      <4> QED
        BY <4>1 DEF OwnAnswers
    <3> QED
      BY <3>1, <3>2
  <2>2. ASSUME NEW i \in DOMAIN recvCb' PROVE got'[recvCb'[i]] = <<>>
    <3> DEFINE q == recvCb'[i]
    <3>1. q \in Requests /\ Id[q] = i /\ got[q] = <<>>
      BY <1>4, <1>9, <2>2 DEF OwnAnswers, ConversationTypeOK, rs
    <3>2. q # r
      BY <1>9, <2>2, <3>1
    <3> QED
      BY <1>1, <3>1, <3>2 DEF ConversationTypeOK
  <2>3. ASSUME NEW p \in Requests, NEW q \in Requests,
               q \in ToSet(AfterAnswer[p]) \cap written'
        PROVE  got'[p] # <<>>
    <3>1. CASE p = r
      BY <1>1, <3>1 DEF ConversationTypeOK
    <3>2. CASE p # r
      <4>1. q \notin ToSet(next)
        BY <1>1, <2>3, <3>2, OneWriter DEF next
      <4>2. got[p] # <<>>
        BY <1>10, <2>3, <4>1 DEF OwnAnswers
      <4> QED
        BY <1>1, <3>2, <4>2 DEF ConversationTypeOK
    <3> QED
      BY <3>1, <3>2
  <2> QED
    BY <2>1, <2>2, <2>3 DEF OwnAnswers
<1>16. Expected'
  <2>1. ASSUME NEW q \in Requests, q # r PROVE Owed(q)' <=> Owed(q)
    BY <1>0, <1>2, <2>1, OwedOfOthers
  <2>2. ASSUME Owed(r)' PROVE Again(r)'
    <3>1. CASE r \in kept /\ Kind[r] = "later"
      BY <1>0, <1>1, <3>1 DEF AnswerInv, OwesAnswer, Answered
    <3>2. ASSUME NEW i \in read' + 1 .. Len(answers), answers[i].of = r PROVE Again(r)'
      <4>1. i \in 1..Len(answers) /\ i # read + 1
        BY <1>2, <3>2 DEF AnswerInv, TypeOK
      <4>2. got'[r] # <<>>
        BY <1>1 DEF ConversationTypeOK
      <4> QED
        BY <1>5, <3>2, <4>1, <4>2 DEF Again
    <3> QED
      BY <1>2, <2>2, <3>1, <3>2 DEF Owed, serverVars, callVars
  <2>3. ASSUME NEW q, q # r, Listened(q) PROVE Listened(q)'
    <3>1. Id[q] # Id[r]
      BY <1>1, <2>3 DEF Listened
    <3> QED
      BY <1>6, <1>8, <2>3, <3>1 DEF Listened
  <2>4. \A q \in rs : Listened(q)'
    BY <1>6, <1>7, <1>8 DEF Listened
  <2>5. Underway' = Underway \cup ToSet(next)
    BY <1>2, <1>12 DEF Underway, socketVars
  <2>6. \A q \in Underway : q # r
    BY <1>1 DEF OnePlace
  <2>7. \A q \in ToSet(unsent) \cup ToSet(toServer) \cup (ToSet(sendCb') \cap AtOnce) :
          Listened(q)'
    BY <1>2, <1>12, <2>3, <2>4, <2>6 DEF Expected, Underway, rs
  <2>8. \A q \in Requests : Owed(q)' => Listened(q)' \/ Again(q)'
    <3>1. \A q \in Requests : Again(q) => Again(q)'
      BY <1>1 DEF Again, ConversationTypeOK
    <3> QED
      BY <1>2, <2>1, <2>2, <2>3, <3>1 DEF Expected
  <2>9. ASSUME NEW i \in DOMAIN recvCb'
        PROVE  \/ recvCb'[i] \in Underway' \cup FromSend
               \/ \E q \in Requests : q = recvCb'[i] /\ (Owed(q)' \/ ~ToBeAnswered(q)')
    <3>1. CASE recvCb'[i] \in rs
      BY <2>5, <3>1 DEF rs
    <3>2. CASE i \in DOMAIN recvCb /\ recvCb'[i] = recvCb[i]
      <4>0. PICK q : q = recvCb[i]
        OBVIOUS
      <4>1. q \in Requests /\ Id[q] = i
        BY <3>2, <4>0 DEF ConversationTypeOK
      <4>2. q \in Underway \cup FromSend \/ Owed(q) \/ ~ToBeAnswered(q)
        BY <1>2, <3>2, <4>0 DEF Expected
      <4>3. q # r
        BY <1>9, <2>9, <4>1
      <4>4. ToBeAnswered(q)' <=> ToBeAnswered(q)
        BY DEF ToBeAnswered
      <4>5. recvCb'[i] = q
        BY <3>2, <4>0
      <4> QED
        BY <2>1, <2>5, <4>1, <4>2, <4>3, <4>4, <4>5
    <3> QED
      BY <1>9, <2>9, <3>1, <3>2
  <2>10. \A i \in DOMAIN recvCb' :
           \/ recvCb'[i] \in Underway' \cup FromSend
           \/ (Owed(recvCb[i]) \/ ~ToBeAnswered(recvCb[i]))'
    BY <2>9
  <2> QED
    BY <1>2, <2>7, <2>8, <2>10 DEF Expected, socketVars
<1> QED
  BY <1>1, <1>2, <1>13, <1>14, <1>15, <1>16
     DEF ClientLeftFirst, NoAnswerDropped, socketVars, serverVars

(* The client goes: it waits for nothing any more.                         *)
LEMMA ClientGoneKeeps ==
  ASSUME ConversationInv, ClientGone, AnswerInv'
  PROVE  ConversationInv'
<1> USE DEF ConversationInv
<1>1. /\ sendCb' = <<>> /\ recvCb' = <<>> /\ unsent' = <<>>
      /\ onOut' = FALSE /\ onIn' = FALSE /\ peer' \in {"reset", "closed"}
      /\ UNCHANGED <<written, read, got, dropped, toServer, sent, killed, serverVars>>
  BY DEF ClientGone
<1>2. DOMAIN recvCb' = {} /\ sendCb' \in Seq(Requests) /\ unsent' \in Seq(Requests)
  BY <1>1
<1>3. ConversationTypeOK'
  BY <1>1, <1>2 DEF ConversationTypeOK, serverVars, AnswerInv
<1>4. OnePlace'
  BY <1>1, EmptyMembers DEF OnePlace, Underway, serverVars, callVars
<1>5. OwnAnswers'
  BY <1>1, <1>2 DEF OwnAnswers, serverVars
<1> QED
  BY <1>1, <1>3, <1>4, <1>5 DEF Expected, ClientLeftFirst, NoAnswerDropped

-----------------------------------------------------------------------------
(* The server's side of it.                                                *)

(* What a handler for r does to what the server owes: nothing for another
   request, and r is owed its answer after it, unless there is none.       *)
Handles(r) ==
  /\ waiting' = waiting \ {r}
  /\ \A q \in Requests : q # r => (q \in kept' <=> q \in kept)
  /\ answers' = answers \/ Replies(r)

(* Dispatch is such a handler, and only for a request that waits.          *)
LEMMA DispatchHandles ==
  ASSUME AnswerInv, NEW r, Dispatch(r)
  PROVE  /\ r \in waiting /\ Handles(r) /\ UNCHANGED <<conn, crashed>>
         /\ ToBeAnswered(r) =>
              \/ Replies(r)
              \/ r \in kept' /\ Kind[r] = "later"
<1> USE DEF Handles
<1>8. CASE DispatchReplyingStub(r)
  <2>1. r \in Requests
    BY <1>8 DEF DispatchReplyingStub, Accept, Dispatchable, AnswerInv, TypeOK
  <2> QED
    BY <1>8, <2>1, ReplyTwiceType DEF DispatchReplyingStub, Accept, Dispatchable, AnswerInv
<1>1. r \in waiting /\ r \in Requests /\ Kind[r] \in Kinds
  BY KindAssumption DEF Dispatch, DispatchRefused, DispatchOrder, DispatchCheapOrder,
    DispatchLater, DispatchStub, DispatchReplyingStub, DispatchAsyncStub, Accept, Dispatchable, AnswerInv, TypeOK
<1>2. CASE DispatchRefused(r)
  BY <1>1, <1>2 DEF DispatchRefused, ToBeAnswered
<1>3. CASE DispatchOrder(r)
  BY <1>1, <1>3, ReplyType DEF DispatchOrder, Accept, AnswerInv
<1>4. CASE DispatchCheapOrder(r)
  BY <1>1, <1>4 DEF DispatchCheapOrder, Accept, ToBeAnswered
<1>5. CASE DispatchLater(r)
  BY <1>1, <1>5 DEF DispatchLater, Accept
<1>6. CASE DispatchStub(r)
  BY <1>1, <1>6, ReplyType DEF DispatchStub, Accept, AnswerInv
<1>7. CASE DispatchAsyncStub(r)
  BY <1>1, <1>7, ReplyType DEF DispatchAsyncStub, Accept, AnswerInv
<1> QED
  BY <1>2, <1>3, <1>4, <1>5, <1>6, <1>7, <1>8 DEF Dispatch

(* A callback that comes later is one, too, of a request that waits no more. *)
LEMMA CallbackHandles ==
  ASSUME AnswerInv, NEW r \in Requests, LaterReplies(r) \/ ClosureRuns(r)
  PROVE  /\ r \in kept \ waiting /\ Handles(r) /\ UNCHANGED conn
         /\ crashed' # crashed => conn = "gone"
         /\ Kind[r] = "later" =>
              \/ crashed'
              \/ Replies(r)
         /\ Kind[r] # "later" => answers' = answers
<1> USE DEF Handles
<1>1. \A q \in kept : q \notin waiting
  BY DEF AnswerInv, TypeOK
<1>2. CASE LaterReplies(r)
  BY <1>1, <1>2, ReplyType DEF LaterReplies, AnswerInv
<1>3. CASE ClosureRuns(r)
  BY <1>1, <1>3 DEF ClosureRuns
<1> QED
  BY <1>2, <1>3

(* What a handler for r leaves unread and owed.                            *)
LEMMA OwedAfter ==
  ASSUME AnswerInv, read \in Nat, read <= Len(answers), read' = read,
         NEW r \in Requests, Handles(r)
  PROVE  /\ \A q \in Requests : q # r => (Owed(q)' <=> Owed(q))
         /\ (Replies(r)) => Owed(r)'
         /\ answers' = answers /\ Kind[r] # "later" => (Owed(r)' <=> Owed(r))
         /\ \A i \in 1..read : i \in 1..Len(answers') /\ answers'[i] = answers[i]
         /\ Len(answers) <= Len(answers')
<1>1. answers \in Seq(Answer) /\ Len(answers) \in Nat
  BY DEF AnswerInv, TypeOK, Answer
<1>2. CASE answers' = answers
  <2>1. \A q \in Requests : q # r \/ Kind[r] # "later" => (Owed(q)' <=> Owed(q))
    BY <1>2 DEF Owed, Handles
  <2>2. ~Replies(r)
    BY <1>1, <1>2 DEF Replies
  <2> QED
    BY <1>1, <1>2, <2>1, <2>2
<1>3. ASSUME Replies(r)
      PROVE  /\ \A q \in Requests : q # r => (Owed(q)' <=> Owed(q))
             /\ Owed(r)' /\ answers' # answers
             /\ \A i \in 1..read : i \in 1..Len(answers') /\ answers'[i] = answers[i]
             /\ Len(answers) <= Len(answers')
  <2> DEFINE n == Len(answers)
             m == Len(answers')
  <2>1. /\ m \in Nat /\ n \in Nat /\ n < m
        /\ \A i \in n + 1 .. m : answers'[i].of = r
        /\ \A i \in 1..n : answers'[i] = answers[i]
    BY <1>1, <1>3 DEF Replies
  <2> HIDE DEF n, m
  <2>2. m \in read + 1 .. m /\ m \in n + 1 .. m
    BY <2>1 DEF n
  <2>3. Owed(r)'
    BY <2>1, <2>2 DEF Owed, m
  <2>4. ASSUME NEW q \in Requests, q # r PROVE Owed(q)' <=> Owed(q)
    <3>1. ASSUME NEW i \in read + 1 .. m, answers'[i].of = q
          PROVE  i \in read + 1 .. n /\ answers[i].of = q
      <4>1. i \notin n + 1 .. m
        BY <2>1, <2>4, <3>1
      <4>2. i \in read + 1 .. n /\ i \in 1..n
        BY <2>1, <3>1, <4>1
      <4> QED
        BY <2>1, <3>1, <4>2
    <3>2. ASSUME NEW i \in read + 1 .. n, answers[i].of = q
          PROVE  i \in read + 1 .. m /\ answers'[i].of = q
      <4>1. i \in 1..n /\ i \in read + 1 .. m
        BY <2>1
      <4> QED
        BY <2>1, <3>2, <4>1
    <3>3. q \in kept' <=> q \in kept
      BY <2>4 DEF Handles
    <3> QED
      BY <3>1, <3>2, <3>3 DEF Owed, n, m
  <2>5. \A i \in 1..read : i \in 1..m /\ answers'[i] = answers[i]
    BY <2>1 DEF n
  <2>6. answers' # answers /\ n <= m
    BY <2>1 DEF n, m
  <2> QED
    BY <2>3, <2>4, <2>5, <2>6 DEF n, m
<1> QED
  BY <1>2, <1>3 DEF Handles

(* What a handler for r keeps of the invariant, if nothing else changes but
   the place of r, and if what may be answered was listened for.           *)
LEMMA HandlerKeeps ==
  ASSUME ConversationInv, AnswerInv', NEW r \in Requests, Handles(r),
         UNCHANGED <<clientVars, sent, peer, killed, conn>>,
         crashed' # crashed => conn = "gone",
         toServer' \in Seq(Requests), IsInjective(toServer'),
         ToSet(toServer') = ToSet(toServer) \ {r},
         r \notin ToSet(sendCb) \cup ToSet(unsent),
         r \in written \ FromSend,
         r \in ToSet(toServer) \/ Owed(r) \/ (Owed(r)' <=> Owed(r)),
         peer = "open" /\ ToBeAnswered(r) /\ (r \in ToSet(toServer) \/ Owed(r)) => Owed(r)'
  PROVE  ConversationInv'
<1> USE DEF ConversationInv
<1>1. /\ read \in Nat /\ read <= Len(answers)
      /\ read' = read /\ written' = written /\ got' = got /\ recvCb' = recvCb
      /\ sendCb' = sendCb /\ unsent' = unsent /\ dropped' = dropped
      /\ onOut' = onOut /\ onIn' = onIn
      /\ sent' = sent /\ peer' = peer /\ killed' = killed /\ conn' = conn
  BY DEF clientVars, ConversationTypeOK, AnswerInv, TypeOK
<1>2. /\ \A q \in Requests : q # r => (Owed(q)' <=> Owed(q))
      /\ \A i \in 1..read : i \in 1..Len(answers') /\ answers'[i] = answers[i]
      /\ Len(answers) <= Len(answers')
  BY <1>1, OwedAfter
<1>3. Underway' = Underway \ {r}
  BY <1>1 DEF Underway
<1>4. ConversationTypeOK'
  <2>1. sent' <= Len(answers')
    BY <1>1, <1>2 DEF ConversationTypeOK, AnswerInv, TypeOK
  <2> QED
    BY <1>1, <2>1 DEF ConversationTypeOK, AnswerInv
<1>5. OnePlace'
  BY <1>1, <1>3 DEF OnePlace, Handles
<1>6. OwnAnswers'
  BY <1>1, <1>2 DEF OwnAnswers
<1>7. Expected'
  <2> SUFFICES ASSUME peer = "open" PROVE Expected'
    BY <1>1 DEF Expected
  <2>1. \A q : Listened(q)' <=> Listened(q)
    BY <1>1 DEF Listened
  <2>2. r \in ToSet(toServer) \/ Owed(r) => Listened(r) \/ Again(r)
    BY DEF Expected
  <2>3. \A q \in Requests : Owed(q)' => Listened(q)' \/ Again(q)'
    <3>1. \A q : Again(q)' <=> Again(q)
      BY <1>1 DEF Again
    <3> QED
      BY <1>2, <2>1, <2>2, <3>1 DEF Expected
  <2>4. ASSUME NEW q \in Requests, q \in Underway \cup FromSend \/ Owed(q) \/ ~ToBeAnswered(q)
        PROVE  q \in Underway' \cup FromSend \/ Owed(q)' \/ ~ToBeAnswered(q)'
    <3>1. CASE q # r
      BY <1>2, <1>3, <2>4, <3>1 DEF ToBeAnswered
    <3>2. CASE q = r
      BY <2>4, <3>2 DEF Underway, ToBeAnswered
    <3> QED
      BY <3>1, <3>2
  <2>5. \A i \in DOMAIN recvCb : recvCb[i] \in Requests
    BY DEF ConversationTypeOK
  <2>6. \A i \in DOMAIN recvCb' :
          \/ recvCb'[i] \in Underway' \cup FromSend
          \/ (Owed(recvCb[i]) \/ ~ToBeAnswered(recvCb[i]))'
    BY <1>1, <2>4, <2>5 DEF Expected
  <2> QED
    BY <1>1, <2>1, <2>3, <2>6 DEF Expected
<1>8. ClientLeftFirst' /\ NoAnswerDropped'
  BY <1>1 DEF ClientLeftFirst, NoAnswerDropped
<1> QED
  BY <1>4, <1>5, <1>6, <1>7, <1>8

(* Each step of the conversation keeps the invariant.                      *)
LEMMA ConversationNextKeeps ==
  ConversationInv /\ [ConversationNext]_allVars => ConversationInv'
<1> SUFFICES ASSUME ConversationInv, [ConversationNext]_allVars PROVE ConversationInv'
  OBVIOUS
<1>1. AnswerInv'
  BY ServerStep, AnswerNext DEF ConversationInv, AnswerInv
<1>2. /\ AnswerInv /\ read \in Nat /\ read <= Len(answers) /\ sent <= Len(answers)
      /\ toServer \in Seq(Requests)
  BY DEF ConversationInv, ConversationTypeOK, AnswerInv, TypeOK
<1>3. CASE ServerOnRead
  <2> DEFINE r == Head(toServer)
  <2>1. /\ toServer # <<>> /\ Dispatch(r) /\ toServer' = Tail(toServer)
        /\ UNCHANGED <<clientVars, sent, peer, killed>>
    BY <1>3 DEF ServerOnRead
  <2>2. /\ toServer' \in Seq(Requests) /\ IsInjective(toServer') /\ r \in ToSet(toServer)
        /\ ToSet(toServer') = ToSet(toServer) \ {r}
    BY <1>2, <2>1, TailMembers DEF ConversationInv, OnePlace
  <2>3. PICK q : q = r
    OBVIOUS
  <2> HIDE DEF r
  <2>4. /\ q \in waiting /\ Handles(q) /\ UNCHANGED <<conn, crashed>>
        /\ ToBeAnswered(q) =>
             \/ Replies(q)
             \/ q \in kept' /\ Kind[q] = "later"
    BY <1>2, <2>1, <2>3, DispatchHandles
  <2>5. q \in Requests /\ q \notin ToSet(sendCb) \cup ToSet(unsent) /\ q \in written \ FromSend
    BY <2>2, <2>3, <2>4 DEF ConversationInv, OnePlace, Underway, AnswerInv, TypeOK
  <2>6. ToBeAnswered(q) => Owed(q)'
    <3>1. read' = read
      BY <2>1 DEF clientVars
    <3>2. CASE q \in kept' /\ Kind[q] = "later"
      BY <3>2 DEF Owed
    <3> QED
      BY <1>2, <2>4, <2>5, <3>1, <3>2, OwedAfter
  <2> QED
    BY <1>1, <2>1, <2>2, <2>3, <2>4, <2>5, <2>6, HandlerKeeps
<1>4. CASE ServerCallback
  <2>1. PICK r \in Requests : LaterReplies(r) \/ ClosureRuns(r)
    BY <1>4 DEF ServerCallback
  <2>2. UNCHANGED <<clientVars, socketVars>>
    BY <1>4 DEF ServerCallback
  <2>3. /\ r \in kept \ waiting /\ Handles(r) /\ UNCHANGED conn
        /\ crashed' # crashed => conn = "gone"
        /\ Kind[r] = "later" =>
             \/ crashed'
             \/ Replies(r)
        /\ Kind[r] # "later" => answers' = answers
    BY <1>2, <2>1, CallbackHandles
  <2>4. /\ r \notin Underway /\ r \in written \ FromSend
        /\ IsInjective(toServer)
    BY <2>3 DEF ConversationInv, OnePlace
  <2>5. crashed' => peer # "open"
    BY <2>3 DEF ConversationInv, ClientLeftFirst
  <2>6. read' = read /\ UNCHANGED <<toServer, sent, peer, killed, clientVars>>
    BY <2>2 DEF clientVars, socketVars
  <2>7. Kind[r] = "later" => Owed(r)
    BY <2>3 DEF Owed
  <2>8. Kind[r] # "later" => (Owed(r)' <=> Owed(r))
    BY <1>2, <2>3, <2>6, OwedAfter
  <2>9. peer = "open" /\ Kind[r] = "later" => Owed(r)'
    BY <1>2, <2>3, <2>5, <2>6, OwedAfter
  <2>10. /\ toServer' \in Seq(Requests) /\ IsInjective(toServer')
         /\ ToSet(toServer') = ToSet(toServer) \ {r}
         /\ r \notin ToSet(sendCb) \cup ToSet(unsent) \cup ToSet(toServer)
    BY <1>2, <2>4, <2>6 DEF Underway
  <2> QED
    BY <1>1, <2>3, <2>4, <2>6, <2>7, <2>8, <2>9, <2>10, HandlerKeeps
<1>5. CASE ServerOnWrite \/ ServerLeft \/ UNCHANGED allVars
  <2>1. /\ UNCHANGED <<clientVars, toServer, callVars, answers>>
        /\ peer' \in {"open", "closed", "reset"} /\ (peer' = "open" <=> peer = "open")
        /\ sent' \in Nat /\ read' <= sent' /\ sent' <= Len(answers')
        /\ killed' \in BOOLEAN
        /\ killed' \/ crashed' \/ conn' # "Connected" => peer' # "open"
    <3>1. CASE ServerOnWrite
      BY <1>2, <3>1 DEF ServerOnWrite, serverVars, ConversationInv, ClientLeftFirst,
        ConversationTypeOK, clientVars, AnswerInv, TypeOK, ServerAlive
    <3>2. CASE ServerLeft
      BY <3>2 DEF ServerLeft, ClientLeaves, Collected, socketVars,
        ConversationInv, ConversationTypeOK, clientVars
    <3>3. CASE UNCHANGED allVars
      BY <3>3 DEF allVars, clientVars, socketVars, serverVars,
        ConversationInv, ConversationTypeOK, ClientLeftFirst
    <3> QED
      BY <1>5, <3>1, <3>2, <3>3
  <2>2. ConversationTypeOK'
    BY <1>1, <2>1 DEF ConversationInv, ConversationTypeOK, clientVars, AnswerInv
  <2>3. OnePlace' /\ OwnAnswers' /\ NoAnswerDropped'
    BY <2>1 DEF ConversationInv, OnePlace, OwnAnswers, Underway, NoAnswerDropped,
      clientVars, callVars
  <2>4. Expected'
    <3>1. \A q : Owed(q)' <=> Owed(q)
      BY <2>1, OwedStays DEF clientVars, callVars
    <3>2. \A q : Listened(q)' <=> Listened(q)
      BY <2>1 DEF Listened, clientVars
    <3>3. Underway' = Underway
      BY <2>1 DEF Underway, clientVars
    <3>4. \A i \in DOMAIN recvCb' :
            peer' = "open" => \/ recvCb'[i] \in Underway' \cup FromSend
                              \/ (Owed(recvCb[i]) \/ ~ToBeAnswered(recvCb[i]))'
      BY <2>1, <3>1, <3>3 DEF ConversationInv, Expected, ToBeAnswered, clientVars
    <3>5. \A q : Again(q)' <=> Again(q)
      BY <2>1 DEF Again, clientVars
    <3> QED
      BY <2>1, <3>1, <3>2, <3>4, <3>5 DEF ConversationInv, Expected, clientVars
  <2> QED
    BY <1>1, <2>1, <2>2, <2>3, <2>4 DEF ConversationInv, ClientLeftFirst
<1>6. CASE ClientOnRead
  BY <1>1, <1>6, ReadsAnswer, OnReadKeeps, OnReadAgainKeeps
<1> QED
  BY <1>1, <1>3, <1>4, <1>5, <1>6, ProgramKeeps, OnWriteKeeps, ClientGoneKeeps
  DEF ConversationNext

(* Nothing is written or listened for at first.                            *)
LEMMA ConversationStarts == ConversationInit => ConversationInv
<1> SUFFICES ASSUME ConversationInit PROVE ConversationInv
  OBVIOUS
<1>1. AnswerInv
  BY TypeInit DEF ConversationInit, Init, AnswerInv, AnsweredOnce, OwesAnswer, Answered
<1>2. /\ sendCb = <<>> /\ unsent = <<>> /\ toServer = <<>> /\ recvCb = <<>>
      /\ DOMAIN recvCb = {} /\ read = 0 /\ Len(answers) = 0 /\ kept = {}
      /\ <<>> \in Seq(Requests) /\ got = [r \in Requests |-> <<>>] /\ written = {}
      /\ waiting = Requests /\ conn = "Connected" /\ crashed = FALSE /\ killed = FALSE
      /\ dropped = {} /\ sent = 0 /\ onOut = FALSE /\ onIn = FALSE /\ peer = "open"
  BY DEF ConversationInit, Init
<1>3. ConversationTypeOK
  <2>1. got \in [Requests -> Seq(Requests)]
    BY <1>2
  <2>2. onOut \in BOOLEAN /\ onIn \in BOOLEAN /\ killed \in BOOLEAN
    BY <1>2
  <2>3. sendCb \in Seq(Requests) /\ unsent \in Seq(Requests) /\ toServer \in Seq(Requests)
    BY <1>2
  <2> QED
    BY <1>1, <1>2, <2>1, <2>2, <2>3 DEF ConversationTypeOK, AnswerInv
<1>4. OnePlace
  BY <1>2, EmptyMembers DEF OnePlace, Underway
<1>5. OwnAnswers
  BY <1>2 DEF OwnAnswers
<1>6. Expected
  <2>1. \A r : ~Owed(r)
    BY <1>2 DEF Owed
  <2> QED
    BY <1>2, <2>1, EmptyMembers DEF Expected
<1> QED
  BY <1>1, <1>2, <1>3, <1>4, <1>5, <1>6
  DEF ConversationInv, ClientLeftFirst, NoAnswerDropped

(* The invariant holds throughout a conversation.                          *)
LEMMA ConversationHolds == ConversationSpec => []ConversationInv
  BY ConversationStarts, ConversationNextKeeps, PTL DEF ConversationSpec

(* Every variable of a conversation has its type, and a callback that waits
   is of a request that was written, and under its identifier.             *)
THEOREM ConversationTypeCorrect == ConversationSpec => []ConversationTypeOK
<1>1. ConversationInv => ConversationTypeOK
  BY DEF ConversationInv
<1> QED
  BY <1>1, ConversationHolds, PTL

(* However many requests a client has on a connection, and in whatever order
   they are written, sent and answered, each answer finds the callback of its
   request (tcp_connection.cc 214-221, 289-297), but for the second of those
   that rpc_interface.cc 27-45 sends twice: it is registered before the
   request can reach the server, and no other answer takes it.             *)
THEOREM AnswersFindTheirCallback == ConversationSpec => []NoAnswerDropped
<1>1. ConversationInv => NoAnswerDropped
  BY DEF ConversationInv
<1> QED
  BY <1>1, ConversationHolds, PTL

(* A callback that waits while client and server are there waits for an
   answer that is under way, unless there is none for its request
   (rpc_dispatcher.cc 56-90, tcp_connection.cc 289-297).                   *)
THEOREM WaitsForAnAnswer == ConversationSpec => []OnlyRefusedWaitInVain
<1>1. ConversationInv => OnlyRefusedWaitInVain
  <2> SUFFICES ASSUME ConversationInv, ~Over, NEW i \in DOMAIN recvCb
               PROVE  \/ OnItsWay(recvCb[i]) \/ ~ToBeAnswered(recvCb[i])
                      \/ recvCb[i] \in FromSend
    BY DEF OnlyRefusedWaitInVain
  <2>1. \/ recvCb[i] \in Underway \cup FromSend
        \/ Owed(recvCb[i]) \/ ~ToBeAnswered(recvCb[i])
    BY DEF ConversationInv, Expected, Over
  <2> QED
    BY <2>1 DEF OnItsWay, Underway, Owed
<1> QED
  BY <1>1, ConversationHolds, PTL

-----------------------------------------------------------------------------
(* The safety half of the promise.                                         *)

(* A step that answers nothing, runs no callback and ends nothing asks for
   more requests, or for none.                                             *)
LEMMA AskStep ==
  ASSUME ConversationTypeOK', answers' = answers, got' = got, Over' = Over,
         written \subseteq written'
  PROVE  Promise!Next \/ UNCHANGED Promise!vars
<1>1. {r \in Requests : Answered(r)}' = {r \in Requests : Answered(r)}
  BY DEF Answered
<1>2. written' \in SUBSET Requests
  BY DEF ConversationTypeOK
<1> QED
  BY <1>1, <1>2 DEF Promise!Next, Promise!Ask, Promise!AskMore

(* A handler of the server serves one request of the program, or none, until
   everything is over.                                                     *)
LEMMA ServeStep ==
  ASSUME ConversationInv, NEW r \in Requests, r \in written, Handles(r),
         UNCHANGED <<written, got>>,
         answers' # answers => (~Answered(r) /\ ToBeAnswered(r)), r \notin FromSend,
         Over' = Over
  PROVE  Promise!Next \/ UNCHANGED Promise!vars
<1>1. CASE answers' = answers
  BY <1>1 DEF Promise!vars, Answered
<1>2. CASE answers' # answers
  <2>1. Replies(r)
    BY <1>2 DEF Handles
  <2>2. \A q \in Requests : Answered(q)' <=> Answered(q) \/ q = r
    BY <1>2, <2>1, AppendAnswer DEF ConversationInv, AnswerInv
  <2>3. {q \in Requests : Answered(q)}' = {q \in Requests : Answered(q)} \cup {r}
    BY <2>2
  <2>4. Promise!Serve(r)
    BY <1>2, <2>3 DEF Promise!Serve
  <2> QED
    BY <2>4 DEF Promise!Next
<1> QED
  BY <1>1, <1>2

(* Each step of a conversation is one that the promise allows.             *)
LEMMA PromiseStep ==
  ConversationInv /\ ConversationInv' /\ [ConversationNext]_allVars
    => [Promise!Next]_(Promise!vars)
<1> SUFFICES ASSUME ConversationInv, ConversationInv', [ConversationNext]_allVars
             PROVE  Promise!Next \/ UNCHANGED Promise!vars
  OBVIOUS
<1>1. ConversationTypeOK' /\ ConversationTypeOK /\ AnswerInv
  BY DEF ConversationInv
<1>2. ASSUME NEW r \in Requests, ProgramWrites(r)
      PROVE  Promise!Next \/ UNCHANGED Promise!vars
  BY <1>1, <1>2, AskStep DEF ProgramWrites, WriteMessages, socketVars, serverVars, Over
<1>3. ASSUME NEW all \in BOOLEAN, ClientOnWrite(all)
      PROVE  Promise!Next \/ UNCHANGED Promise!vars
  BY <1>1, <1>3, AskStep DEF ClientOnWrite, serverVars, Over
<1>4. CASE ClientOnRead
  <2>1. PICK r : r = answers[read + 1].of
    OBVIOUS
  <2> SUFFICES ASSUME Listened(r) PROVE Promise!Next \/ UNCHANGED Promise!vars
    <3>1. CASE Again(r)
      <4>1. UNCHANGED <<got, written, socketVars, serverVars>>
        BY <1>4, <2>1, <3>1, OnReadDrops DEF ClientOnRead
      <4> QED
        BY <1>1, <4>1, AskStep DEF Over, socketVars, serverVars
    <3> QED
      BY <1>4, <2>1, <3>1, ReadsAnswer
  <2>2. /\ r \in Requests /\ got[r] = <<>> /\ read + 1 \in 1..Len(answers)
        /\ got' = [got EXCEPT ![r] = <<r>>]
        /\ WriteMessages(AfterAnswer[r])
    BY <1>4, <2>1, ReadsAnswer, OnReadFinds
  <2>3. peer = "open" /\ UNCHANGED <<socketVars, serverVars>>
    BY <1>4 DEF ClientOnRead
  <2>4. Answered(r) /\ {q \in Requests : Answered(q)}' = {q \in Requests : Answered(q)}
    BY <2>1, <2>2, <2>3 DEF Answered, serverVars
  <2>5. ~Over /\ Over' = Over
    BY <2>3 DEF Over, ConversationInv, ClientLeftFirst, socketVars, serverVars
  <2>6. written \subseteq written' /\ written' \in SUBSET Requests
    BY <1>1, <2>2 DEF WriteMessages, ConversationTypeOK
  <2>7. Promise!Answer(r)
    BY <2>2, <2>4, <2>5, <2>6 DEF Promise!Answer, Promise!AskMore
  <2> QED
    BY <2>2, <2>7 DEF Promise!Next
<1>5. CASE ClientGone
  <2>1. Over' = TRUE /\ UNCHANGED <<written, got, answers>>
    BY <1>5 DEF ClientGone, Over, serverVars
  <2>2. {q \in Requests : Answered(q)}' = {q \in Requests : Answered(q)}
    BY <2>1 DEF Answered
  <2> QED
    BY <2>1, <2>2 DEF Promise!Next, Promise!End
<1>6. CASE ServerOnRead
  <2>1. PICK r : r = Head(toServer)
    OBVIOUS
  <2>2. /\ toServer # <<>> /\ Dispatch(r) /\ UNCHANGED <<clientVars, sent, peer, killed>>
    BY <1>6, <2>1 DEF ServerOnRead
  <2>3. r \in waiting /\ Handles(r) /\ UNCHANGED <<conn, crashed>>
    BY <1>1, <2>2, DispatchHandles
  <2>4. r \in Requests /\ ~Answered(r)
    BY <2>3, WaitingHasNot
  <2>5. r \in written \ FromSend
    BY <2>1, <2>2, TailMembers DEF ConversationInv, ConversationTypeOK, OnePlace, Underway
  <2>6. answers' # answers => ToBeAnswered(r)
    BY <2>2 DEF Dispatch, DispatchRefused, DispatchOrder, DispatchCheapOrder,
      DispatchLater, DispatchStub, DispatchReplyingStub, DispatchAsyncStub, ToBeAnswered, Refused
  <2>7. Over' = Over /\ UNCHANGED <<written, got>>
    BY <2>2, <2>3 DEF Over, clientVars
  <2> QED
    BY <2>3, <2>4, <2>5, <2>6, <2>7, ServeStep
<1>7. CASE ServerCallback
  <2>1. PICK r \in Requests : LaterReplies(r) \/ ClosureRuns(r)
    BY <1>7 DEF ServerCallback
  <2>2. UNCHANGED <<clientVars, socketVars>> /\ ~crashed
    BY <1>7 DEF ServerCallback, ServerAlive
  <2>3. r \in kept \ waiting /\ Handles(r) /\ (crashed' # crashed => conn = "gone")
    BY <1>1, <2>1, CallbackHandles
  <2>4. r \in written \ FromSend
    BY <2>3 DEF ConversationInv, OnePlace
  <2>5. answers' # answers => ~Answered(r) /\ ToBeAnswered(r)
    BY <1>1, <2>1, <2>3 DEF LaterReplies, ClosureRuns, AnswerInv, OwesAnswer,
      ToBeAnswered, Refused
  <2>6. crashed' # crashed => peer # "open"
    BY <2>3 DEF ConversationInv, ClientLeftFirst
  <2>7. Over' = Over /\ UNCHANGED <<written, got>>
    BY <2>2, <2>6 DEF Over, clientVars, socketVars
  <2> QED
    BY <2>3, <2>4, <2>5, <2>7, ServeStep
<1>8. CASE ServerOnWrite
  BY <1>1, <1>8, AskStep DEF ServerOnWrite, ServerAlive, Over, clientVars, serverVars,
    ConversationTypeOK
<1>9. CASE ServerLeft
  BY <1>1, <1>9, AskStep DEF ServerLeft, ClientLeaves, Collected, Over, clientVars,
    socketVars
<1>10. CASE UNCHANGED allVars
  BY <1>1, <1>10, AskStep DEF allVars, Over, clientVars, socketVars, serverVars
<1> QED
  BY <1>2, <1>3, <1>4, <1>5, <1>6, <1>7, <1>8, <1>9, <1>10 DEF ConversationNext

(* A callback is run once at most, with the answer to its own request and
   after the server has served that, and never once the connection is over
   (tcp_connection.cc 202-222 against rpc_dispatcher.cc 40-136).           *)
THEOREM ConversationKeepsPromise == ConversationSpec => Promise!Safety
<1>1. ConversationInit => Promise!Init
  BY DEF ConversationInit, Init, Promise!Init, Answered, Over
<1>2. ConversationInv /\ ConversationInv' /\ [ConversationNext]_allVars
        => [Promise!Next]_(Promise!vars)
  BY PromiseStep
<1> QED
  BY <1>1, <1>2, ConversationHolds, PTL DEF ConversationSpec, Promise!Safety


-----------------------------------------------------------------------------
(* What is sent.                                                           *)

(* What was written, though not by a send callback, is on its way to the
   server as long as it was not dispatched and the client stays.           *)
Carried == peer = "open" => (written \cap waiting) \ FromSend \subseteq Underway

(* Each step keeps it: a request leaves one queue only for the next, or to be
   dispatched.                                                             *)
LEMMA CarriedNext == ConversationInv /\ Carried /\ [ConversationNext]_allVars => Carried'
<1> SUFFICES ASSUME ConversationInv, Carried, [ConversationNext]_allVars, peer' = "open"
             PROVE  (written' \cap waiting') \ FromSend \subseteq Underway'
  BY DEF Carried
<1>1. /\ sendCb \in Seq(Requests) /\ unsent \in Seq(Requests) /\ toServer \in Seq(Requests)
      /\ AnswerInv
  BY DEF ConversationInv, ConversationTypeOK
<1>2. ASSUME NEW rs \in Seq(Requests), WriteMessages(rs),
             UNCHANGED <<unsent, toServer, waiting, peer>>
      PROVE  (written' \cap waiting') \ FromSend \subseteq Underway'
  <2>1. ToSet(sendCb') = ToSet(sendCb) \cup ToSet(rs) /\ written' = written \cup ToSet(rs)
    BY <1>1, <1>2, ConcatMembers DEF WriteMessages
  <2> QED
    BY <1>2, <2>1 DEF Carried, Underway
<1>3. ASSUME NEW r \in Requests, ProgramWrites(r)
      PROVE  (written' \cap waiting') \ FromSend \subseteq Underway'
  BY <1>2, <1>3, SingleMember DEF ProgramWrites, socketVars, serverVars, callVars
<1>4. ASSUME NEW all \in BOOLEAN, ClientOnWrite(all)
      PROVE  (written' \cap waiting') \ FromSend \subseteq Underway'
  <2>1. PICK encoded, pushed :
          /\ encoded = unsent \o sendCb
          /\ pushed = UNION {ToSet(AfterSend[r]) : r \in ToSet(sendCb)}
          /\ unsent' = IF all THEN <<>> ELSE encoded
          /\ toServer' = IF all THEN toServer \o encoded ELSE toServer
          /\ written' = written \cup pushed
          /\ UNCHANGED <<peer, serverVars>>
    BY <1>4 DEF ClientOnWrite
  <2>2. pushed \subseteq FromSend
    BY <1>1, <2>1, MembersType DEF FromSend
  <2>3. encoded \in Seq(Requests) /\ ToSet(encoded) = ToSet(unsent) \cup ToSet(sendCb)
    BY <1>1, <2>1, ConcatMembers
  <2>4. Underway \subseteq ToSet(unsent') \cup ToSet(toServer')
    <3>1. CASE all
      <4>1. ToSet(toServer') = ToSet(toServer) \cup ToSet(encoded)
        BY <1>1, <2>1, <2>3, <3>1, ConcatMembers
      <4> QED
        BY <2>3, <4>1 DEF Underway
    <3>2. CASE ~all
      BY <2>1, <2>3, <3>2 DEF Underway
    <3> QED
      BY <3>1, <3>2
  <2>5. waiting' = waiting /\ peer = "open"
    BY <2>1 DEF serverVars, callVars
  <2> QED
    BY <2>1, <2>2, <2>4, <2>5 DEF Carried, Underway
<1>5. CASE ClientOnRead
  <2>1. PICK r : r = answers[read + 1].of
    OBVIOUS
  <2>5. CASE Again(r)
    <3>1. UNCHANGED <<written, sendCb, unsent, toServer, waiting, peer>>
      BY <1>5, <2>1, <2>5, OnReadDrops DEF ClientOnRead, socketVars, serverVars, callVars
    <3> QED
      BY <3>1 DEF Carried, Underway
  <2> SUFFICES ASSUME Listened(r)
               PROVE  (written' \cap waiting') \ FromSend \subseteq Underway'
    BY <1>5, <2>1, <2>5, ReadsAnswer
  <2>2. r \in Requests /\ WriteMessages(AfterAnswer[r])
    BY <1>5, <2>1, ReadsAnswer, OnReadFinds
  <2>3. AfterAnswer[r] \in Seq(Requests)
    BY <2>2, ClientAssumption
  <2>4. UNCHANGED <<unsent, toServer, waiting, peer>>
    BY <1>5 DEF ClientOnRead, socketVars, serverVars, callVars
  <2> QED
    BY <1>2, <2>2, <2>3, <2>4
<1>6. CASE ClientGone
  BY <1>6 DEF ClientGone
<1>7. CASE ServerOnRead
  <2>1. PICK r : r = Head(toServer) /\ Dispatch(r) /\ toServer # <<>>
    BY <1>7 DEF ServerOnRead
  <2>2. toServer' = Tail(toServer) /\ UNCHANGED <<clientVars, peer>>
    BY <1>7 DEF ServerOnRead
  <2>3. ToSet(toServer') = ToSet(toServer) \ {r}
    BY <1>1, <2>1, <2>2, TailMembers DEF ConversationInv, OnePlace
  <2>4. waiting' = waiting \ {r}
    BY <1>1, <2>1, DispatchHandles DEF Handles
  <2> QED
    BY <2>2, <2>3, <2>4 DEF Carried, Underway, clientVars
<1>8. CASE ServerCallback
  <2>1. PICK r \in Requests : LaterReplies(r) \/ ClosureRuns(r)
    BY <1>8 DEF ServerCallback
  <2>2. waiting' = waiting \ {r}
    BY <1>1, <2>1, CallbackHandles DEF Handles
  <2>3. UNCHANGED <<clientVars, socketVars>>
    BY <1>8 DEF ServerCallback
  <2> QED
    BY <2>2, <2>3 DEF Carried, Underway, clientVars, socketVars
<1>9. CASE ServerOnWrite \/ ServerLeft \/ UNCHANGED allVars
  <2>1. UNCHANGED <<clientVars, toServer, waiting>> /\ peer = "open"
    BY <1>9 DEF ServerOnWrite, ServerLeft, ClientLeaves, Collected, socketVars,
      serverVars, callVars, allVars
  <2> QED
    BY <2>1 DEF Carried, Underway, clientVars
<1> QED
  BY <1>3, <1>4, <1>5, <1>6, <1>7, <1>8, <1>9 DEF ConversationNext

(* Only what a send callback writes can be lost with the collection of
   callbacks (tcp_connection.cc 248-302): while client and server are there, every
   other request that was written is in the collection, in the client's
   buffer or in the socket until it is dispatched.                         *)
THEOREM OnlySendCallbacksLose == ConversationSpec => []OnlyPushedAreLost
<1>1. ConversationInit => Carried
  BY DEF ConversationInit, Carried
<1>2. Carried => OnlyPushedAreLost
  BY DEF Carried, Underway, Over, OnlyPushedAreLost
<1> QED
  BY <1>1, <1>2, CarriedNext, ConversationHolds, PTL DEF ConversationSpec

(* So a program whose send callbacks write nothing has all it has written
   sent.                                                                   *)
THEOREM WrittenAreSent ==
  ASSUME FromSend = {}
  PROVE  ConversationSpec => []WrittenIsSent
<1>1. OnlyPushedAreLost => WrittenIsSent
  BY DEF WrittenIsSent, OnlyPushedAreLost
<1> QED
  BY <1>1, OnlySendCallbacksLose, PTL


-----------------------------------------------------------------------------
(* Who is not answered.                                                    *)

(* A dispatched request that there is an answer for has it, or its service
   keeps what will send it.                                                *)
InHand(r) == Answered(r) \/ (r \in kept /\ Kind[r] = "later")

Served == ~crashed => \A r \in Requests \ waiting : ToBeAnswered(r) => InHand(r)

(* A handler takes an answer back from nobody, and only its own request from
   those that are kept.                                                    *)
LEMMA HandlerServes ==
  ASSUME AnswerInv, Served, ~crashed', ~crashed, NEW r \in Requests, Handles(r),
         ToBeAnswered(r) =>
           \/ Replies(r)
           \/ InHand(r)'
  PROVE  Served'
<1>1. answers \in Seq(Answer)
  BY DEF AnswerInv, TypeOK, Answer
<1>2. ASSUME NEW q \in Requests, Answered(q) PROVE Answered(q)'
  <2>1. PICK i \in 1..Len(answers) : answers[i].of = q
    BY <1>2 DEF Answered
  <2>2. CASE answers' = answers
    BY <2>1, <2>2 DEF Answered
  <2>3. CASE Replies(r)
    <3>1. i \in 1..Len(answers') /\ answers'[i] = answers[i]
      BY <1>1, <2>1, <2>3 DEF Replies
    <3> QED
      BY <2>1, <3>1 DEF Answered
  <2> QED
    BY <2>2, <2>3 DEF Handles
<1>3. ASSUME Replies(r) PROVE Answered(r)'
  <2>1. /\ Len(answers') \in Len(answers) + 1 .. Len(answers')
        /\ Len(answers') \in 1..Len(answers')
    BY <1>1, <1>3 DEF Replies
  <2> QED
    BY <1>3, <2>1 DEF Answered, Replies
<1>4. ASSUME NEW q \in Requests \ waiting', ToBeAnswered(q) PROVE InHand(q)'
  <2>1. CASE q = r
    BY <1>3, <1>4, <2>1 DEF InHand
  <2>2. CASE q # r
    <3>1. q \notin waiting
      BY <1>4, <2>2 DEF Handles
    <3> QED
      BY <1>2, <1>4, <2>2, <3>1 DEF Served, InHand, Handles
  <2> QED
    BY <2>1, <2>2
<1> QED
  BY <1>4 DEF Served, ToBeAnswered

(* Each step of the server keeps it.                                       *)
LEMMA ServedNext == AnswerInv /\ Served /\ [Next]_vars => Served'
<1> SUFFICES ASSUME AnswerInv, Served, [Next]_vars, ~crashed' PROVE Served'
  BY DEF Served
<1>1. CASE \E r \in Requests : Step(r)
  <2>1. PICK r \in Requests : Dispatch(r) \/ LaterReplies(r) \/ ClosureRuns(r)
    BY <1>1 DEF Step
  <2>2. ~crashed
    <3>1. CASE UNCHANGED vars
      BY <3>1 DEF vars
    <3>2. CASE Next
      BY <3>2 DEF Next
    <3> QED
      BY <3>1, <3>2
  <2>3. CASE Dispatch(r)
    BY <2>1, <2>2, <2>3, DispatchHandles, HandlerServes DEF InHand
  <2>4. CASE LaterReplies(r)
    <3>1. Kind[r] = "later"
      BY <2>4 DEF LaterReplies
    <3> QED
      BY <2>2, <2>4, <3>1, CallbackHandles, HandlerServes
  <2>5. CASE ClosureRuns(r)
    <3>1. /\ r \in kept \ waiting /\ Handles(r) /\ answers' = answers
          /\ Kind[r] = "asyncStub"
      BY <2>5, CallbackHandles DEF ClosureRuns
    <3>2. ToBeAnswered(r) => InHand(r)'
      BY <2>2, <3>1 DEF Served, InHand, Answered
    <3> QED
      BY <2>2, <3>1, <3>2, HandlerServes
  <2> QED
    BY <2>1, <2>3, <2>4, <2>5
<1>2. CASE ClientLeaves \/ Collected \/ UNCHANGED vars
  <2>1. UNCHANGED <<waiting, kept, answers, crashed>>
    BY <1>2 DEF ClientLeaves, Collected, callVars, vars
  <2> QED
    BY <2>1 DEF Served, InHand, Answered, ToBeAnswered
<1> QED
  BY <1>1, <1>2 DEF Next

(* Dispatch leaves without an answer only the requests it refuses
   (rpc_dispatcher.cc 56-94) and those whose service neither calls done nor
   keeps it (test_rpc_server.cc 47-52): as long as the process is there,
   every other one that was dispatched has its answer, or a service keeps the
   closure that will make it.                                              *)
THEOREM OnlyRefusedUnanswered ==
  ConversationSpec =>
    [](~crashed => \A r \in Requests \ waiting :
         ToBeAnswered(r) => Answered(r) \/ (r \in kept /\ Kind[r] = "later"))
<1>1. ConversationInit => Served
  BY DEF ConversationInit, Init, Served
<1>2. ConversationInv /\ Served /\ [ConversationNext]_allVars => Served'
  BY ServerStep, ServedNext DEF ConversationInv, AnswerInv
<1>3. Served => (~crashed => \A r \in Requests \ waiting :
         ToBeAnswered(r) => Answered(r) \/ (r \in kept /\ Kind[r] = "later"))
  BY DEF Served, InHand
<1> QED
  BY <1>1, <1>2, <1>3, ConversationHolds, PTL DEF ConversationSpec
=============================================================================
