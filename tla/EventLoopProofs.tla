-------------------------- MODULE EventLoopProofs ---------------------------
(***************************************************************************)
(* What is proved about module EventLoop for any number of threads,        *)
(* descriptors, events per pass and calls: its types, that a callback of   *)
(* another thread is only ever left without a wake-up by the wake-up       *)
(* handler, that it executes callbacks once and in order, and that no      *)
(* handler waits twice for the same kind of event.                         *)
(***************************************************************************)
EXTENDS EventLoop, SequenceTheorems, TLAPS

LEMMA SafetySpec == Spec => Init /\ [][Next]_vars
PROOF BY PTL DEF Spec

(* The kinds of the callbacks are what Task says, whoever hands them over. *)
LEMMA TaskTypes ==
  /\ \A f \in AllFds, k \in {"add", "del", "IN", "OUT"} :
       [kind |-> k, fd |-> f] \in Task
  /\ \A t \in Task : t.kind \in {"add", "del", "IN", "OUT"} /\ t.fd \in AllFds
PROOF BY DEF Task

(* Dropping an event from the head of the reported events leaves them typed. *)
LEMMA HeadWithoutType ==
  ASSUME resultEvent \in Seq([fd : AllFds, events : SUBSET Events]),
         resultEvent # <<>>, NEW e
  PROVE  HeadWithout(e) \in Seq([fd : AllFds, events : SUBSET Events])
<1> DEFINE R == [fd : AllFds, events : SUBSET Events]
<1>1. 1 \in 1..Len(resultEvent)
  BY EmptySeq
<1>2. resultEvent[1] \in R
  BY <1>1, ElementOfSeq
<1>3. [resultEvent[1] EXCEPT !.events = @ \ {e}] \in R
  BY <1>2
<1>4. HeadWithout(e) =
        [resultEvent EXCEPT ![1] = [resultEvent[1] EXCEPT !.events = @ \ {e}]]
  BY DEF HeadWithout
<1> QED
  BY <1>1, <1>3, <1>4, ExceptSeq

(* What epoll_wait returns is a sequence of reports, whatever order it has. *)
LEMMA ReportsType ==
  ASSUME TypeOK, NEW n \in Nat, NEW fds \in [1..n -> Triggered]
  PROVE  [i \in 1..n |-> [fd |-> fds[i], events |-> Occurred(fds[i])]]
           \in Seq([fd : AllFds, events : SUBSET Events])
<1>1. Triggered \subseteq AllFds
  BY DEF Triggered, TypeOK
<1>2. \A f \in AllFds : Occurred(f) \in SUBSET Events
  BY DEF Occurred, TypeOK, AllFds, Events
<1> QED
  BY <1>1, <1>2, SeqDef

(* The constructor establishes the types.                                  *)
LEMMA TypeInit == Init => TypeOK
<1> SUFFICES ASSUME Init PROVE TypeOK
  OBVIOUS
<1>1. pendingTask \in Seq(Task) /\ tmpTask \in Seq(Task)
      /\ resultEvent \in Seq([fd : AllFds, events : SUBSET Events])
  BY EmptySeq DEF Init
<1>2. callBack \in [Threads -> Task]
  BY TaskTypes DEF Init, AllFds
<1>3. pc \in [Threads -> PCs] /\ stage \in Stages
  BY DEF Init, PCs, Stages
<1>4. calls \in [Callers -> 0..MaxCalls]
  BY MaxCallsAssumption DEF Init
<1>5. /\ DOMAIN interest \in SUBSET AllFds
      /\ \A f \in DOMAIN interest : interest[f] \in Masks
  BY DEF Init, InitWakeUpFdEvent, AllFds, Masks
<1> QED
  BY <1>1, <1>2, <1>3, <1>4, <1>5 DEF Init, InitWakeUpFdEvent, TypeOK

(* Every step of every thread and of the kernel keeps them.                *)
LEMMA TypeNext == TypeOK /\ [Next]_vars => TypeOK'
<1> SUFFICES ASSUME TypeOK, [Next]_vars PROVE TypeOK'
  OBVIOUS
<1> USE DEF TypeOK, loopVars, queueVars, callVars, epollVars
<1>1. CASE LoopStart
  BY <1>1 DEF LoopStart, GoTo, Stages
<1>2. CASE LoopCheck
  BY <1>2 DEF LoopCheck, GoTo, Stages
<1>3. CASE LoopLock
  BY <1>3 DEF LoopLock, GoTo, Stages
<1>4. CASE LoopSwap
  BY <1>4, EmptySeq DEF LoopSwap, GoTo, Stages
<1>5. CASE LoopUnlock
  BY <1>5 DEF LoopUnlock, GoTo, Stages
<1>6. ASSUME tmpTask # <<>>
      PROVE  Head(tmpTask) \in Task /\ Tail(tmpTask) \in Seq(Task)
  BY <1>6, HeadTailProperties
<1>7. ASSUME NEW f \in AllFds, NEW mask \in Masks
      PROVE  /\ DOMAIN Listened(f, mask) \in SUBSET AllFds
             /\ \A g \in DOMAIN Listened(f, mask) :
                  Listened(f, mask)[g] \in Masks
  BY DEF Listened
<1>8. ASSUME NEW f
      PROVE  /\ DOMAIN NotListened(f) \in SUBSET AllFds
             /\ \A g \in DOMAIN NotListened(f) : NotListened(f)[g] \in Masks
  BY DEF NotListened
<1>9. CASE RunAdd
  BY <1>9, <1>6, <1>7, TaskTypes DEF RunAdd, PopTask
<1>10. CASE RunDelete
  BY <1>10, <1>6, <1>8, TaskTypes DEF RunDelete, PopTask
<1>11. CASE RunWakeup
  BY <1>11, <1>6 DEF RunWakeup, PopTask
<1>12. ASSUME PopHandler
       PROVE  /\ tmpTask' \in Seq(Task) /\ ready' \in [Fds -> SUBSET Events]
              /\ Head(tmpTask).fd \in AllFds
              /\ UNCHANGED <<stage, resultEvent, queueVars, callVars, wakeRead>>
  BY <1>12, <1>6, TaskTypes DEF PopHandler, PopTask
<1>13. CASE RunHandler
  BY <1>13, <1>12 DEF RunHandler
<1>14. CASE RunHandlerAdd
  BY <1>14, <1>12, <1>7 DEF RunHandlerAdd
<1>15. CASE RunHandlerDelete
  BY <1>15, <1>12, <1>8 DEF RunHandlerDelete
<1>16. CASE RunHandlerStop
  BY <1>16, <1>12 DEF RunHandlerStop
<1>17. CASE DrainDone
  BY <1>17 DEF DrainDone, GoTo, Stages
<1>18. CASE EpollReturns
  <2>1. PICK n \in 1..EpollMaxEvent : \E fds \in [1..n -> Triggered] :
          resultEvent' =
            [i \in 1..n |-> [fd |-> fds[i], events |-> Occurred(fds[i])]]
    BY <1>18 DEF EpollReturns
  <2>2. n \in Nat
    BY EpollMaxEventAssumption
  <2>3. PICK fds \in [1..n -> Triggered] :
          resultEvent' =
            [i \in 1..n |-> [fd |-> fds[i], events |-> Occurred(fds[i])]]
    BY <2>1
  <2>4. resultEvent' \in Seq([fd : AllFds, events : SUBSET Events])
    <3> HIDE DEF TypeOK
    <3> QED
      BY <2>2, <2>3, ReportsType
  <2> QED
    BY <1>18, <2>4 DEF EpollReturns, GoTo, Stages
<1>19. CASE EpollTimesOut
  BY <1>19 DEF EpollTimesOut, GoTo, Stages
<1>20. ASSUME NEW e \in {"IN", "OUT"}, QueueHandler(e), resultEvent # <<>>
       PROVE  TypeOK'
  <2>1. Head(resultEvent).fd \in AllFds
    <3>1. Head(resultEvent) \in [fd : AllFds, events : SUBSET Events]
      BY <1>20, HeadTailProperties
    <3> QED
      BY <3>1
  <2> QED
    BY <1>20, <2>1, HeadWithoutType, TaskTypes
    DEF QueueHandler, Threads, PCs
<1>21. CASE DispatchIn
  BY <1>21, <1>20 DEF DispatchIn, Dispatching
<1>22. CASE DispatchOut
  BY <1>22, <1>20 DEF DispatchOut, Dispatching
<1>23. CASE DispatchErr
  BY <1>23, <1>8, HeadWithoutType DEF DispatchErr, Dispatching
<1>24. CASE DispatchNext
  BY <1>24, HeadTailProperties DEF DispatchNext, Dispatching
<1>25. CASE DispatchDone
  BY <1>25 DEF DispatchDone, GoTo, Stages
<1>26. CASE LoopDestroy
  BY <1>26 DEF LoopDestroy, GoTo, Stages
<1>27. ASSUME NEW t \in Threads, AddTaskToQueue(t)
       PROVE  TypeOK'
  <2>1. CASE AddTaskLock(t)
    BY <2>1 DEF AddTaskLock, PCs
  <2>2. CASE AddTaskPush(t)
    BY <2>2, AppendProperties DEF AddTaskPush, PCs
  <2>3. CASE AddTaskUnlock(t)
    BY <2>3 DEF AddTaskUnlock, PCs
  <2>4. CASE AddTaskWakeup(t)
    BY <2>4 DEF AddTaskWakeup, PCs
  <2>5. CASE AddTaskDestroy(t)
    BY <2>5 DEF AddTaskDestroy, PCs
  <2> QED
    BY <1>27, <2>1, <2>2, <2>3, <2>4, <2>5 DEF AddTaskToQueue
<1>28. ASSUME NEW c \in Callers, StopWakeup(c)
       PROVE  TypeOK'
  BY <1>28 DEF StopWakeup, PCs, Threads
<1>29. ASSUME NEW c \in Callers, NEW k \in {"add", "del"}, NEW f \in Fds,
              QueueEpollChange(c, k, f)
       PROVE  TypeOK'
  <2>1. [kind |-> k, fd |-> f] \in Task
    BY <1>29, TaskTypes DEF AllFds
  <2>2. calls' \in [Callers -> 0..MaxCalls]
    BY <1>29, MaxCallsAssumption DEF QueueEpollChange, BeginCall
  <2>3. callBack' \in [Threads -> Task] /\ pc' \in [Threads -> PCs]
    BY <1>29, <2>1 DEF QueueEpollChange, BeginCall, PCs, Threads
  <2> QED
    BY <1>29, <2>2, <2>3 DEF QueueEpollChange
<1>30. ASSUME NEW c \in Callers, StopRaiseFlag(c)
       PROVE  TypeOK'
  BY <1>30, MaxCallsAssumption DEF StopRaiseFlag, BeginCall, PCs, Threads
<1>31. ASSUME NEW f \in Fds, Arrive(f)
       PROVE  TypeOK'
  BY <1>31 DEF Arrive
<1>32. CASE UNCHANGED vars
  BY <1>32 DEF vars
<1>33. LoopThread \in Threads /\ Callers \subseteq Threads
  BY DEF Threads
<1> QED
  BY <1>1, <1>2, <1>3, <1>4, <1>5, <1>9, <1>10, <1>11, <1>13, <1>14, <1>15,
     <1>16, <1>17, <1>18, <1>19, <1>21, <1>22, <1>23, <1>24, <1>25, <1>26,
     <1>27, <1>28, <1>29, <1>30, <1>31, <1>32, <1>33
  DEF Next, LoopStep, CallerStep, NewCall, AddEpollEvent, DeleteEpollEvent

(* Every variable has its type, for any number of threads, descriptors,
   events per pass and calls: the loop never dispatches a report that is not
   one, and every registered descriptor listens to something.              *)
THEOREM TypeCorrect == Spec => []TypeOK
BY TypeInit, TypeNext, SafetySpec, PTL

-----------------------------------------------------------------------------
(* A step either leaves both queues alone, and then forgets no wake-up that
   is written or still to be written and does not bring the loop back to
   life; or it is a push, the swap, or the execution of one callback.      *)
QuietStep ==
  /\ UNCHANGED <<pendingTask, tmpTask>>
  /\ eventfd => eventfd'
  /\ wakeRead => wakeRead'
  /\ \A c \in Callers : pc[c] \in {"unlock", "wake"}
       => pc'[c] \in {"unlock", "wake"} \/ eventfd'
  /\ stage = "exited" => stage' = "exited"
  /\ stage' \notin {"unlock", "drain"}
       => stage \notin {"unlock", "drain"} \/ tmpTask = <<>>
  /\ ~Raced \/ UNCHANGED vars

PopStep ==
  /\ stage = "drain"
  /\ tmpTask # <<>>
  /\ tmpTask' = Tail(tmpTask)
  /\ UNCHANGED <<stage, pc, pendingTask>>
  /\ wakeRead' \/ ((eventfd => eventfd') /\ (wakeRead => wakeRead'))

LEMMA StepCases ==
  ASSUME TypeOK, [Next]_vars
  PROVE  \/ QuietStep
         \/ /\ ~Raced
            /\ LoopSwap \/ PopStep \/ \E t \in Threads : AddTaskPush(t)
<1> USE DEF QuietStep, loopVars, queueVars, callVars, epollVars
<1>1. CASE UNCHANGED vars
  BY <1>1 DEF vars
<1>0. Raced => UNCHANGED vars
  BY Zenon DEF Next, Finished
<1> SUFFICES ASSUME ~Raced, ~UNCHANGED vars
             PROVE  QuietStep \/ LoopSwap \/ PopStep
                    \/ \E t \in Threads : AddTaskPush(t)
  BY <1>0, <1>1
<1>2. CASE LoopStart \/ LoopCheck \/ LoopLock \/ LoopUnlock \/ DrainDone
  BY <1>2 DEF LoopStart, LoopCheck, LoopLock, LoopUnlock, DrainDone, GoTo
<1>3. CASE RunAdd \/ RunDelete
  BY <1>3 DEF RunAdd, RunDelete, PopTask, PopStep
<1>4. CASE RunWakeup
  BY <1>4 DEF RunWakeup, PopTask, PopStep
<1>5. CASE RunHandler \/ RunHandlerAdd \/ RunHandlerDelete \/ RunHandlerStop
  BY <1>5 DEF RunHandler, RunHandlerAdd, RunHandlerDelete, RunHandlerStop,
     PopHandler, PopTask, PopStep
<1>6. CASE EpollReturns \/ EpollTimesOut \/ DispatchDone \/ LoopDestroy
  BY <1>6 DEF EpollReturns, EpollTimesOut, DispatchDone, LoopDestroy, GoTo
<1>7. CASE DispatchErr \/ DispatchNext
  BY <1>7 DEF DispatchErr, DispatchNext
<1>8. ASSUME NEW e, QueueHandler(e), pc[LoopThread] = "idle" PROVE QuietStep
  BY <1>8, ThreadsAssumption DEF QueueHandler, TypeOK, Threads
<1>9. CASE DispatchIn \/ DispatchOut
  BY <1>8, <1>9 DEF DispatchIn, DispatchOut, Dispatching
<1>10. ASSUME NEW t \in Threads,
              AddTaskLock(t) \/ AddTaskWakeup(t) \/ AddTaskDestroy(t)
       PROVE  QuietStep
  BY <1>10 DEF AddTaskLock, AddTaskWakeup, AddTaskDestroy, TypeOK, Threads
<1>11. ASSUME NEW t \in Threads, AddTaskUnlock(t) PROVE QuietStep
  BY <1>11, ThreadsAssumption DEF AddTaskUnlock, TypeOK, Threads
<1>12. ASSUME NEW c \in Callers, StopWakeup(c) PROVE QuietStep
  BY <1>12 DEF StopWakeup, TypeOK, Threads
<1>13. ASSUME NEW c \in Callers, NEW k, NEW f, QueueEpollChange(c, k, f)
       PROVE  QuietStep
  BY <1>13 DEF QueueEpollChange, BeginCall, TypeOK, Threads
<1>14. ASSUME NEW c \in Callers, StopRaiseFlag(c) PROVE QuietStep
  BY <1>14 DEF StopRaiseFlag, BeginCall, TypeOK, Threads
<1>15. ASSUME NEW f \in Fds, Arrive(f) PROVE QuietStep
  BY <1>15 DEF Arrive
<1>16. LoopThread \in Threads /\ Callers \subseteq Threads
  BY DEF Threads
<1> QED
  BY <1>2, <1>3, <1>4, <1>5, <1>6, <1>7, <1>9, <1>10, <1>11, <1>12, <1>13,
     <1>14, <1>15, <1>16
  DEF Next, LoopStep, CallerStep, NewCall, AddTaskToQueue, AddEpollEvent,
      DeleteEpollEvent

-----------------------------------------------------------------------------
(* The loop thread itself hands over nothing but handlers.                 *)
LoopQueuesHandlers == callBack[LoopThread].kind \in {"IN", "OUT"}

LEMMA LoopQueuesHandlersNext ==
  ASSUME TypeOK, LoopQueuesHandlers, [Next]_vars
  PROVE  LoopQueuesHandlers'
<1> USE DEF LoopQueuesHandlers, loopVars, queueVars, callVars, epollVars
<1>1. CASE UNCHANGED callBack
  BY <1>1
<1>2. CASE DispatchIn \/ DispatchOut
  BY <1>2 DEF DispatchIn, DispatchOut, QueueHandler, TypeOK, Threads
<1>3. ASSUME NEW c \in Callers, NEW k, NEW f, QueueEpollChange(c, k, f)
      PROVE  LoopQueuesHandlers'
  BY <1>3, ThreadsAssumption DEF QueueEpollChange, TypeOK, Threads
<1>4. CASE UNCHANGED vars
  BY <1>1, <1>4 DEF vars
<1>5. LoopStep => UNCHANGED callBack \/ DispatchIn \/ DispatchOut
  BY DEF LoopStep, LoopStart, LoopCheck, LoopLock, LoopSwap, LoopUnlock, RunAdd,
     RunDelete, RunWakeup, RunHandler, RunHandlerAdd, RunHandlerDelete,
     RunHandlerStop, PopHandler, PopTask, DrainDone, EpollReturns,
     EpollTimesOut, DispatchErr, DispatchNext, DispatchDone, LoopDestroy,
     AddTaskToQueue, AddTaskLock, AddTaskPush, AddTaskUnlock, AddTaskWakeup,
     AddTaskDestroy
<1>6. ASSUME NEW c \in Callers, CallerStep(c) \/ StopRaiseFlag(c)
      PROVE  UNCHANGED callBack
  BY <1>6 DEF CallerStep, StopWakeup, StopRaiseFlag, BeginCall, AddTaskToQueue,
     AddTaskLock, AddTaskPush, AddTaskUnlock, AddTaskWakeup, AddTaskDestroy
<1>7. ASSUME NEW f \in Fds, Arrive(f) PROVE UNCHANGED callBack
  BY <1>7 DEF Arrive
<1> QED
  BY <1>1, <1>2, <1>3, <1>4, <1>5, <1>6, <1>7
  DEF Next, NewCall, AddEpollEvent, DeleteEpollEvent

WakeupInv == TypeOK /\ LoopQueuesHandlers /\ PendingTaskHasWakeup

(* A callback of another thread is never left in the queue without a pending
   wake-up, unless the wake-up handler has run since the last swap
   (AddTaskToQueue pushes before it writes the eventfd).                   *)
THEOREM WakeupPending == Spec => []PendingTaskHasWakeup
<1>1. Init => WakeupInv
  BY TypeInit DEF Init, InitWakeUpFdEvent, WakeupInv, LoopQueuesHandlers, PendingTaskHasWakeup,
     Threads
<1>2. WakeupInv /\ [Next]_vars => WakeupInv'
  <2> SUFFICES ASSUME WakeupInv, [Next]_vars PROVE PendingTaskHasWakeup'
    BY TypeNext, LoopQueuesHandlersNext DEF WakeupInv
  <2> USE DEF PendingTaskHasWakeup
  <2>1. TypeOK
    BY DEF WakeupInv
  <2>2. CASE QuietStep
    BY <2>2 DEF QuietStep, WakeupInv
  <2>3. CASE LoopSwap
    BY <2>3 DEF LoopSwap
  <2>4. CASE PopStep
    BY <2>4 DEF PopStep, WakeupInv
  <2>5. ASSUME NEW c \in Callers, AddTaskPush(c) PROVE PendingTaskHasWakeup'
    BY <2>5, <2>1 DEF AddTaskPush, TypeOK, Threads
  <2>6. CASE AddTaskPush(LoopThread)
    <3>1. ASSUME NEW i \in 1..Len(pendingTask'),
                 pendingTask'[i].kind \in {"add", "del"}
          PROVE  i \in 1..Len(pendingTask) /\ pendingTask[i] = pendingTask'[i]
      <4>1. callBack[LoopThread] \in Task
        BY <2>1 DEF TypeOK, Threads
      <4>2. pendingTask' = Append(pendingTask, callBack[LoopThread])
        BY <2>6 DEF AddTaskPush
      <4>3. pendingTask \in Seq(Task)
        BY <2>1 DEF TypeOK
      <4>4. CASE i = Len(pendingTask) + 1
        BY <3>1, <4>1, <4>2, <4>3, <4>4, AppendProperties
        DEF WakeupInv, LoopQueuesHandlers
      <4>5. CASE i \in 1..Len(pendingTask)
        BY <4>1, <4>2, <4>3, <4>5, AppendProperties
      <4>6. i = Len(pendingTask) + 1 \/ i \in 1..Len(pendingTask)
        BY <4>1, <4>2, <4>3, AppendProperties, LenProperties
      <4> QED
        BY <4>4, <4>5, <4>6
    <3>2. \A c \in Callers : pc'[c] = pc[c]
      BY <2>1, <2>6, ThreadsAssumption DEF AddTaskPush, TypeOK, Threads
    <3> QED
      BY <2>6, <3>1, <3>2 DEF AddTaskPush, WakeupInv
  <2> QED
    BY <2>1, <2>2, <2>3, <2>4, <2>5, <2>6, StepCases DEF Threads
<1>3. WakeupInv => PendingTaskHasWakeup
  BY DEF WakeupInv
<1> QED
  BY <1>1, <1>2, <1>3, SafetySpec, PTL

-----------------------------------------------------------------------------
(* The batch is empty whenever the loop is not working it off, so that the
   swap loses nothing.                                                     *)
BatchDone == stage \notin {"unlock", "drain"} => tmpTask = <<>>

BatchInv == TypeOK /\ BatchDone

LEMMA BatchInvariant == Spec => []BatchInv
<1>1. Init => BatchInv
  BY TypeInit DEF Init, InitWakeUpFdEvent, BatchInv, BatchDone
<1>2. BatchInv /\ [Next]_vars => BatchInv'
  <2> SUFFICES ASSUME BatchInv, [Next]_vars PROVE BatchDone'
    BY TypeNext DEF BatchInv
  <2> USE DEF BatchDone
  <2>1. CASE QuietStep
    BY <2>1 DEF QuietStep, BatchInv
  <2>2. CASE LoopSwap
    BY <2>2 DEF LoopSwap, GoTo
  <2>3. CASE PopStep
    BY <2>3 DEF PopStep
  <2>4. CASE \E t \in Threads : AddTaskPush(t)
    BY <2>4 DEF AddTaskPush, loopVars, BatchInv
  <2> QED
    BY <2>1, <2>2, <2>3, <2>4, StepCases DEF BatchInv
<1> QED
  BY <1>1, <1>2, SafetySpec, PTL

(* Pushing at the end and taking from the front, seen through the
   concatenation of the batch and the shared queue.                        *)
LEMMA QueueOps ==
  ASSUME NEW b \in Seq(Task), NEW q \in Seq(Task), NEW t \in Task
  PROVE  /\ b \o Append(q, t) = Append(b \o q, t)
         /\ b # <<>> => /\ b \o q # <<>>
                        /\ Tail(b) \o q = Tail(b \o q)
         /\ q \o <<>> = <<>> \o q
<1>1. b \o Append(q, t) = Append(b \o q, t)
  BY AppendIsConcat, ConcatAssociative, ConcatProperties, AppendProperties
<1>2. q \o <<>> = <<>> \o q
  BY ConcatEmptySeq
<1>3. ASSUME b # <<>>
      PROVE  b \o q # <<>> /\ Tail(b) \o q = Tail(b \o q)
  <2>1. Len(b) \in Nat \ {0} /\ Len(q) \in Nat
    BY <1>3, EmptySeq, LenProperties
  <2>2. b \o q \in Seq(Task) /\ Len(b \o q) = Len(b) + Len(q)
    BY ConcatProperties
  <2>3. b \o q # <<>>
    BY <2>1, <2>2, EmptySeq
  <2>4. Tail(b) \in Seq(Task) /\ Len(Tail(b)) = Len(b) - 1
    BY <1>3, HeadTailProperties
  <2>5. Tail(b \o q) \in Seq(Task) /\ Len(Tail(b \o q)) = Len(b) + Len(q) - 1
    BY <2>2, <2>3, HeadTailProperties
  <2>6. Tail(b) \o q \in Seq(Task) /\ Len(Tail(b) \o q) = Len(b) + Len(q) - 1
    BY <2>1, <2>4, ConcatProperties
  <2>7. ASSUME NEW i \in 1..Len(Tail(b) \o q)
        PROVE  (Tail(b) \o q)[i] = Tail(b \o q)[i]
    <3>1. Tail(b \o q)[i] = (b \o q)[i + 1]
      BY <2>1, <2>2, <2>3, <2>5, <2>6, HeadTailProperties
    <3>2. CASE i <= Len(b) - 1
      BY <1>3, <2>1, <2>2, <2>4, <2>6, <3>1, <3>2, ConcatProperties,
         HeadTailProperties
    <3>3. CASE i > Len(b) - 1
      BY <2>1, <2>2, <2>4, <2>6, <3>1, <3>3, ConcatProperties
    <3> QED
      BY <2>1, <2>6, <3>2, <3>3
  <2> QED
    BY <2>3, <2>5, <2>6, <2>7, SeqEqual
<1> QED
  BY <1>1, <1>2, <1>3

(* The loop executes every callback once, in the order of the pushes, for
   any number of threads: it implements module TaskExecutor.               *)
THEOREM ImplementsExecutor == Spec => RefinesTaskExecutor
<1> DEFINE q == tmpTask \o pendingTask
           open == stage # "exited" /\ ~Raced
<1>1. Init => Executor!Init
  <2> SUFFICES ASSUME Init PROVE Executor!Init
    OBVIOUS
  <2>1. q = <<>>
    BY ConcatEmptySeq, EmptySeq DEF Init
  <2>2. ~Raced
    BY DEF Init, InitWakeUpFdEvent, Raced, Inside
  <2> QED
    BY <2>1, <2>2 DEF Init, InitWakeUpFdEvent, Executor!Init
<1>2. BatchInv /\ BatchInv' /\ [Next]_vars => [Executor!Next]_(Executor!vars)
  <2> SUFFICES ASSUME BatchInv, [Next]_vars
               PROVE  [Executor!Next]_(Executor!vars)
    OBVIOUS
  <2>1. TypeOK /\ pendingTask \in Seq(Task) /\ tmpTask \in Seq(Task)
    BY DEF BatchInv, TypeOK
  <2>2. CASE QuietStep
    <3>1. q' = q
      BY <2>2 DEF QuietStep
    <3>2. open' = open \/ open' = FALSE
      BY <2>2 DEF QuietStep, Raced, Inside, vars, loopVars, callVars
    <3> QED
      BY <3>1, <3>2 DEF Executor!Next, Executor!Close, Executor!vars
  <2>3. CASE ~Raced /\ LoopSwap
    <3>1. q' = q
      BY <2>1, <2>3, QueueOps DEF LoopSwap, GoTo, BatchInv, BatchDone
    <3>2. open' = open
      BY <2>3 DEF LoopSwap, GoTo, Raced, Inside, callVars
    <3> QED
      BY <3>1, <3>2 DEF Executor!vars
  <2>4. CASE ~Raced /\ PopStep
    <3>1. q # <<>> /\ q' = Tail(q)
      BY <2>1, <2>4, QueueOps DEF PopStep
    <3>2. open /\ open' = open
      BY <2>4 DEF PopStep, Raced, Inside
    <3> QED
      BY <3>1, <3>2 DEF Executor!Next, Executor!Execute
  <2>5. ASSUME ~Raced, NEW t \in Threads, AddTaskPush(t)
        PROVE  Executor!Next
    <3>1. callBack[t] \in Task
      BY <2>1 DEF TypeOK
    <3>2. q' = Append(q, callBack[t])
      BY <2>1, <2>5, <3>1, QueueOps DEF AddTaskPush, loopVars
    <3>3. open' = open
      BY <2>1, <2>5 DEF AddTaskPush, loopVars, Raced, Inside, TypeOK
    <3> QED
      BY <3>1, <3>2, <3>3 DEF Executor!Next, Executor!Push
  <2> QED
    BY <2>1, <2>2, <2>3, <2>4, <2>5, StepCases
<1> QED
  BY <1>1, <1>2, BatchInvariant, SafetySpec, PTL
  DEF RefinesTaskExecutor, Executor!Spec
-----------------------------------------------------------------------------
(* A handler is queued once.  What a pass has still to queue is told by the *)
(* events it has not dispatched, so the invariant says where a handler may *)
(* be besides the queues: in a report, or in the loop thread's hands.      *)

In(h, q) == \E i \in 1..Len(q) : q[i] = h
OnlyForeign(q) == \A i \in 1..Len(q) : q[i] \in ForeignTask
HandlersOnce(q) ==
  \A i, j \in 1..Len(q) : i # j /\ q[i] = q[j] => q[i] \in ForeignTask

Reports(r, h) == \E i \in 1..Len(r) : r[i].fd = h.fd /\ h.kind \in r[i].events
FdsOnce(r) == \A i, j \in 1..Len(r) : r[i].fd = r[j].fd => i = j

Handing(t) == pc[t] \in {"lock", "push"}

CallersHandChanges == \A c \in Callers : Handing(c) => callBack[c] \in ForeignTask
LoopIsIdle == stage # "dispatch" => resultEvent = <<>> /\ pc[LoopThread] = "idle"
HandlersTaken == stage \in {"unlock", "drain", "wait"} => OnlyForeign(pendingTask)
ReportedOnce == FdsOnce(resultEvent)
ReportedNotQueued ==
  \A h \in Task : Reports(resultEvent, h) =>
    /\ ~In(h, pendingTask)
    /\ Handing(LoopThread) => callBack[LoopThread] # h
HandedNotQueued == Handing(LoopThread) => ~In(callBack[LoopThread], pendingTask)

HandlerInv ==
  /\ CallersHandChanges
  /\ LoopIsIdle
  /\ HandlersTaken
  /\ HandlersOnce(pendingTask)
  /\ HandlersOnce(tmpTask)
  /\ ReportedOnce
  /\ ReportedNotQueued
  /\ HandedNotQueued

(* What a push at the end does to the tests on a queue.                    *)
LEMMA PushedOnce ==
  ASSUME NEW q \in Seq(Task), NEW t \in Task
  PROVE  /\ \A h : In(h, Append(q, t)) <=> In(h, q) \/ h = t
         /\ HandlersOnce(q) /\ (t \in ForeignTask \/ ~In(t, q)) => HandlersOnce(Append(q, t))
         /\ OnlyForeign(q) /\ t \in ForeignTask => OnlyForeign(Append(q, t))
<1> DEFINE a == Append(q, t)
<1>1. Len(q) \in Nat /\ Len(a) = Len(q) + 1
  BY LenProperties, AppendProperties
<1>2. a[Len(q) + 1] = t
  BY AppendProperties
<1>3. \A i \in 1..Len(q) : a[i] = q[i]
  BY AppendProperties
<1> HIDE DEF a
<1>4. \A i \in 1..Len(a) : i \in 1..Len(q) \/ i = Len(q) + 1
  BY <1>1
<1>5. 1..Len(q) \subseteq 1..Len(a) /\ Len(q) + 1 \in 1..Len(a)
  BY <1>1
<1>6. \A h : In(h, a) <=> In(h, q) \/ h = t
  BY <1>2, <1>3, <1>4, <1>5 DEF In
<1>7. HandlersOnce(q) /\ (t \in ForeignTask \/ ~In(t, q)) => HandlersOnce(a)
  BY <1>2, <1>3, <1>4 DEF HandlersOnce, In
<1>8. OnlyForeign(q) /\ t \in ForeignTask => OnlyForeign(a)
  BY <1>2, <1>3, <1>4 DEF OnlyForeign
<1> QED
  BY <1>6, <1>7, <1>8 DEF a

(* Taking from the front leaves no handler twice.                          *)
LEMMA TakenOnce ==
  ASSUME NEW q \in Seq(Task), q # <<>>, HandlersOnce(q)
  PROVE  HandlersOnce(Tail(q))
<1>1. Len(q) \in Nat \ {0} /\ Len(Tail(q)) = Len(q) - 1
  BY EmptySeq, LenProperties, HeadTailProperties
<1>2. \A i \in 1..Len(Tail(q)) : Tail(q)[i] = q[i + 1]
  BY HeadTailProperties
<1>3. \A i \in 1..Len(Tail(q)) : i + 1 \in 1..Len(q)
  BY <1>1
<1>4. \A i, j \in 1..Len(Tail(q)) : i # j => i + 1 # j + 1
  OBVIOUS
<1> QED
  BY <1>2, <1>3, <1>4 DEF HandlersOnce

(* The batch before a queue that holds no handler, or no batch.            *)
LEMMA JoinedOnce ==
  ASSUME NEW b \in Seq(Task), NEW q \in Seq(Task), HandlersOnce(b), HandlersOnce(q),
         b = <<>> \/ OnlyForeign(q)
  PROVE  HandlersOnce(b \o q)
<1>1. CASE b = <<>>
  BY <1>1, ConcatEmptySeq
<1>2. CASE OnlyForeign(q)
  <2>1. Len(b) \in Nat /\ Len(q) \in Nat /\ Len(b \o q) = Len(b) + Len(q)
    BY LenProperties, ConcatProperties
  <2>2. \A i \in 1..Len(b \o q) :
          (b \o q)[i] = IF i <= Len(b) THEN b[i] ELSE q[i - Len(b)]
    BY ConcatProperties
  <2>3. \A i \in 1..Len(b \o q) : i <= Len(b) => i \in 1..Len(b) /\ (b \o q)[i] = b[i]
    BY <2>1, <2>2
  <2>4. \A i \in 1..Len(b \o q) : ~(i <= Len(b)) => (b \o q)[i] \in ForeignTask
    <3> SUFFICES ASSUME NEW i \in 1..Len(b \o q), ~(i <= Len(b))
                 PROVE  (b \o q)[i] \in ForeignTask
      OBVIOUS
    <3>1. i - Len(b) \in 1..Len(q)
      BY <2>1
    <3> QED
      BY <1>2, <2>2, <3>1 DEF OnlyForeign
  <2> QED
    BY <2>3, <2>4 DEF HandlersOnce
<1> QED
  BY <1>1, <1>2

(* Dropping a report, or an event from the first report, reports nothing
   new; and no event of a dispatched kind is left in the first report.     *)
LEMMA DispatchedOnce ==
  ASSUME TypeOK, resultEvent # <<>>, FdsOnce(resultEvent)
  PROVE  /\ FdsOnce(Tail(resultEvent))
         /\ \A h : Reports(Tail(resultEvent), h) => Reports(resultEvent, h)
         /\ \A e : /\ FdsOnce(HeadWithout(e))
                   /\ \A h : Reports(HeadWithout(e), h) =>
                        /\ Reports(resultEvent, h)
                        /\ h # [kind |-> e, fd |-> Head(resultEvent).fd]
<1> DEFINE R == [fd : AllFds, events : SUBSET Events]
           r == resultEvent
           t == Tail(resultEvent)
<1>1. r \in Seq(R) /\ Len(r) \in Nat \ {0} /\ Head(r) = r[1]
  BY EmptySeq, LenProperties, HeadTailProperties DEF TypeOK
<1>2. /\ Len(t) = Len(r) - 1
      /\ \A i \in 1..Len(t) : t[i] = r[i + 1]
  BY <1>1, HeadTailProperties
<1>3. \A i \in 1..Len(t) : i + 1 \in 1..Len(r)
  BY <1>1, <1>2
<1>4. \A i, j \in 1..Len(t) : i + 1 = j + 1 => i = j
  OBVIOUS
<1>5. FdsOnce(t) /\ \A h : Reports(t, h) => Reports(r, h)
  BY <1>2, <1>3, <1>4 DEF FdsOnce, Reports
<1>6. ASSUME NEW e
      PROVE  /\ FdsOnce(HeadWithout(e))
             /\ \A h : Reports(HeadWithout(e), h) =>
                  /\ Reports(r, h)
                  /\ h # [kind |-> e, fd |-> Head(r).fd]
  <2> DEFINE d == HeadWithout(e)
  <2>1. d \in Seq(R) /\ Len(d) = Len(r) /\ 1 \in 1..Len(r)
    <3>1. DOMAIN d = DOMAIN r
      BY DEF HeadWithout
    <3>2. d \in Seq(R)
      BY HeadWithoutType DEF TypeOK
    <3> QED
      BY <1>1, <3>1, <3>2, LenProperties
  <2>2. \A i \in 1..Len(r) : d[i].fd = r[i].fd /\ d[i].events \subseteq r[i].events
    <3> SUFFICES ASSUME NEW i \in 1..Len(r)
                 PROVE  d[i].fd = r[i].fd /\ d[i].events \subseteq r[i].events
      OBVIOUS
    <3>1. r[i] \in R /\ i \in DOMAIN r
      BY <1>1, ElementOfSeq, LenProperties
    <3>2. d[i] = IF i = 1 THEN [r[1] EXCEPT !.events = @ \ {e}] ELSE r[i]
      BY <3>1 DEF HeadWithout
    <3> QED
      BY <3>1, <3>2
  <2>3. e \notin d[1].events
    <3>1. r[1] \in R /\ 1 \in DOMAIN r
      BY <1>1, <2>1, ElementOfSeq, LenProperties
    <3>2. d[1] = [r[1] EXCEPT !.events = @ \ {e}]
      BY <3>1 DEF HeadWithout
    <3> QED
      BY <3>1, <3>2
  <2> HIDE DEF d, r
  <2>4. FdsOnce(r)
    BY DEF r
  <2>5. FdsOnce(d)
    BY <2>1, <2>2, <2>4 DEF FdsOnce
  <2>6. ASSUME NEW h, Reports(d, h)
        PROVE  Reports(r, h) /\ h # [kind |-> e, fd |-> r[1].fd]
    <3>1. PICK i \in 1..Len(r) : d[i].fd = h.fd /\ h.kind \in d[i].events
      BY <2>1, <2>6 DEF Reports
    <3>2. Reports(r, h)
      BY <2>2, <3>1 DEF Reports
    <3>3. ASSUME h = [kind |-> e, fd |-> r[1].fd] PROVE FALSE
      <4>1. i = 1
        BY <2>1, <2>2, <2>4, <3>1, <3>3 DEF FdsOnce
      <4> QED
        BY <2>3, <3>1, <3>3, <4>1
    <3> QED
      BY <3>2, <3>3
  <2> QED
    BY <1>1, <2>5, <2>6 DEF d
<1> QED
  BY <1>5, <1>6 DEF r, t

(* A step that touches neither the queues nor the reports: it may take a
   callback of another thread in hand, or let one go.                      *)
HandsOnly ==
  /\ UNCHANGED <<pendingTask, tmpTask, resultEvent>>
  /\ callBack'[LoopThread] = callBack[LoopThread]
  /\ Handing(LoopThread)' => Handing(LoopThread)
  /\ \A c \in Callers : Handing(c)' =>
       \/ Handing(c) /\ callBack'[c] = callBack[c]
       \/ callBack'[c] \in ForeignTask
  /\ stage' \in {"unlock", "drain", "wait"} => stage \in {"unlock", "drain", "wait"}
  /\ stage' # "dispatch" =>
       \/ stage # "dispatch" /\ pc'[LoopThread] = pc[LoopThread]
       \/ resultEvent = <<>> /\ pc'[LoopThread] = "idle"

(* A step that forgets a report, or an event of one: it queues nothing.    *)
Forgets ==
  /\ stage = "dispatch"
  /\ UNCHANGED <<stage, pendingTask, tmpTask, pc, callBack>>
  /\ FdsOnce(resultEvent')
  /\ \A h : Reports(resultEvent', h) => Reports(resultEvent, h)

(* The steps of the loop, of the callers and of the kernel, by what they do to
   the queues and the reports.                                             *)
LEMMA HandlerCases ==
  ASSUME TypeOK, LoopIsIdle, ReportedOnce, [Next]_vars
  PROVE  \/ HandsOnly
         \/ Forgets
         \/ LoopSwap
         \/ PopStep /\ UNCHANGED <<resultEvent, callBack>>
         \/ \E t \in Threads : AddTaskPush(t)
         \/ EpollReturns
         \/ DispatchIn
         \/ DispatchOut
<1> USE DEF HandsOnly, Handing, loopVars, queueVars, callVars, epollVars
<1>1. CASE UNCHANGED vars
  BY <1>1 DEF vars, LoopIsIdle
<1>2. CASE LoopStart \/ LoopCheck \/ LoopLock \/ LoopUnlock \/ DrainDone
  BY <1>2 DEF LoopStart, LoopCheck, LoopLock, LoopUnlock, DrainDone, GoTo
<1>3. CASE RunAdd \/ RunDelete
  BY <1>3 DEF RunAdd, RunDelete, PopTask, PopStep
<1>4. CASE RunWakeup
  BY <1>4 DEF RunWakeup, PopTask, PopStep
<1>5. CASE RunHandler \/ RunHandlerAdd \/ RunHandlerDelete \/ RunHandlerStop
  BY <1>5 DEF RunHandler, RunHandlerAdd, RunHandlerDelete, RunHandlerStop,
     PopHandler, PopTask, PopStep
<1>6. CASE EpollTimesOut \/ DispatchDone \/ LoopDestroy
  BY <1>6 DEF EpollTimesOut, DispatchDone, LoopDestroy, GoTo
<1>7. CASE DispatchErr \/ DispatchNext
  <2>1. /\ resultEvent # <<>> /\ stage = "dispatch"
        /\ UNCHANGED <<stage, pendingTask, tmpTask, pc, callBack>>
        /\ resultEvent' = HeadWithout("ERR") \/ resultEvent' = Tail(resultEvent)
    BY <1>7 DEF DispatchErr, DispatchNext, Dispatching
  <2> QED
    BY <2>1, DispatchedOnce DEF Forgets, ReportedOnce
<1>8. ASSUME NEW t \in Threads,
             AddTaskLock(t) \/ AddTaskUnlock(t) \/ AddTaskWakeup(t) \/ AddTaskDestroy(t)
      PROVE  HandsOnly
  <2>1. /\ UNCHANGED <<pendingTask, tmpTask, resultEvent, callBack, stage>>
        /\ pc[t] # "idle"
        /\ \A s \in Threads : s # t => pc'[s] = pc[s]
        /\ pc'[t] \in {"lock", "push"} => pc[t] \in {"lock", "push"}
    BY <1>8 DEF AddTaskLock, AddTaskUnlock, AddTaskWakeup, AddTaskDestroy, TypeOK
  <2>2. LoopThread \in Threads /\ Callers \subseteq Threads
    BY DEF Threads
  <2>3. stage # "dispatch" => pc'[LoopThread] = pc[LoopThread]
    BY <2>1, <2>2 DEF LoopIsIdle
  <2> QED
    BY <2>1, <2>2, <2>3
<1>9. ASSUME NEW c \in Callers, StopWakeup(c) \/ StopRaiseFlag(c) PROVE HandsOnly
  BY <1>9, ThreadsAssumption DEF StopWakeup, StopRaiseFlag, BeginCall, TypeOK, Threads
<1>10. ASSUME NEW c \in Callers, AddEpollEvent(c) \/ DeleteEpollEvent(c)
       PROVE  HandsOnly
  <2>1. PICK k \in {"add", "del"}, f \in Fds : QueueEpollChange(c, k, f)
    BY <1>10 DEF AddEpollEvent, DeleteEpollEvent
  <2>2. [kind |-> k, fd |-> f] \in ForeignTask
    BY DEF ForeignTask
  <2> QED
    BY <2>1, <2>2, ThreadsAssumption DEF QueueEpollChange, BeginCall, TypeOK, Threads
<1>11. ASSUME NEW f \in Fds, Arrive(f) PROVE HandsOnly
  BY <1>11 DEF Arrive
<1>12. LoopThread \in Threads /\ Callers \subseteq Threads
  BY DEF Threads
<1> HIDE DEF HandsOnly
<1> QED
  BY <1>1, <1>2, <1>3, <1>4, <1>5, <1>6, <1>7, <1>8, <1>9, <1>10, <1>11, <1>12
  DEF Next, LoopStep, CallerStep, NewCall, AddTaskToQueue, Finished

(* The push of a handler is the only step that could queue one twice, and what
   is reported or in hand is in neither queue.                             *)
LEMMA HandlerNext ==
  ASSUME TypeOK, BatchDone, LoopQueuesHandlers, HandlerInv, [Next]_vars
  PROVE  HandlerInv'
<1> DEFINE L == LoopThread
<1>1. /\ pendingTask \in Seq(Task) /\ tmpTask \in Seq(Task)
      /\ \A t \in Threads : callBack[t] \in Task
      /\ LoopThread \in Threads /\ Callers \subseteq Threads
  BY DEF TypeOK, Threads
<1>2. /\ CallersHandChanges /\ LoopIsIdle /\ HandlersTaken
      /\ HandlersOnce(pendingTask) /\ HandlersOnce(tmpTask)
      /\ ReportedOnce /\ ReportedNotQueued /\ HandedNotQueued
  BY DEF HandlerInv
<1>3. CASE HandsOnly
  <2>1. CallersHandChanges'
    BY <1>2, <1>3 DEF HandsOnly, CallersHandChanges
  <2>2. LoopIsIdle' /\ HandlersTaken' /\ ReportedOnce'
    BY <1>2, <1>3 DEF HandsOnly, LoopIsIdle, HandlersTaken, ReportedOnce
  <2>3. ReportedNotQueued' /\ HandedNotQueued'
    BY <1>2, <1>3 DEF HandsOnly, ReportedNotQueued, HandedNotQueued
  <2> QED
    BY <1>2, <1>3, <2>1, <2>2, <2>3 DEF HandsOnly, HandlerInv
<1>4. CASE Forgets
  BY <1>2, <1>4 DEF Forgets, HandlerInv, CallersHandChanges, LoopIsIdle, HandlersTaken,
     ReportedOnce, ReportedNotQueued, HandedNotQueued, Handing
<1>5. CASE LoopSwap
  <2>1. /\ stage = "swap" /\ stage' = "unlock" /\ tmpTask' = pendingTask
        /\ pendingTask' = <<>> /\ UNCHANGED <<resultEvent, pc, callBack>>
    BY <1>5 DEF LoopSwap, GoTo, callVars
  <2>2. Len(pendingTask') = 0
    BY <2>1, EmptySeq
  <2>3. HandlersOnce(pendingTask') /\ OnlyForeign(pendingTask') /\ \A h : ~In(h, pendingTask')
    BY <2>2 DEF HandlersOnce, OnlyForeign, In
  <2> QED
    BY <1>2, <2>1, <2>3 DEF HandlerInv, CallersHandChanges, LoopIsIdle, HandlersTaken,
       ReportedOnce, ReportedNotQueued, HandedNotQueued, Handing
<1>6. CASE PopStep /\ UNCHANGED <<resultEvent, callBack>>
  <2>1. HandlersOnce(tmpTask')
    BY <1>1, <1>2, <1>6, TakenOnce DEF PopStep
  <2> QED
    BY <1>2, <1>6, <2>1 DEF PopStep, HandlerInv, CallersHandChanges, LoopIsIdle,
       HandlersTaken, ReportedOnce, ReportedNotQueued, HandedNotQueued, Handing
<1>7. ASSUME NEW t \in Threads, AddTaskPush(t) PROVE HandlerInv'
  <2>1. /\ pc[t] = "push" /\ pendingTask' = Append(pendingTask, callBack[t])
        /\ pc'[t] = "unlock" /\ \A s \in Threads : s # t => pc'[s] = pc[s]
        /\ UNCHANGED <<stage, tmpTask, resultEvent, callBack>>
    BY <1>7 DEF AddTaskPush, loopVars, TypeOK
  <2>2. callBack[t] \in Task
    BY <1>1
  <2>3. t # L => callBack[t] \in ForeignTask
    BY <1>2, <2>1 DEF CallersHandChanges, Handing, Threads
  <2>4. t = L => stage = "dispatch" /\ ~In(callBack[t], pendingTask)
    BY <1>2, <2>1 DEF LoopIsIdle, HandedNotQueued, Handing
  <2>5. HandlersOnce(pendingTask')
    BY <1>1, <1>2, <2>1, <2>2, <2>3, <2>4, PushedOnce
  <2>6. HandlersTaken'
    BY <1>1, <1>2, <2>1, <2>2, <2>3, <2>4, PushedOnce DEF HandlersTaken
  <2>7. CallersHandChanges' /\ LoopIsIdle' /\ ReportedOnce'
    <3>1. pc'[L] # pc[L] => stage = "dispatch"
      BY <1>1, <2>1, <2>4
    <3>2. \A c \in Callers : pc'[c] \in {"lock", "push"} => pc[c] \in {"lock", "push"}
      BY <1>1, <2>1
    <3> QED
      BY <1>2, <2>1, <3>1, <3>2 DEF CallersHandChanges, LoopIsIdle, ReportedOnce, Handing
  <2>8. \A h : In(h, pendingTask') <=> In(h, pendingTask) \/ h = callBack[t]
    BY <1>1, <2>1, <2>2, PushedOnce
  <2>9. \A h : callBack[t] \in ForeignTask => callBack[t].kind \in {"add", "del"}
    BY DEF ForeignTask
  <2>10. HandedNotQueued'
    <3> SUFFICES ASSUME pc'[L] \in {"lock", "push"} PROVE ~In(callBack[L], pendingTask')
      BY <2>1 DEF HandedNotQueued, Handing
    <3>1. t # L /\ pc[L] \in {"lock", "push"}
      BY <1>1, <2>1
    <3>2. callBack[t] # callBack[L]
      BY <2>3, <2>9, <3>1 DEF LoopQueuesHandlers
    <3> QED
      BY <1>2, <2>8, <3>1, <3>2 DEF HandedNotQueued, Handing
  <2>11. ReportedNotQueued'
    <3> SUFFICES ASSUME NEW h \in Task, Reports(resultEvent, h)
                 PROVE  /\ ~In(h, pendingTask')
                        /\ pc'[L] \in {"lock", "push"} => callBack[L] # h
      BY <2>1 DEF ReportedNotQueued, Handing
    <3>1. h.kind \in Events
      <4>1. PICK i \in 1..Len(resultEvent) : h.kind \in resultEvent[i].events
        BY DEF Reports
      <4>2. resultEvent[i] \in [fd : AllFds, events : SUBSET Events]
        BY ElementOfSeq DEF TypeOK
      <4> QED
        BY <4>1, <4>2
    <3>2. h # callBack[t]
      <4>1. CASE t = L
        BY <1>2, <2>1, <4>1 DEF ReportedNotQueued, Handing
      <4>2. CASE t # L
        BY <2>3, <2>9, <3>1, <4>2 DEF Events
      <4> QED
        BY <4>1, <4>2
    <3>3. ~In(h, pendingTask) /\ (pc[L] \in {"lock", "push"} => callBack[L] # h)
      BY <1>2 DEF ReportedNotQueued, Handing
    <3>4. pc'[L] \in {"lock", "push"} => pc[L] \in {"lock", "push"}
      BY <1>1, <2>1
    <3> QED
      BY <2>8, <3>2, <3>3, <3>4
  <2> QED
    BY <1>2, <2>1, <2>5, <2>6, <2>7, <2>10, <2>11 DEF HandlerInv
<1>8. CASE EpollReturns
  <2>1. PICK n \in 1..EpollMaxEvent : \E fds \in [1..n -> Triggered] :
          /\ \A i, j \in 1..n : fds[i] = fds[j] => i = j
          /\ resultEvent' = [i \in 1..n |-> [fd |-> fds[i], events |-> Occurred(fds[i])]]
    BY <1>8 DEF EpollReturns
  <2>2. PICK fds \in [1..n -> Triggered] :
          /\ \A i, j \in 1..n : fds[i] = fds[j] => i = j
          /\ resultEvent' = [i \in 1..n |-> [fd |-> fds[i], events |-> Occurred(fds[i])]]
    BY <2>1
  <2>3. /\ stage = "wait" /\ stage' = "dispatch"
        /\ UNCHANGED <<tmpTask, pendingTask, pc, callBack>>
    BY <1>8 DEF EpollReturns, GoTo, queueVars, callVars
  <2>4. n \in Nat
    BY EpollMaxEventAssumption
  <2>5. Len(resultEvent') = n /\ \A i \in 1..n : resultEvent'[i].fd = fds[i]
    BY <2>2, <2>4
  <2>6. ReportedOnce'
    BY <2>2, <2>5 DEF ReportedOnce, FdsOnce
  <2>7. \A h : In(h, pendingTask) => h.kind \in {"add", "del"}
    BY <1>2, <2>3 DEF HandlersTaken, OnlyForeign, In, ForeignTask
  <2>8. \A h : Reports(resultEvent', h) => h.kind \in Events
    <3>1. \A f \in AllFds : Occurred(f) \in SUBSET Events
      BY DEF Occurred, TypeOK, AllFds, Events
    <3>2. \A i \in 1..n : fds[i] \in AllFds
      BY DEF Triggered, TypeOK
    <3> QED
      BY <2>2, <2>5, <3>1, <3>2 DEF Reports
  <2>9. ReportedNotQueued' /\ HandedNotQueued'
    BY <1>2, <2>3, <2>7, <2>8 DEF ReportedNotQueued, HandedNotQueued, Handing, LoopIsIdle,
       Events
  <2> QED
    BY <1>2, <2>3, <2>6, <2>9 DEF HandlerInv, CallersHandChanges, LoopIsIdle, HandlersTaken,
       Handing
<1>9. CASE DispatchIn \/ DispatchOut
  <2>1. PICK e \in {"IN", "OUT"} :
          QueueHandler(e) /\ e \in Head(resultEvent).events
    BY <1>9 DEF DispatchIn, DispatchOut, Dispatching
  <2>2. stage = "dispatch" /\ pc[L] = "idle" /\ resultEvent # <<>>
    BY <1>9 DEF DispatchIn, DispatchOut, Dispatching
  <2> DEFINE h0 == [kind |-> e, fd |-> Head(resultEvent).fd]
  <2>3. /\ callBack'[L] = h0 /\ \A c \in Callers : callBack'[c] = callBack[c]
        /\ pc'[L] = "lock" /\ \A c \in Callers : pc'[c] = pc[c]
        /\ resultEvent' = HeadWithout(e)
        /\ UNCHANGED <<stage, tmpTask, pendingTask>>
    BY <1>1, <2>1, ThreadsAssumption DEF QueueHandler, queueVars, TypeOK, Threads
  <2>4. Head(resultEvent) = resultEvent[1] /\ 1 \in 1..Len(resultEvent)
    BY <2>2, EmptySeq, LenProperties, HeadTailProperties DEF TypeOK
  <2>5. h0 \in Task
    <3>1. resultEvent[1] \in [fd : AllFds, events : SUBSET Events]
      BY <2>4, ElementOfSeq DEF TypeOK
    <3> QED
      BY <2>4, <3>1 DEF Task
  <2>6. Reports(resultEvent, h0)
    BY <2>1, <2>4 DEF Reports
  <2>7. HandedNotQueued'
    BY <1>2, <2>3, <2>5, <2>6 DEF ReportedNotQueued, HandedNotQueued
  <2>8. /\ FdsOnce(HeadWithout(e))
        /\ \A h : Reports(HeadWithout(e), h) => Reports(resultEvent, h) /\ h # h0
    BY <1>2, <2>2, DispatchedOnce DEF ReportedOnce
  <2>9. ReportedNotQueued' /\ ReportedOnce'
    BY <1>2, <2>3, <2>8 DEF ReportedNotQueued, ReportedOnce
  <2> QED
    BY <1>2, <2>2, <2>3, <2>7, <2>9 DEF HandlerInv, CallersHandChanges, LoopIsIdle,
       HandlersTaken, Handing
<1> QED
  BY <1>2, <1>3, <1>4, <1>5, <1>6, <1>7, <1>8, <1>9, HandlerCases

(* However many descriptors and threads there are, a pass queues the handler of
   a descriptor and a kind of event only when the last one it queued has been
   executed: the batch is drained before epoll_wait (eventloop.cc:115-132), and
   epoll reports a descriptor once.                                        *)
THEOREM HandlersAreQueuedOnce == Spec => []HandlerQueuedOnce
<1> DEFINE I == TypeOK /\ BatchDone /\ LoopQueuesHandlers /\ HandlerInv
<1>1. Init => I
  <2> SUFFICES ASSUME Init PROVE I
    OBVIOUS
  <2>1. TypeOK
    BY TypeInit
  <2>2. Len(pendingTask) = 0 /\ Len(tmpTask) = 0 /\ Len(resultEvent) = 0
    BY EmptySeq DEF Init
  <2>3. pc[LoopThread] = "idle" /\ \A c \in Callers : pc[c] = "idle"
    BY DEF Init, Threads
  <2>4. LoopQueuesHandlers
    BY DEF Init, LoopQueuesHandlers, Threads
  <2> QED
    BY <2>1, <2>2, <2>3, <2>4 DEF Init, BatchDone, HandlerInv, CallersHandChanges,
       LoopIsIdle, HandlersTaken, HandlersOnce, ReportedOnce, FdsOnce, ReportedNotQueued,
       Reports, HandedNotQueued, Handing
<1>2. BatchInv /\ BatchInv' /\ I /\ [Next]_vars => I'
  BY HandlerNext, LoopQueuesHandlersNext DEF BatchInv
<1>3. I => HandlerQueuedOnce
  <2> SUFFICES ASSUME I PROVE HandlersOnce(tmpTask \o pendingTask)
    BY DEF HandlerQueuedOnce, HandlersOnce
  <2>1. tmpTask = <<>> \/ OnlyForeign(pendingTask)
    BY DEF BatchDone, HandlerInv, HandlersTaken
  <2> QED
    BY <2>1, JoinedOnce DEF TypeOK, HandlerInv
<1> QED
  BY <1>1, <1>2, <1>3, BatchInvariant, SafetySpec, PTL

=============================================================================
