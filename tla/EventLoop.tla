----------------------------- MODULE EventLoop ------------------------------
(***************************************************************************)
(* One EventLoop (net/eventloop.cc): the thread that runs Loop(), and the  *)
(* other threads that call AddEpollEvent, DeleteEpollEvent and Stop on it. *)
(*                                                                         *)
(* The grain is one access to shared state per step.  AddTaskToQueue is    *)
(* the same five steps whoever calls it (lock, push, unlock, wake up,      *)
(* destructor of the ScopeMutex), and Loop() is cut at the mutex, at every *)
(* callback, at epoll_wait and at every event it dispatches.               *)
(*                                                                         *)
(* ScopeMutex unlocks in unlock() and again, unconditionally, in its       *)
(* destructor.  A glibc mutex of the default type does not look at its     *)
(* owner, so that second unlock frees the mutex whoever holds it; the      *)
(* model's mutex is therefore one Boolean.  When two threads have got      *)
(* inside together, two accesses of one std::queue race and the program's  *)
(* behaviour is undefined: Raced says so and no step is taken any more.    *)
(***************************************************************************)
EXTENDS Integers, Sequences, FiniteSets

CONSTANTS LoopThread,     \* the thread that created the loop and runs Loop()
          Callers,        \* the other threads
          Fds,            \* the descriptors whose FDEvents are added
          WakeupFd,       \* myWakeupfd
          EpollMaxEvent,  \* globalEpollMaxEvent
          MaxCalls        \* bound: calls each of the Callers makes

ASSUME ThreadsAssumption == LoopThread \notin Callers
ASSUME FdsAssumption == WakeupFd \notin Fds
ASSUME EpollMaxEventAssumption == EpollMaxEvent \in Nat \ {0}
ASSUME MaxCallsAssumption == MaxCalls \in Nat

Threads == Callers \cup {LoopThread}
AllFds  == Fds \cup {WakeupFd}
Events  == {"IN", "OUT", "ERR"}

(* A callback: the closures that AddEpollEvent ("add") and DeleteEpollEvent
   ("del") queue for the loop thread, and the handlers Loop() queues ("IN",
   "OUT").                                                                 *)
Task == [kind : {"add", "del", "IN", "OUT"}, fd : AllFds]
ForeignTask == [kind : {"add", "del"}, fd : Fds]

VARIABLES
  stage,         \* where the loop thread is in Loop()
  pc,            \* where each thread is in AddTaskToQueue or Stop
  callBack,      \* the callback each thread is handing over
  locked,        \* the word of myMutex
  pendingTask,   \* myPendingTask
  tmpTask,       \* the local queue of Loop()
  resultEvent,   \* events epoll_wait returned, not yet dispatched
  interest,      \* myListenfds and the event mask epoll has for each of them
  ready,         \* the readiness of each descriptor of Fds, kept by the kernel
  eventfd,       \* the wake-up eventfd is readable
  stopFlag,      \* myStopFlag
  calls,         \* calls each caller has begun
  wakeRead       \* history: the wake-up handler ran since the last swap

loopVars  == <<stage, tmpTask, resultEvent>>
queueVars == <<locked, pendingTask>>
callVars  == <<pc, callBack, calls>>
epollVars == <<interest, ready>>
vars == <<loopVars, queueVars, callVars, epollVars, eventfd, stopFlag, wakeRead>>

Stages == {"created", "check", "lock", "swap", "unlock", "drain", "wait",
           "dispatch", "destroy", "exited"}
PCs    == {"idle", "lock", "push", "unlock", "wake", "destroy", "stop"}
Masks  == SUBSET {"IN", "OUT"}

TypeOK ==
  /\ stage \in Stages
  /\ pc \in [Threads -> PCs]
  /\ callBack \in [Threads -> Task]
  /\ locked \in BOOLEAN
  /\ pendingTask \in Seq(Task)
  /\ tmpTask \in Seq(Task)
  /\ resultEvent \in Seq([fd : AllFds, events : SUBSET Events])
  /\ DOMAIN interest \in SUBSET AllFds
  /\ \A f \in DOMAIN interest : interest[f] \in Masks
  /\ ready \in [Fds -> SUBSET Events]
  /\ eventfd \in BOOLEAN
  /\ stopFlag \in BOOLEAN
  /\ calls \in [Callers -> 0..MaxCalls]
  /\ wakeRead \in BOOLEAN

(* The wake-up eventfd is listened to before anything else.                *)
InitWakeUpFdEvent ==
  /\ eventfd = FALSE
  /\ interest = [f \in {WakeupFd} |-> {"IN"}]

(* The constructor.                                                        *)
Init ==
  /\ InitWakeUpFdEvent
  /\ stage = "created"
  /\ pc = [t \in Threads |-> "idle"]
  /\ callBack = [t \in Threads |-> [kind |-> "IN", fd |-> WakeupFd]]
  /\ locked = FALSE
  /\ pendingTask = <<>>
  /\ tmpTask = <<>>
  /\ resultEvent = <<>>
  /\ ready = [f \in Fds |-> {}]
  /\ stopFlag = FALSE
  /\ calls = [c \in Callers |-> 0]
  /\ wakeRead = FALSE

-----------------------------------------------------------------------------
(* The critical section of myMutex holds one access of myPendingTask.      *)

Inside(t) == pc[t] = "push" \/ (t = LoopThread /\ stage = "swap")

(* Two threads are about to touch myPendingTask at the same time.          *)
Raced == \E s, t \in Threads : s # t /\ Inside(s) /\ Inside(t)

-----------------------------------------------------------------------------
(* AddTaskToQueue(CallBack, isWakeUp), one step at a time.  isWakeUp is    *)
(* true exactly in the calls that other threads make.                      *)

AddTaskLock(t) ==
  /\ pc[t] = "lock"
  /\ ~locked
  /\ locked' = TRUE
  /\ pc' = [pc EXCEPT ![t] = "push"]
  /\ UNCHANGED <<loopVars, pendingTask, callBack, calls, epollVars, eventfd,
                 stopFlag, wakeRead>>

AddTaskPush(t) ==
  /\ pc[t] = "push"
  /\ pendingTask' = Append(pendingTask, callBack[t])
  /\ pc' = [pc EXCEPT ![t] = "unlock"]
  /\ UNCHANGED <<loopVars, locked, callBack, calls, epollVars, eventfd,
                 stopFlag, wakeRead>>

AddTaskUnlock(t) ==
  /\ pc[t] = "unlock"
  /\ locked' = FALSE
  /\ pc' = [pc EXCEPT ![t] = IF t = LoopThread THEN "destroy" ELSE "wake"]
  /\ UNCHANGED <<loopVars, pendingTask, callBack, calls, epollVars, eventfd,
                 stopFlag, wakeRead>>

(* Mutant: AddEpollEvent and DeleteEpollEvent forget to ask for the wake-up. *)
AddTaskWakeupNever(t) ==
  /\ pc[t] = "wake"
  /\ pc' = [pc EXCEPT ![t] = "destroy"]
  /\ UNCHANGED <<loopVars, queueVars, callBack, calls, epollVars, eventfd,
                 stopFlag, wakeRead>>

(* WakeUpFdEvent::WakeUp writes eight bytes into the eventfd.              *)
AddTaskWakeup(t) ==
  /\ pc[t] = "wake"
  /\ eventfd' = TRUE
  /\ pc' = [pc EXCEPT ![t] = "destroy"]
  /\ UNCHANGED <<loopVars, queueVars, callBack, calls, epollVars, stopFlag,
                 wakeRead>>

(* ~ScopeMutex: the second unlock, whoever holds the mutex by now.         *)
AddTaskDestroy(t) ==
  /\ pc[t] = "destroy"
  /\ locked' = FALSE
  /\ pc' = [pc EXCEPT ![t] = "idle"]
  /\ UNCHANGED <<loopVars, pendingTask, callBack, calls, epollVars, eventfd,
                 stopFlag, wakeRead>>

AddTaskToQueue(t) ==
  \/ AddTaskLock(t)
  \/ AddTaskPush(t)
  \/ AddTaskUnlock(t)
  \/ AddTaskWakeup(t)
  \/ AddTaskDestroy(t)

-----------------------------------------------------------------------------
(* What another thread may call.                                           *)

BeginCall(c) ==
  /\ pc[c] = "idle"
  /\ calls[c] < MaxCalls
  /\ calls' = [calls EXCEPT ![c] = @ + 1]

(* AddEpollEvent and DeleteEpollEvent off the loop thread: the change of the
   epoll set is queued as a callback of the loop thread.                   *)
QueueEpollChange(c, kind, f) ==
  /\ BeginCall(c)
  /\ callBack' = [callBack EXCEPT ![c] = [kind |-> kind, fd |-> f]]
  /\ pc' = [pc EXCEPT ![c] = "lock"]
  /\ UNCHANGED <<loopVars, queueVars, epollVars, eventfd, stopFlag, wakeRead>>

AddEpollEvent(c)    == \E f \in Fds : QueueEpollChange(c, "add", f)
DeleteEpollEvent(c) == \E f \in Fds : QueueEpollChange(c, "del", f)

(* Stop: raise the flag, then wake the loop up.                            *)
StopRaiseFlag(c) ==
  /\ BeginCall(c)
  /\ stopFlag' = TRUE
  /\ pc' = [pc EXCEPT ![c] = "stop"]
  /\ UNCHANGED <<loopVars, queueVars, callBack, epollVars, eventfd, wakeRead>>

StopWakeup(c) ==
  /\ pc[c] = "stop"
  /\ eventfd' = TRUE
  /\ pc' = [pc EXCEPT ![c] = "idle"]
  /\ UNCHANGED <<loopVars, queueVars, callBack, calls, epollVars, stopFlag,
                 wakeRead>>

-----------------------------------------------------------------------------
(* The loop thread, in the order of Loop().                                *)

GoTo(from, to) == stage = from /\ stage' = to

LoopStart ==
  /\ GoTo("created", "check")
  /\ UNCHANGED <<tmpTask, resultEvent, queueVars, callVars, epollVars, eventfd,
                 stopFlag, wakeRead>>

(* Mutant: the loop never looks at myStopFlag again. *)
LoopCheckIgnoresStop ==
  /\ GoTo("check", "lock")
  /\ UNCHANGED <<tmpTask, resultEvent, queueVars, callVars, epollVars, eventfd,
                 stopFlag, wakeRead>>

LoopCheck ==
  /\ GoTo("check", IF stopFlag THEN "exited" ELSE "lock")
  /\ UNCHANGED <<tmpTask, resultEvent, queueVars, callVars, epollVars, eventfd,
                 stopFlag, wakeRead>>

LoopLock ==
  /\ GoTo("lock", "swap")
  /\ ~locked
  /\ locked' = TRUE
  /\ UNCHANGED <<tmpTask, resultEvent, pendingTask, callVars, epollVars,
                 eventfd, stopFlag, wakeRead>>

(* Mutant: the batch is copied but the shared queue is not emptied. *)
LoopSwapCopies ==
  /\ GoTo("swap", "unlock")
  /\ tmpTask' = pendingTask
  /\ wakeRead' = FALSE
  /\ UNCHANGED <<resultEvent, queueVars, callVars, epollVars, eventfd, stopFlag>>

LoopSwap ==
  /\ GoTo("swap", "unlock")
  /\ tmpTask' = pendingTask
  /\ pendingTask' = <<>>
  /\ wakeRead' = FALSE
  /\ UNCHANGED <<resultEvent, locked, callVars, epollVars, eventfd, stopFlag>>

LoopUnlock ==
  /\ GoTo("unlock", "drain")
  /\ locked' = FALSE
  /\ UNCHANGED <<tmpTask, resultEvent, pendingTask, callVars, epollVars,
                 eventfd, stopFlag, wakeRead>>

-----------------------------------------------------------------------------
(* One callback of the batch.  ADD_TO_EPOLL and DELETE_FROM_EPOILL change  *)
(* myListenfds and the epoll set together (a failing epoll_ctl is only     *)
(* logged); the mask is the one the FDEvent has when the callback runs.    *)

Listened(f, mask) ==
  [g \in DOMAIN interest \cup {f} |-> IF g = f THEN mask ELSE interest[g]]

NotListened(f) == [g \in DOMAIN interest \ {f} |-> interest[g]]

PopTask(kinds) ==
  /\ stage = "drain"
  /\ tmpTask # <<>>
  /\ Head(tmpTask).kind \in kinds
  /\ tmpTask' = Tail(tmpTask)
  /\ UNCHANGED <<stage, resultEvent, queueVars, callVars>>

RunAdd ==
  /\ PopTask({"add"})
  /\ \E mask \in Masks : interest' = Listened(Head(tmpTask).fd, mask)
  /\ UNCHANGED <<ready, eventfd, stopFlag, wakeRead>>

RunDelete ==
  /\ PopTask({"del"})
  /\ interest' = NotListened(Head(tmpTask).fd)
  /\ UNCHANGED <<ready, eventfd, stopFlag, wakeRead>>

(* The wake-up handler empties the eventfd: one read resets its counter.   *)
RunWakeup ==
  /\ PopTask({"IN"})
  /\ Head(tmpTask).fd = WakeupFd
  /\ eventfd' = FALSE
  /\ wakeRead' = TRUE
  /\ UNCHANGED <<epollVars, stopFlag>>

(* The handler of an FDEvent: it uses its descriptor's readiness up or not,
   and may change what its own FDEvent listens to or stop the loop; on the
   loop thread those calls take effect at once.                            *)
PopHandler ==
  /\ PopTask({"IN", "OUT"})
  /\ Head(tmpTask).fd \in Fds
  /\ \E left \in {{}, {Head(tmpTask).kind}} :
       ready' = [ready EXCEPT ![Head(tmpTask).fd] = (@ \ {Head(tmpTask).kind})
                                                    \cup (@ \cap left)]
  /\ UNCHANGED wakeRead

RunHandler ==
  /\ PopHandler
  /\ UNCHANGED <<interest, eventfd, stopFlag>>

RunHandlerAdd ==
  /\ PopHandler
  /\ \E mask \in Masks : interest' = Listened(Head(tmpTask).fd, mask)
  /\ UNCHANGED <<eventfd, stopFlag>>

RunHandlerDelete ==
  /\ PopHandler
  /\ interest' = NotListened(Head(tmpTask).fd)
  /\ UNCHANGED <<eventfd, stopFlag>>

RunHandlerStop ==
  /\ PopHandler
  /\ stopFlag' = TRUE
  /\ eventfd' = TRUE
  /\ UNCHANGED interest

(* Mutant: a pass of the loop runs one callback instead of the whole batch. *)
DrainDoneEarly ==
  /\ GoTo("drain", "wait")
  /\ UNCHANGED <<tmpTask, resultEvent, queueVars, callVars, epollVars, eventfd,
                 stopFlag, wakeRead>>

DrainDone ==
  /\ GoTo("drain", "wait")
  /\ tmpTask = <<>>
  /\ UNCHANGED <<tmpTask, resultEvent, queueVars, callVars, epollVars, eventfd,
                 stopFlag, wakeRead>>

-----------------------------------------------------------------------------
(* epoll_wait, level triggered.  EPOLLERR is reported for every listened   *)
(* descriptor, asked for or not.                                           *)

Occurred(f) ==
  IF f = WakeupFd THEN IF eventfd THEN {"IN"} ELSE {}
  ELSE ready[f] \cap (interest[f] \cup {"ERR"})

Triggered == {f \in DOMAIN interest : Occurred(f) # {}}

(* At most EpollMaxEvent descriptors are reported, in an order the kernel
   chooses.                                                                *)
EpollReturns ==
  /\ GoTo("wait", "dispatch")
  /\ Triggered # {}
  /\ \E n \in 1..EpollMaxEvent :
       /\ n <= Cardinality(Triggered)
       /\ n = EpollMaxEvent \/ n = Cardinality(Triggered)
       /\ \E fds \in [1..n -> Triggered] :
            /\ \A i, j \in 1..n : fds[i] = fds[j] => i = j
            /\ resultEvent' =
                 [i \in 1..n |-> [fd |-> fds[i], events |-> Occurred(fds[i])]]
  /\ UNCHANGED <<tmpTask, queueVars, callVars, epollVars, eventfd, stopFlag,
                 wakeRead>>

(* Mutant: a pass without an event waits again instead of taking the queue. *)
EpollTimesOutWaitsAgain ==
  /\ GoTo("wait", "wait")
  /\ Triggered = {}
  /\ UNCHANGED <<tmpTask, resultEvent, queueVars, callVars, epollVars, eventfd,
                 stopFlag, wakeRead>>

(* Ten seconds without an event: epoll_wait gives the loop another pass.   *)
EpollTimesOut ==
  /\ GoTo("wait", "dispatch")
  /\ Triggered = {}
  /\ UNCHANGED <<tmpTask, resultEvent, queueVars, callVars, epollVars, eventfd,
                 stopFlag, wakeRead>>

(* The events of the head of resultEvent, in the order in which Loop() looks
   at them: IN, then OUT, then ERR.                                        *)
Dispatching(events) ==
  /\ stage = "dispatch"
  /\ pc[LoopThread] = "idle"
  /\ resultEvent # <<>>
  /\ Head(resultEvent).events \in events

HeadWithout(e) == [resultEvent EXCEPT ![1].events = @ \ {e}]

QueueHandler(e) ==
  /\ callBack' = [callBack EXCEPT ![LoopThread] =
                    [kind |-> e, fd |-> Head(resultEvent).fd]]
  /\ pc' = [pc EXCEPT ![LoopThread] = "lock"]
  /\ resultEvent' = HeadWithout(e)
  /\ UNCHANGED <<stage, tmpTask, queueVars, calls, epollVars, eventfd,
                 stopFlag, wakeRead>>

DispatchIn ==
  /\ Dispatching({es \in SUBSET Events : "IN" \in es})
  /\ QueueHandler("IN")

DispatchOut ==
  /\ Dispatching({{"OUT"}, {"OUT", "ERR"}})
  /\ QueueHandler("OUT")

(* Mutant: an error handler is queued without asking whether there is one. *)
DispatchErrQueues ==
  /\ Dispatching({{"ERR"}})
  /\ QueueHandler("ERR")

(* No FDEvent of the program has an error handler: an erring descriptor is
   only dropped from the epoll set.                                        *)
DispatchErr ==
  /\ Dispatching({{"ERR"}})
  /\ interest' = NotListened(Head(resultEvent).fd)
  /\ resultEvent' = HeadWithout("ERR")
  /\ UNCHANGED <<stage, tmpTask, queueVars, callVars, ready, eventfd, stopFlag,
                 wakeRead>>

DispatchNext ==
  /\ Dispatching({{}})
  /\ resultEvent' = Tail(resultEvent)
  /\ UNCHANGED <<stage, tmpTask, queueVars, callVars, epollVars, eventfd,
                 stopFlag, wakeRead>>

DispatchDone ==
  /\ GoTo("dispatch", "destroy")
  /\ pc[LoopThread] = "idle"
  /\ resultEvent = <<>>
  /\ UNCHANGED <<tmpTask, resultEvent, queueVars, callVars, epollVars, eventfd,
                 stopFlag, wakeRead>>

(* The end of the body of the while: ~ScopeMutex of plock.                 *)
LoopDestroy ==
  /\ GoTo("destroy", "check")
  /\ locked' = FALSE
  /\ UNCHANGED <<tmpTask, resultEvent, pendingTask, callVars, epollVars,
                 eventfd, stopFlag, wakeRead>>

-----------------------------------------------------------------------------
(* The kernel: an event becomes pending on a descriptor.                   *)
Arrive(f) ==
  /\ \E e \in Events : ready' = [ready EXCEPT ![f] = @ \cup {e}]
  /\ UNCHANGED <<loopVars, queueVars, callVars, interest, eventfd, stopFlag,
                 wakeRead>>

LoopStep ==
  \/ LoopStart \/ LoopCheck \/ LoopLock \/ LoopSwap \/ LoopUnlock
  \/ RunAdd \/ RunDelete \/ RunWakeup
  \/ RunHandler \/ RunHandlerAdd \/ RunHandlerDelete \/ RunHandlerStop
  \/ DrainDone \/ EpollReturns \/ EpollTimesOut
  \/ DispatchIn \/ DispatchOut \/ DispatchErr \/ DispatchNext \/ DispatchDone
  \/ LoopDestroy
  \/ AddTaskToQueue(LoopThread)

CallerStep(c) == AddTaskToQueue(c) \/ StopWakeup(c)

NewCall(c) == AddEpollEvent(c) \/ DeleteEpollEvent(c) \/ StopRaiseFlag(c)

(* The loop has returned and no call is under way, or the program's
   behaviour is undefined: nothing more is said about it.                  *)
Finished ==
  \/ Raced
  \/ stage = "exited" /\ \A c \in Callers : pc[c] = "idle" /\ calls[c] = MaxCalls

Next ==
  \/ /\ ~Raced
     /\ \/ LoopStep
        \/ \E c \in Callers : CallerStep(c) \/ NewCall(c)
        \/ \E f \in Fds : Arrive(f)
  \/ Finished /\ UNCHANGED vars

(* A thread that can run is run.  The number of calls is bounded, so weak
   fairness is enough for the mutex: nobody takes it for ever.             *)
Fairness ==
  /\ WF_vars(~Raced /\ LoopStep)
  /\ \A c \in Callers : WF_vars(~Raced /\ CallerStep(c))

Spec == Init /\ [][Next]_vars /\ Fairness

-----------------------------------------------------------------------------
(* Every callback is executed once and in the order in which the queue was
   given it, whichever threads hand over: Loop() keeps the promise of module
   TaskExecutor.  The abstract queue is what is left of the batch followed
   by the shared queue.                                                    *)
Executor == INSTANCE TaskExecutor WITH
              queue <- tmpTask \o pendingTask,
              open  <- stage # "exited" /\ ~Raced
RefinesTaskExecutor == Executor!Spec

(* A callback that another thread has queued is never left without a pending
   wake-up, except when the wake-up handler itself has run since the loop
   last took the queue: the eventfd is readable, or a thread that has just
   pushed is still to write it (AddTaskToQueue, lines 257-265).            *)
PendingTaskHasWakeup ==
  (\E i \in 1..Len(pendingTask) : pendingTask[i].kind \in {"add", "del"})
    => \/ eventfd
       \/ wakeRead
       \/ \E c \in Callers : pc[c] \in {"unlock", "wake"}

(* A descriptor's handler is waiting at most once for each kind of event:
   epoll is level triggered, so a pass that reached epoll_wait before it had
   executed every handler would queue the same handler again.              *)
HandlerQueuedOnce ==
  LET waiting == tmpTask \o pendingTask
  IN  \A i, j \in 1..Len(waiting) :
        i # j /\ waiting[i] = waiting[j] => waiting[i] \in ForeignTask

(* Every callback handed over is executed, without the help of a later call
   or event, unless the loop ends first: the ten-second timeout repairs a
   wake-up that got lost.                                                  *)
EveryTaskRuns ==
  tmpTask \o pendingTask # <<>>
    ~> \/ tmpTask \o pendingTask = <<>>
       \/ stage = "exited"
       \/ Raced

(* Once some thread has called Stop, the loop returns, whatever it was doing
   and whatever is still queued.                                           *)
StopEndsLoop == stopFlag /\ stage # "created" ~> stage = "exited" \/ Raced

-----------------------------------------------------------------------------
(* What the source says and the code does not do: these fail, see
   EventLoop_race.cfg and EventLoop_claims.cfg.                            *)

(* "The task queue is a shared resource and must be locked to be thread
   safe" (eventloop.cc:256): two threads never touch it at once.           *)
QueueIsLocked == ~Raced

(* "Wake the epoll of the main thread up at once" (eventloop.cc:261): when
   every wake-up has been written, the loop is not asleep in epoll_wait with
   nothing to report and a callback of another thread in its queue.        *)
NoTaskSleepsInQueue ==
  (/\ stage = "wait"
   /\ Triggered = {}
   /\ \A c \in Callers : pc[c] \in {"idle", "destroy"})
    => \A i \in 1..Len(pendingTask) : pendingTask[i] \notin ForeignTask
=============================================================================
