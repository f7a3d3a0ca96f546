------------------------------- MODULE Timer --------------------------------
(***************************************************************************)
(* The timer of one EventLoop (net/timer.cc): the multimap of timer events *)
(* keyed by their arrive time, the timerfd that makes epoll_wait return,   *)
(* and the handler OnTimer that the loop thread runs when it is readable.  *)
(*                                                                         *)
(* AddTimerEvent and DeleteTimerEvent may be called on the loop thread,    *)
(* from a task or from a timer's own callback, and on the threads Adders.  *)
(* The grain is one access to shared state per step; the mutex is the      *)
(* Boolean of module EventLoop, freed by unlock() and again by             *)
(* ~ScopeMutex.                                                            *)
(*                                                                         *)
(* Time is a number that ticks.  GetNowMS and the timerfd follow the same  *)
(* clock here: the jumps of the wall clock are left out.  The multimap is  *)
(* the set of its entries; the order of entries with equal keys is left    *)
(* open.                                                                   *)
(***************************************************************************)
EXTENDS Integers, FiniteSets

CONSTANTS LoopThread,      \* the thread that runs OnTimer
          Adders,          \* other threads that add and delete timer events
          TimerEvents,     \* the timer events of a run, each constructed once
          Interval,        \* myInterval of each of them
          Repeated,        \* those with myIsRepeated
          Deletable,       \* bound: those that somebody may delete, once
          RetryInterval,   \* the 100 ms of ResetTimerArriveTime
          MaxTime,         \* bound: the clock stops here
          NoEvent          \* the first event of an empty map

ASSUME AddersAssumption == LoopThread \notin Adders
ASSUME EventsAssumption ==
  /\ NoEvent \notin TimerEvents
  /\ Interval \in [TimerEvents -> Nat]
  /\ Repeated \subseteq TimerEvents /\ Deletable \subseteq TimerEvents
ASSUME TimeAssumption == RetryInterval \in Nat \ {0} /\ MaxTime \in Nat

Threads == Adders \cup {LoopThread}
Entry == [key : Nat, event : TimerEvents]

VARIABLES
  clock,              \* what GetNowMS returns
  myTimerEventMap,    \* the multimap
  arriveTime,         \* myArriveTime of each timer event
  created,            \* the timer events constructed so far
  canceled,           \* those with myIsCanceled
  locked,             \* the word of myMutex
  armed, expiry,      \* the timerfd: whether and until when it is running
  readable,           \* the timerfd has expired and was not read since
  pc,                 \* where each thread is in AddTimerEvent, DeleteTimerEvent
                      \* or ResetTimerArriveTime
  adding,             \* the event each thread is adding or deleting, NoEvent
                      \* when it does neither
  needReset,          \* needResetTimerfd of each thread
  first,              \* the first event of the copy each thread has made
  stage,              \* where the loop thread is in OnTimer
  now,                \* the local now of OnTimer
  tmpTEPVec,          \* repeated events OnTimer has still to add again
  tmpTask             \* entries whose callbacks OnTimer has still to run

timerfdVars == <<armed, expiry, readable>>
callVars    == <<pc, adding, needReset, first>>
onTimerVars == <<stage, now, tmpTEPVec, tmpTask>>
eventVars   == <<myTimerEventMap, arriveTime, created, canceled>>
vars == <<clock, eventVars, locked, timerfdVars, callVars, onTimerVars>>

PCs == {"idle", "addLock", "emplace", "addUnlock", "resetLock", "copy",
        "resetUnlock", "settime", "resetEnd", "addEnd",
        "deleteLock", "erase", "deleteUnlock", "deleteEnd"}
Stages == {"idle", "now", "lock", "collect", "unlock", "readd", "reset",
           "callbacks"}

TypeOK ==
  /\ clock \in Nat
  /\ myTimerEventMap \in SUBSET Entry
  /\ arriveTime \in [TimerEvents -> Nat]
  /\ created \in SUBSET TimerEvents /\ canceled \in SUBSET TimerEvents
  /\ locked \in BOOLEAN
  /\ armed \in BOOLEAN /\ expiry \in Nat /\ readable \in BOOLEAN
  /\ pc \in [Threads -> PCs]
  /\ adding \in [Threads -> TimerEvents \cup {NoEvent}]
  /\ needReset \in [Threads -> BOOLEAN]
  /\ first \in [Threads -> TimerEvents \cup {NoEvent}]
  /\ stage \in Stages
  /\ now \in Nat
  /\ tmpTEPVec \in SUBSET TimerEvents
  /\ tmpTask \in SUBSET Entry

Init ==
  /\ clock = 0
  /\ myTimerEventMap = {}
  /\ arriveTime = [e \in TimerEvents |-> 0]
  /\ created = {} /\ canceled = {}
  /\ locked = FALSE
  /\ armed = FALSE /\ expiry = 0 /\ readable = FALSE
  /\ pc = [t \in Threads |-> "idle"]
  /\ adding = [t \in Threads |-> NoEvent]
  /\ needReset = [t \in Threads |-> FALSE]
  /\ first = [t \in Threads |-> NoEvent]
  /\ stage = "idle"
  /\ now = 0
  /\ tmpTEPVec = {}
  /\ tmpTask = {}

Inside(t) ==
  pc[t] \in {"emplace", "erase", "copy"} \/ (t = LoopThread /\ stage = "collect")

(* Two threads are about to touch the map at the same time.                *)
Raced == \E s, t \in Threads : s # t /\ Inside(s) /\ Inside(t)

(* The entries with the smallest key of a set of entries.                  *)
Earliest(entries) == {x \in entries : \A y \in entries : x.key <= y.key}

Step(t, from, to) == pc[t] = from /\ pc' = [pc EXCEPT ![t] = to]

-----------------------------------------------------------------------------
(* AddTimerEvent(timerEvent).                                              *)

(* Mutant: the arrive time lies before the present. *)
ArriveTimePast(e) == clock - Interval[e]

(* TimerEvent::ResetArriveTime, also called by the constructor.            *)
ArriveTime(e) == clock + Interval[e]

(* TimerEvent::TimerEvent computes the arrive time, AddTimerEvent follows. *)
NewTimerEvent(t) ==
  /\ Step(t, "idle", "addLock")
  /\ t = LoopThread => stage \in {"idle", "callbacks"}
  /\ \E e \in TimerEvents \ created :
       /\ created' = created \cup {e}
       /\ arriveTime' = [arriveTime EXCEPT ![e] = ArriveTime(e)]
       /\ adding' = [adding EXCEPT ![t] = e]
  /\ UNCHANGED <<clock, myTimerEventMap, canceled, locked, timerfdVars, needReset,
                 first, onTimerVars>>

AddLock(t) ==
  /\ Step(t, "addLock", "emplace")
  /\ ~locked
  /\ locked' = TRUE
  /\ UNCHANGED <<clock, eventVars, timerfdVars, adding, needReset, first,
                 onTimerVars>>

(* Mutant: only the first event of an empty map makes the timerfd start. *)
NeedsResetWhenEmpty(e) == myTimerEventMap = {}

(* The event would come before everything the timerfd waits for.           *)
NeedsReset(e) ==
  \/ myTimerEventMap = {}
  \/ \E x \in Earliest(myTimerEventMap) : arriveTime[x.event] > arriveTime[e]

AddEmplace(t) ==
  /\ Step(t, "emplace", "addUnlock")
  /\ needReset' = [needReset EXCEPT ![t] = NeedsReset(adding[t])]
  /\ myTimerEventMap' = myTimerEventMap \cup
       {[key |-> arriveTime[adding[t]], event |-> adding[t]]}
  /\ UNCHANGED <<clock, arriveTime, created, canceled, locked, timerfdVars, adding,
                 first, onTimerVars>>

AddUnlock(t) ==
  /\ Step(t, "addUnlock", IF needReset[t] THEN "resetLock" ELSE "addEnd")
  /\ locked' = FALSE
  /\ UNCHANGED <<clock, eventVars, timerfdVars, adding, needReset, first,
                 onTimerVars>>

AddEnd(t) ==
  /\ Step(t, "addEnd", "idle")
  /\ locked' = FALSE
  /\ adding' = [adding EXCEPT ![t] = NoEvent]
  /\ UNCHANGED <<clock, eventVars, timerfdVars, needReset, first, onTimerVars>>

-----------------------------------------------------------------------------
(* DeleteTimerEvent(timerEvent): the event is marked, looked for under its
   arrive time and erased, if it is there.  The timerfd is left as it is.    *)

CancelTimerEvent(t) ==
  /\ Step(t, "idle", "deleteLock")
  /\ t = LoopThread => stage \in {"idle", "callbacks"}
  /\ \E e \in (created \cap Deletable) \ canceled :
       /\ canceled' = canceled \cup {e}
       /\ adding' = [adding EXCEPT ![t] = e]
  /\ UNCHANGED <<clock, myTimerEventMap, arriveTime, created, locked, timerfdVars,
                 needReset, first, onTimerVars>>

DeleteLock(t) ==
  /\ Step(t, "deleteLock", "erase")
  /\ ~locked
  /\ locked' = TRUE
  /\ UNCHANGED <<clock, eventVars, timerfdVars, adding, needReset, first,
                 onTimerVars>>

(* Mutant: the first entry with the arrive time is taken for the event's. *)
SameArriveTime(e) ==
  LET same == {x \in myTimerEventMap : x.key = arriveTime[e]}
  IN IF same = {} THEN {} ELSE {CHOOSE x \in same : TRUE}

(* The entry of the event, among those with its arrive time.               *)
EntriesOf(e) ==
  {x \in myTimerEventMap : x.key = arriveTime[e] /\ x.event = e}

DeleteErase(t) ==
  /\ Step(t, "erase", "deleteUnlock")
  /\ myTimerEventMap' = myTimerEventMap \ EntriesOf(adding[t])
  /\ UNCHANGED <<clock, arriveTime, created, canceled, locked, timerfdVars, adding,
                 needReset, first, onTimerVars>>

DeleteUnlock(t) ==
  /\ Step(t, "deleteUnlock", "deleteEnd")
  /\ locked' = FALSE
  /\ UNCHANGED <<clock, eventVars, timerfdVars, adding, needReset, first,
                 onTimerVars>>

DeleteEnd(t) ==
  /\ Step(t, "deleteEnd", "idle")
  /\ locked' = FALSE
  /\ adding' = [adding EXCEPT ![t] = NoEvent]
  /\ UNCHANGED <<clock, eventVars, timerfdVars, needReset, first, onTimerVars>>

-----------------------------------------------------------------------------
(* ResetTimerArriveTime: copy the map under the mutex, arm the timerfd     *)
(* outside it.  An empty copy leaves the timerfd alone.                    *)

ResetLock(t) ==
  /\ Step(t, "resetLock", "copy")
  /\ ~locked
  /\ locked' = TRUE
  /\ UNCHANGED <<clock, eventVars, timerfdVars, adding, needReset, first,
                 onTimerVars>>

ResetCopy(t) ==
  /\ Step(t, "copy", "resetUnlock")
  /\ first' \in {[first EXCEPT ![t] = e] :
                   e \in IF myTimerEventMap = {} THEN {NoEvent}
                         ELSE {x.event : x \in Earliest(myTimerEventMap)}}
  /\ UNCHANGED <<clock, eventVars, locked, timerfdVars, adding, needReset,
                 onTimerVars>>

ResetUnlock(t) ==
  /\ Step(t, "resetUnlock", IF first[t] = NoEvent THEN "resetEnd" ELSE "settime")
  /\ locked' = FALSE
  /\ UNCHANGED <<clock, eventVars, timerfdVars, adding, needReset, first,
                 onTimerVars>>

(* Mutant: an event that is due right now counts as still to come. *)
IntervalToZero(e) ==
  IF arriveTime[e] >= clock THEN arriveTime[e] - clock ELSE RetryInterval

(* The time until the first event, or the retry interval when it is past.  *)
IntervalTo(e) ==
  IF arriveTime[e] > clock THEN arriveTime[e] - clock ELSE RetryInterval

(* timerfd_settime starts the timerfd anew and forgets that it had expired;
   an interval of zero stops it.  The clock is read in the same step: the
   time that passes in between only makes the timerfd late by as much.     *)
ResetSettime(t) ==
  /\ Step(t, "settime", "resetEnd")
  /\ armed' = (IntervalTo(first[t]) # 0)
  /\ expiry' = clock + IntervalTo(first[t])
  /\ readable' = FALSE
  /\ UNCHANGED <<clock, eventVars, locked, adding, needReset, first, onTimerVars>>

(* Back to AddTimerEvent, or to OnTimer.                                   *)
ResetEnd(t) ==
  /\ Step(t, "resetEnd", IF adding[t] = NoEvent THEN "idle" ELSE "addEnd")
  /\ locked' = FALSE
  /\ first' = [first EXCEPT ![t] = NoEvent]
  /\ UNCHANGED <<clock, eventVars, timerfdVars, adding, needReset, onTimerVars>>

-----------------------------------------------------------------------------
(* OnTimer, on the loop thread.                                            *)

GoTo(from, to) ==
  stage = from /\ stage' = to /\ pc[LoopThread] = "idle"

(* The loop runs the handler of the readable timerfd, which reads it empty. *)
OnTimerRead ==
  /\ GoTo("idle", "now")
  /\ readable
  /\ readable' = FALSE
  /\ UNCHANGED <<clock, eventVars, locked, armed, expiry, callVars, now,
                 tmpTEPVec, tmpTask>>

OnTimerNow ==
  /\ GoTo("now", "lock")
  /\ now' = clock
  /\ UNCHANGED <<clock, eventVars, locked, timerfdVars, callVars, tmpTEPVec,
                 tmpTask>>

OnTimerLock ==
  /\ GoTo("lock", "collect")
  /\ ~locked
  /\ locked' = TRUE
  /\ UNCHANGED <<clock, eventVars, timerfdVars, callVars, now, tmpTEPVec, tmpTask>>

(* Mutant: an event is taken one tick too early. *)
DueSoon == {x \in myTimerEventMap : x.key <= now + 1}

Due == {x \in myTimerEventMap : x.key <= now}

(* What is due and was not cancelled.                                      *)
DueAlive == {x \in Due : x.event \notin canceled}

(* Mutant: the collected entries stay in the map. *)
OnTimerCollectKeeps ==
  /\ GoTo("collect", "unlock")
  /\ tmpTEPVec' = {x.event : x \in DueAlive}
  /\ tmpTask' = DueAlive
  /\ UNCHANGED <<clock, eventVars, locked, timerfdVars, callVars, now>>

(* Collect what is due and not cancelled; erase all that is due.           *)
OnTimerCollect ==
  /\ GoTo("collect", "unlock")
  /\ tmpTEPVec' = {x.event : x \in DueAlive}
  /\ tmpTask' = DueAlive
  /\ myTimerEventMap' = myTimerEventMap \ Due
  /\ UNCHANGED <<clock, arriveTime, created, canceled, locked, timerfdVars, callVars,
                 now>>

OnTimerUnlock ==
  /\ GoTo("unlock", "readd")
  /\ locked' = FALSE
  /\ UNCHANGED <<clock, eventVars, timerfdVars, callVars, now, tmpTEPVec, tmpTask>>

(* A repeated event gets a new arrive time and is added again.             *)
OnTimerReadd(e) ==
  /\ stage = "readd"
  /\ e \in tmpTEPVec
  /\ tmpTEPVec' = tmpTEPVec \ {e}
  /\ \/ /\ e \in Repeated
        /\ Step(LoopThread, "idle", "addLock")
        /\ arriveTime' = [arriveTime EXCEPT ![e] = ArriveTime(e)]
        /\ adding' = [adding EXCEPT ![LoopThread] = e]
     \/ /\ e \notin Repeated
        /\ Step(LoopThread, "idle", "idle")
        /\ UNCHANGED <<arriveTime, adding>>
  /\ UNCHANGED <<clock, myTimerEventMap, created, canceled, locked, timerfdVars,
                 needReset, first, stage, now, tmpTask>>

(* Mutant: OnTimer leaves the timerfd as AddTimerEvent has set it. *)
OnTimerNoReset ==
  /\ GoTo("readd", "callbacks")
  /\ tmpTEPVec = {}
  /\ UNCHANGED <<clock, eventVars, locked, timerfdVars, callVars, now,
                 tmpTEPVec, tmpTask>>

(* "This call must stay" (line 206): the timerfd is set again each time.   *)
OnTimerReset ==
  /\ stage = "readd" /\ stage' = "reset"
  /\ tmpTEPVec = {}
  /\ Step(LoopThread, "idle", "resetLock")
  /\ UNCHANGED <<clock, eventVars, locked, timerfdVars, adding, needReset,
                 first, now, tmpTEPVec, tmpTask>>

OnTimerResetDone ==
  /\ GoTo("reset", "callbacks")
  /\ UNCHANGED <<clock, eventVars, locked, timerfdVars, callVars, now,
                 tmpTEPVec, tmpTask>>

(* Run one callback; the entries are run in the order of their keys.       *)
OnTimerCallBack(x) ==
  /\ stage = "callbacks"
  /\ pc[LoopThread] = "idle"
  /\ x \in Earliest(tmpTask)
  /\ tmpTask' = tmpTask \ {x}
  /\ UNCHANGED <<clock, eventVars, locked, timerfdVars, callVars, stage, now,
                 tmpTEPVec>>

(* The end of OnTimer, and of the lock it took to collect.                 *)
OnTimerEnd ==
  /\ GoTo("callbacks", "idle")
  /\ tmpTask = {}
  /\ locked' = FALSE
  /\ UNCHANGED <<clock, eventVars, timerfdVars, callVars, now, tmpTEPVec, tmpTask>>

-----------------------------------------------------------------------------
(* Time passes; the timerfd expires at its time.                           *)
Tick ==
  /\ clock < MaxTime
  /\ clock' = clock + 1
  /\ IF armed /\ expiry <= clock + 1
       THEN armed' = FALSE /\ readable' = TRUE
       ELSE UNCHANGED <<armed, readable>>
  /\ UNCHANGED <<eventVars, locked, expiry, callVars, onTimerVars>>

ThreadStep(t) ==
  \/ AddLock(t) \/ AddEmplace(t) \/ AddUnlock(t) \/ AddEnd(t)
  \/ ResetLock(t) \/ ResetCopy(t) \/ ResetUnlock(t) \/ ResetSettime(t)
  \/ ResetEnd(t)
  \/ DeleteLock(t) \/ DeleteErase(t) \/ DeleteUnlock(t) \/ DeleteEnd(t)

OnTimer ==
  \/ OnTimerRead \/ OnTimerNow \/ OnTimerLock \/ OnTimerCollect \/ OnTimerUnlock
  \/ \E e \in TimerEvents : OnTimerReadd(e)
  \/ OnTimerReset \/ OnTimerResetDone
  \/ \E x \in tmpTask : OnTimerCallBack(x)
  \/ OnTimerEnd

(* Nothing is left to do, the clock has come to its bound, or the behaviour
   is undefined.                                                           *)
Finished ==
  Raced \/ (clock = MaxTime /\ stage = "idle" /\ ~readable)

Next ==
  \/ /\ ~Raced
     /\ \/ Tick
        \/ OnTimer
        \/ \E t \in Threads : NewTimerEvent(t) \/ CancelTimerEvent(t) \/ ThreadStep(t)
  \/ Finished /\ UNCHANGED vars

(* Time passes, and threads that can run are run.                          *)
Fairness ==
  /\ WF_vars(~Raced /\ Tick)
  /\ WF_vars(~Raced /\ OnTimer)
  /\ \A t \in Threads : WF_vars(~Raced /\ ThreadStep(t))

Spec == Init /\ [][Next]_vars /\ Fairness

-----------------------------------------------------------------------------
(* The multimap and the events agree: the key an event was inserted under is
   still its arrive time (it is changed only while the event is out of the
   map), and an event is in the map once, and not while some thread is to
   add it (AddTimerEvent, OnTimer lines 196-204).                          *)
MapMatchesEvents ==
  /\ \A x \in myTimerEventMap :
       /\ x.key = arriveTime[x.event]
       /\ x.event \notin tmpTEPVec
       /\ \A t \in Threads : pc[t] \in {"addLock", "emplace"}
                               => x.event # adding[t]
  /\ \A x, y \in myTimerEventMap : x.event = y.event => x = y

(* No callback runs before its time, also when the timerfd expires early or
   the map changes between the expiry and the handler.                     *)
NeverEarly == \A x \in tmpTask : x.key <= clock

(* The timerfd was set when the event was late already: after the retry
   interval and not at the event's time (lines 124-128).                   *)
SetForLate(e) ==
  expiry <= clock + RetryInterval /\ arriveTime[e] + RetryInterval <= expiry

(* No event is forgotten by the timerfd: whenever nobody is about to set it,
   an event in the map means that OnTimer is already due, or that the timerfd
   will expire no later than the first event arrives, or that it was set for
   an event that was late by then, to expire within the retry interval.  That
   event is still in the map, or was deleted.                               *)
TimerfdCoversMap ==
  (stage \in {"idle", "callbacks"} /\ \A t \in Threads : pc[t] = "idle")
    => \/ myTimerEventMap = {}
       \/ readable
       \/ /\ armed
          /\ \/ \A x \in myTimerEventMap : expiry <= x.key
             \/ \E x \in myTimerEventMap : SetForLate(x.event)
             \/ \E e \in canceled : SetForLate(e)

(* The bound on the clock has cut the next expiry off.                     *)
CutOff == clock = MaxTime /\ armed

(* Every timer event in the map is collected by OnTimer, if it is not deleted
   before, and everything it collects is run.                              *)
EveryTimerFires ==
  /\ \A e \in TimerEvents :
       (\E x \in myTimerEventMap : x.event = e)
         ~> \/ \E x \in tmpTask : x.event = e
            \/ e \in canceled \/ CutOff \/ Raced
  /\ tmpTask # {} ~> tmpTask = {} \/ Raced

(* When DeleteTimerEvent has returned, the event is out of the timer for
   good: it is not in the map, though it was looked for under a time that
   OnTimer changes, and OnTimer is not about to put it back (lines 75-103,
   196-204).  Only a callback that was collected before may still run.     *)
DeletedStaysOut ==
  \A e \in canceled :
    \/ \E t \in Threads : adding[t] = e
    \/ /\ \A x \in myTimerEventMap : x.event # e
       /\ e \notin tmpTEPVec
       /\ (\E x \in tmpTask : x.event = e) => stage = "callbacks"

-----------------------------------------------------------------------------
(* What a user of the timer would expect, the second in the words of the
   source, and the code does not do: both fail, see Timer_delete.cfg.       *)

(* The timerfd does not expire after the first event's time, unless that one
   was late when it was set (timer.cc:57-64).  A late event keeps the timerfd
   from being set for an event that is added behind it, and is deleted: the
   event that is first then fires up to the retry interval late.            *)
TimerfdInTime ==
  (stage \in {"idle", "callbacks"} /\ \A t \in Threads : pc[t] = "idle")
    => \/ myTimerEventMap = {}
       \/ readable
       \/ armed /\ \E x \in Earliest(myTimerEventMap) :
                     expiry <= x.key \/ SetForLate(x.event)

(* "First this timer is to be cancelled" (timer.cc:77): a cancelled callback
   is not run, also when the callback before it in the batch cancels it.   *)
CanceledIsNotRun ==
  [][\A x \in tmpTask : OnTimerCallBack(x) => x.event \notin canceled]_vars
=============================================================================
