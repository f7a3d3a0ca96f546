---------------------------- MODULE TimerProofs -----------------------------
(***************************************************************************)
(* What is proved about module Timer, for any timer events, intervals,     *)
(* retry interval and bound on the clock: its types, that the multimap and *)
(* the events agree and no callback runs early whatever threads add timer  *)
(* events, and that the timerfd covers the map when they are all added on  *)
(* the loop thread.                                                        *)
(***************************************************************************)
EXTENDS Timer, WellFoundedInduction, TLAPS

LEMMA SafetySpec == Spec => Init /\ [][Next]_vars
PROOF BY PTL DEF Spec

(* The threads that take steps are in the domain of what is kept of each.  *)
LEMMA LoopThreadIn == LoopThread \in Threads /\ Adders \subseteq Threads
PROOF BY DEF Threads

LEMMA ArriveTimeType ==
  ASSUME clock \in Nat, NEW e \in TimerEvents
  PROVE  ArriveTime(e) \in Nat
PROOF BY EventsAssumption DEF ArriveTime

(* A thread that inserts, erases or arms has an event to do it for.        *)
Inserting(t) == pc[t] \in {"addLock", "emplace"}
Deleting(t) == pc[t] \in {"deleteLock", "erase"}

TypeInv ==
  /\ TypeOK
  /\ \A t \in Threads : Inserting(t) \/ Deleting(t) => adding[t] \in TimerEvents
  /\ \A t \in Threads : pc[t] = "settime" => first[t] \in TimerEvents

LEMMA TypeInit == Init => TypeInv
<1> SUFFICES ASSUME Init PROVE TypeInv
  OBVIOUS
<1>1. /\ clock \in Nat /\ expiry \in Nat /\ now \in Nat
      /\ arriveTime \in [TimerEvents -> Nat]
  BY DEF Init
<1>2. /\ locked \in BOOLEAN /\ armed \in BOOLEAN /\ readable \in BOOLEAN
      /\ needReset \in [Threads -> BOOLEAN]
  BY Zenon DEF Init
<1>3. /\ myTimerEventMap \in SUBSET Entry /\ tmpTask \in SUBSET Entry
      /\ created \in SUBSET TimerEvents /\ tmpTEPVec \in SUBSET TimerEvents
      /\ canceled \in SUBSET TimerEvents
  BY DEF Init
<1>4. /\ pc \in [Threads -> PCs] /\ stage \in Stages
      /\ adding \in [Threads -> TimerEvents \cup {NoEvent}]
      /\ first \in [Threads -> TimerEvents \cup {NoEvent}]
  BY DEF Init, PCs, Stages
<1> QED
  BY <1>1, <1>2, <1>3, <1>4 DEF Init, TypeInv, TypeOK, Inserting, Deleting

(* Every step of a thread inside AddTimerEvent or ResetTimerArriveTime keeps
   the types.                                                              *)
LEMMA ThreadStepType ==
  ASSUME TypeInv, NEW t \in Threads, ThreadStep(t)
  PROVE  TypeInv'
<1> USE DEF TypeInv, Inserting, Deleting, TypeOK, timerfdVars, callVars, onTimerVars,
            eventVars, Step
<1>1. CASE AddLock(t)
  BY <1>1 DEF AddLock, PCs
<1>2. CASE AddEmplace(t)
  <2>1. NeedsReset(adding[t]) \in BOOLEAN
    BY DEF NeedsReset
  <2>2. needReset' \in [Threads -> BOOLEAN]
    BY <1>2, <2>1, Zenon DEF AddEmplace
  <2>3. /\ adding[t] \in TimerEvents
        /\ arriveTime[adding[t]] \in Nat
    BY <1>2 DEF AddEmplace
  <2>4. myTimerEventMap' \in SUBSET Entry
    BY <1>2, <2>3 DEF AddEmplace, Entry
  <2> QED
    BY <1>2, <2>2, <2>4 DEF AddEmplace, PCs
<1>3. CASE AddUnlock(t)
  BY <1>3 DEF AddUnlock, PCs
<1>4. CASE AddEnd(t)
  BY <1>4 DEF AddEnd, PCs
<1>5. CASE ResetLock(t)
  BY <1>5 DEF ResetLock, PCs
<1>6. CASE ResetCopy(t)
  BY <1>6 DEF ResetCopy, PCs, Earliest, Entry
<1>7. CASE ResetUnlock(t)
  BY <1>7 DEF ResetUnlock, PCs
<1>8. CASE ResetSettime(t)
  <2>0. arriveTime[first[t]] \in Nat /\ clock \in Nat
    BY <1>8 DEF ResetSettime
  <2>1. IntervalTo(first[t]) \in Nat
    BY <2>0, TimeAssumption DEF IntervalTo
  <2>2. expiry' \in Nat
    BY <1>8, <2>1 DEF ResetSettime
  <2>3. armed' \in BOOLEAN /\ readable' \in BOOLEAN
    BY <1>8, Zenon DEF ResetSettime
  <2> QED
    BY <1>8, <2>2, <2>3 DEF ResetSettime, PCs
<1>9. CASE ResetEnd(t)
  BY <1>9 DEF ResetEnd, PCs
<1>10. CASE DeleteLock(t)
  BY <1>10 DEF DeleteLock, PCs
<1>11. CASE DeleteErase(t)
  BY <1>11 DEF DeleteErase, PCs
<1>12. CASE DeleteUnlock(t)
  BY <1>12 DEF DeleteUnlock, PCs
<1>13. CASE DeleteEnd(t)
  BY <1>13 DEF DeleteEnd, PCs
<1> QED
  BY <1>1, <1>2, <1>3, <1>4, <1>5, <1>6, <1>7, <1>8, <1>9, <1>10, <1>11, <1>12,
     <1>13 DEF ThreadStep

LEMMA TypeNext == TypeInv /\ [Next]_vars => TypeInv'
<1> SUFFICES ASSUME TypeInv, [Next]_vars PROVE TypeInv'
  OBVIOUS
<1> USE LoopThreadIn
    DEF TypeInv, Inserting, Deleting, TypeOK, timerfdVars, callVars, onTimerVars,
        eventVars, Step, GoTo
<1>1. CASE Tick
  <2>1. armed' \in BOOLEAN /\ readable' \in BOOLEAN
    BY <1>1, Zenon DEF Tick
  <2>2. clock' \in Nat
    BY <1>1 DEF Tick
  <2> QED
    BY <1>1, <2>1, <2>2 DEF Tick
<1>2. ASSUME NEW t \in Threads, NewTimerEvent(t) PROVE TypeInv'
  BY <1>2, ArriveTimeType DEF NewTimerEvent, PCs
<1>3. ASSUME NEW t \in Threads, ThreadStep(t) PROVE TypeInv'
  BY <1>3, ThreadStepType
<1>4. CASE OnTimerRead
  BY <1>4 DEF OnTimerRead, Stages
<1>5. CASE OnTimerNow
  BY <1>5 DEF OnTimerNow, Stages
<1>6. CASE OnTimerLock
  BY <1>6 DEF OnTimerLock, Stages
<1>7. CASE OnTimerCollect
  BY <1>7 DEF OnTimerCollect, Due, DueAlive, Entry, Stages
<1>8. CASE OnTimerUnlock
  BY <1>8 DEF OnTimerUnlock, Stages
<1>9. ASSUME NEW e \in TimerEvents, OnTimerReadd(e) PROVE TypeInv'
  BY <1>9, ArriveTimeType DEF OnTimerReadd, PCs
<1>10. CASE OnTimerReset
  BY <1>10 DEF OnTimerReset, Stages, PCs
<1>11. CASE OnTimerResetDone
  BY <1>11 DEF OnTimerResetDone, Stages
<1>12. ASSUME NEW x, OnTimerCallBack(x) PROVE TypeInv'
  BY <1>12 DEF OnTimerCallBack
<1>13. CASE OnTimerEnd
  BY <1>13 DEF OnTimerEnd, Stages
<1>14. CASE UNCHANGED vars
  BY <1>14 DEF vars
<1>15. ASSUME NEW t \in Threads, CancelTimerEvent(t) PROVE TypeInv'
  BY <1>15 DEF CancelTimerEvent, PCs
<1> QED
  BY <1>1, <1>2, <1>3, <1>4, <1>5, <1>6, <1>7, <1>8, <1>9, <1>10, <1>11,
     <1>12, <1>13, <1>14, <1>15 DEF Next, OnTimer

LEMMA TypeInvariant == Spec => []TypeInv
PROOF BY TypeInit, TypeNext, SafetySpec, PTL

(* Every variable of the timer keeps its type.                             *)
THEOREM TypeCorrect == Spec => []TypeOK
<1>1. TypeInv => TypeOK
  BY DEF TypeInv
<1> QED
  BY <1>1, TypeInvariant, PTL

-----------------------------------------------------------------------------
(* An event that some thread is about to insert belongs to that thread: it
   is in no entry of the map, OnTimer does not hold it, and no other thread
   inserts it.                                                             *)
MapInv ==
  /\ MapMatchesEvents
  /\ \A x \in myTimerEventMap : x.event \in created
  /\ tmpTEPVec \subseteq created
  /\ \A t \in Threads :
       Inserting(t) => adding[t] \in created /\ adding[t] \notin tmpTEPVec
  /\ \A s, t \in Threads :
       s # t /\ Inserting(s) /\ Inserting(t) => adding[s] # adding[t]

LEMMA MapInvNext ==
  ASSUME TypeOK, MapInv, [Next]_vars
  PROVE  MapInv'
<1> USE LoopThreadIn
    DEF timerfdVars, callVars, onTimerVars, eventVars, Step, GoTo, Inserting,
        MapInv, MapMatchesEvents
<1>1. ASSUME UNCHANGED <<eventVars, tmpTEPVec>>,
             \A t \in Threads : Inserting(t)'
               => Inserting(t) /\ adding'[t] = adding[t]
      PROVE  MapInv'
  BY <1>1
<1>2. ASSUME NEW t \in Threads, NewTimerEvent(t) PROVE MapInv'
  BY <1>2 DEF NewTimerEvent, TypeOK
<1>3. ASSUME NEW t \in Threads, ThreadStep(t) PROVE MapInv'
  <2>1. CASE AddEmplace(t)
    BY <1>3, <2>1 DEF AddEmplace, TypeOK
  <2>2. CASE AddLock(t)
    BY <2>2, <1>1 DEF AddLock, TypeOK
  <2>3. CASE AddUnlock(t) \/ AddEnd(t) \/ ResetLock(t) \/ ResetCopy(t)
             \/ ResetUnlock(t) \/ ResetSettime(t) \/ ResetEnd(t)
    BY <2>3, <1>1 DEF AddUnlock, AddEnd, ResetLock, ResetCopy, ResetUnlock,
       ResetSettime, ResetEnd, TypeOK
  <2>4. CASE DeleteLock(t) \/ DeleteUnlock(t) \/ DeleteEnd(t)
    BY <2>4, <1>1 DEF DeleteLock, DeleteUnlock, DeleteEnd, TypeOK
  <2>5. CASE DeleteErase(t)
    BY <1>3, <2>5 DEF DeleteErase, EntriesOf, TypeOK
  <2> QED
    BY <1>3, <2>1, <2>2, <2>3, <2>4, <2>5 DEF ThreadStep
<1>4. CASE OnTimerCollect
  BY <1>4 DEF OnTimerCollect, Due, DueAlive, TypeOK
<1>5. ASSUME NEW e \in TimerEvents, OnTimerReadd(e) PROVE MapInv'
  BY <1>5 DEF OnTimerReadd, TypeOK
<1>6. CASE OnTimerReset
  BY <1>6, <1>1 DEF OnTimerReset, TypeOK
<1>7. CASE Tick \/ OnTimerRead \/ OnTimerNow \/ OnTimerLock \/ OnTimerUnlock
           \/ OnTimerResetDone \/ OnTimerEnd \/ UNCHANGED vars
  BY <1>7, <1>1 DEF Tick, OnTimerRead, OnTimerNow, OnTimerLock, OnTimerUnlock,
     OnTimerResetDone, OnTimerEnd, vars
<1>8. ASSUME NEW x, OnTimerCallBack(x) PROVE MapInv'
  BY <1>8, <1>1 DEF OnTimerCallBack
<1>9. ASSUME NEW t \in Threads, CancelTimerEvent(t) PROVE MapInv'
  BY <1>9 DEF CancelTimerEvent, TypeOK
<1> QED
  BY <1>2, <1>3, <1>4, <1>5, <1>6, <1>7, <1>8, <1>9 DEF Next, OnTimer

LEMMA MapInvariant == Spec => []MapInv
<1>1. Init => MapInv
  BY DEF Init, MapInv, MapMatchesEvents, Inserting
<1>2. TypeOK /\ MapInv /\ [Next]_vars => MapInv'
  BY MapInvNext
<1> QED
  BY <1>1, <1>2, TypeCorrect, SafetySpec, PTL

(* The key of an entry is the arrive time of its event and an event is in
   the map once, however many threads add timer events.                    *)
THEOREM MapCorrect == Spec => []MapMatchesEvents
<1>1. MapInv => MapMatchesEvents
  BY DEF MapInv
<1> QED
  BY <1>1, MapInvariant, PTL

-----------------------------------------------------------------------------
(* No callback runs before its time: what OnTimer collects is due at the
   time it has read, and that is past.                                     *)
THEOREM CallbacksNotEarly == Spec => []NeverEarly
<1> DEFINE EarlyInv == NeverEarly /\ now <= clock
<1>1. Init => EarlyInv
  BY DEF Init, NeverEarly
<1>2. TypeOK /\ EarlyInv /\ [Next]_vars => EarlyInv'
  <2> SUFFICES ASSUME TypeOK, EarlyInv, [Next]_vars PROVE EarlyInv'
    OBVIOUS
  <2> USE DEF timerfdVars, callVars, onTimerVars, eventVars, GoTo, NeverEarly
  <2>1. CASE Tick
    <3>1. \A x \in tmpTask : x.key \in Nat
      BY DEF TypeOK, Entry
    <3> QED
      BY <2>1, <3>1 DEF Tick, TypeOK
  <2>2. CASE OnTimerNow
    BY <2>2 DEF OnTimerNow, TypeOK
  <2>3. CASE OnTimerCollect
    <3>1. \A x \in DueAlive : x.key \in Nat /\ x.key <= now
      BY DEF Due, DueAlive, TypeOK, Entry
    <3> QED
      BY <2>3, <3>1 DEF OnTimerCollect, TypeOK
  <2>4. ASSUME NEW x, OnTimerCallBack(x) PROVE EarlyInv'
    BY <2>4 DEF OnTimerCallBack
  <2>5. CASE UNCHANGED <<clock, now, tmpTask>>
    BY <2>5
  <2>6. ASSUME NEW t, ThreadStep(t) \/ NewTimerEvent(t) \/ CancelTimerEvent(t)
        PROVE  UNCHANGED <<clock, now, tmpTask>>
    BY <2>6 DEF ThreadStep, NewTimerEvent, CancelTimerEvent, AddLock, AddEmplace,
       AddUnlock, AddEnd, ResetLock, ResetCopy, ResetUnlock, ResetSettime, ResetEnd,
       DeleteLock, DeleteErase, DeleteUnlock, DeleteEnd
  <2>7. OnTimerRead \/ OnTimerLock \/ OnTimerUnlock \/ OnTimerReset
        \/ OnTimerResetDone \/ OnTimerEnd \/ (\E e : OnTimerReadd(e))
        \/ UNCHANGED vars
        => UNCHANGED <<clock, now, tmpTask>>
    BY DEF OnTimerRead, OnTimerLock, OnTimerUnlock, OnTimerReset,
       OnTimerResetDone, OnTimerEnd, OnTimerReadd, vars
  <2> HIDE DEF EarlyInv
  <2> QED
    BY <2>1, <2>2, <2>3, <2>4, <2>5, <2>6, <2>7 DEF Next, OnTimer
<1>3. EarlyInv => NeverEarly
  OBVIOUS
<1> QED
  BY <1>1, <1>2, <1>3, TypeCorrect, SafetySpec, PTL

-----------------------------------------------------------------------------
(* A nonempty map has a first entry.                                       *)
LEMMA EarliestExists ==
  ASSUME NEW M \in SUBSET Entry, M # {}
  PROVE  Earliest(M) # {}
<1> DEFINE Keys == {x.key : x \in M}
<1>1. Keys \subseteq Nat /\ Keys # {}
  BY DEF Entry
<1>2. \E k \in Keys : \A j \in Keys : ~(<<j, k>> \in OpToRel(<, Nat))
  BY <1>1, NatLessThanWellFounded, WFMin
<1>3. ASSUME NEW j \in Nat, NEW k \in Nat, j < k
      PROVE  <<j, k>> \in OpToRel(<, Nat)
  <2>1. <<j, k>> \in Nat \X Nat /\ <<j, k>>[1] = j /\ <<j, k>>[2] = k
    OBVIOUS
  <2> QED
    BY <1>3, <2>1 DEF OpToRel
<1>4. \A j, k \in Nat : ~(j < k) => k <= j
  OBVIOUS
<1>5. PICK k \in Keys : \A j \in Keys : k <= j
  <2> HIDE DEF Keys
  <2> QED
    BY <1>1, <1>2, <1>3, <1>4
<1>6. PICK x \in M : x.key = k
  OBVIOUS
<1> QED
  BY <1>5, <1>6 DEF Earliest

(* With every timer event added on the loop thread, the timerfd covers the
   map from the moment timerfd_settime returns until the handler reads it,
   and also while AddTimerEvent inserts an event that does not come first. *)
Covered ==
  \/ myTimerEventMap = {}
  \/ readable
  \/ /\ armed
     /\ \/ \A x \in myTimerEventMap : expiry <= x.key
        \/ \E x \in myTimerEventMap : SetForLate(x.event)
        \/ \E e \in canceled : SetForLate(e)

CoverDue ==
  \/ pc[LoopThread] = "resetEnd"
  \/ /\ stage \in {"idle", "callbacks", "reset"}
     /\ \/ pc[LoopThread] \in {"idle", "addLock", "emplace", "addEnd", "deleteLock",
                               "erase", "deleteUnlock", "deleteEnd"}
        \/ pc[LoopThread] = "addUnlock" /\ ~needReset[LoopThread]

(* The event that ResetTimerArriveTime has read is still the first.        *)
FirstInv ==
  pc[LoopThread] \in {"resetUnlock", "settime"} =>
    IF first[LoopThread] = NoEvent
      THEN myTimerEventMap = {} /\ pc[LoopThread] # "settime"
      ELSE \E x \in Earliest(myTimerEventMap) : x.event = first[LoopThread]

(* An event that is about to be erased was marked before.                  *)
MarkedInv ==
  /\ canceled \subseteq created
  /\ pc[LoopThread] \in {"deleteLock", "erase"} => adding[LoopThread] \in canceled

CoverInv == MarkedInv /\ FirstInv /\ (CoverDue => Covered)

(* What is in time now is in time later.                                    *)
LEMMA LaterStill ==
  ASSUME NEW c \in Nat, NEW d \in Nat, NEW x \in Nat, NEW r \in Nat,
         x <= c + r, c <= d
  PROVE  x <= d + r
PROOF OBVIOUS

(* The timerfd that covers the map does so when time has passed, or when an
   event that was marked was erased.                                       *)
LEMMA CoveredKept ==
  ASSUME TypeInv, TypeInv',
         UNCHANGED timerfdVars,
         clock <= clock',
         canceled \subseteq canceled',
         \A e \in canceled : arriveTime'[e] = arriveTime[e],
         \A x \in myTimerEventMap :
           arriveTime'[x.event] = arriveTime[x.event],
         myTimerEventMap' \subseteq myTimerEventMap,
         \A x \in myTimerEventMap : x \in myTimerEventMap' \/ x.event \in canceled',
         Covered
  PROVE  Covered'
<1> USE DEF timerfdVars
<1>1. CASE myTimerEventMap = {} \/ readable
  BY <1>1 DEF Covered
<1>2. CASE armed /\ \A x \in myTimerEventMap : expiry <= x.key
  BY <1>2 DEF Covered
<1>3. ASSUME NEW e \in TimerEvents, SetForLate(e), arriveTime'[e] = arriveTime[e]
      PROVE  SetForLate(e)'
  <2>1. /\ clock \in Nat /\ clock' \in Nat /\ expiry \in Nat
        /\ arriveTime[e] \in Nat
    BY DEF TypeInv, TypeOK
  <2>2. expiry' <= clock' + RetryInterval
    <3>1. expiry <= clock + RetryInterval
      BY <1>3 DEF SetForLate
    <3>2. expiry' = expiry
      BY DEF timerfdVars
    <3> QED
      BY <2>1, <3>1, <3>2, LaterStill, TimeAssumption
  <2>3. arriveTime'[e] + RetryInterval <= expiry'
    BY <1>3 DEF SetForLate, timerfdVars
  <2> QED
    BY <2>2, <2>3 DEF SetForLate
<1>4. ASSUME armed, NEW e \in canceled, SetForLate(e)
      PROVE  Covered'
  <2>1. e \in TimerEvents
    BY DEF TypeInv, TypeOK
  <2> QED
    BY <1>3, <1>4, <2>1 DEF Covered
<1>5. ASSUME armed, NEW x \in myTimerEventMap, SetForLate(x.event)
      PROVE  Covered'
  <2>1. x.event \in TimerEvents
    BY DEF TypeInv, TypeOK, Entry
  <2>2. SetForLate(x.event)'
    BY <1>3, <1>5, <2>1
  <2> QED
    BY <1>5, <2>2 DEF Covered
<1> QED
  BY <1>1, <1>2, <1>4, <1>5 DEF Covered

LEMMA CoverInvNext ==
  ASSUME Adders = {}, TypeInv, TypeInv', MapInv, CoverInv, [Next]_vars
  PROVE  CoverInv'
<1> DEFINE L == LoopThread
<1>0. Threads = {L}
  BY DEF Threads
<1> USE <1>0
    DEF timerfdVars, callVars, onTimerVars, eventVars, Step, GoTo, CoverInv,
        FirstInv, CoverDue, MarkedInv, TypeInv, TypeOK
<1>0a. ASSUME UNCHANGED <<clock, eventVars, timerfdVars>>
       PROVE  Covered => Covered'
  BY <1>0a, Zenon DEF Covered, SetForLate
<1>1. CASE Tick
  <2>1. UNCHANGED <<pc, first, stage, needReset, eventVars, expiry, adding>>
    BY <1>1 DEF Tick
  <2>2. Covered => Covered'
    <3>1. clock <= clock'
      BY <1>1 DEF Tick
    <3>2. CASE UNCHANGED <<armed, readable>>
      BY <2>1, <3>1, <3>2, CoveredKept
    <3>3. CASE readable'
      BY <3>3 DEF Covered
    <3> QED
      BY <1>1, <3>2, <3>3 DEF Tick
  <2> QED
    BY <2>1, <2>2 DEF Earliest
<1>2. CASE NewTimerEvent(L)
  <2>1. /\ UNCHANGED <<clock, myTimerEventMap, timerfdVars, canceled>>
        /\ \A e \in created : arriveTime'[e] = arriveTime[e]
    BY <1>2 DEF NewTimerEvent
  <2>2. \A x \in myTimerEventMap : x.event \in created
    BY DEF MapInv
  <2>3. Covered => Covered'
    BY <2>1, <2>2, CoveredKept
  <2> QED
    BY <1>2, <2>3 DEF NewTimerEvent
<1>3. CASE AddLock(L)
  BY <1>3, <1>0a DEF AddLock
<1>4. CASE AddEmplace(L)
  <2> DEFINE e == adding[L]
  <2>1. e \in TimerEvents /\ arriveTime[e] \in Nat
    BY <1>4 DEF AddEmplace, Inserting
  <2>2. ASSUME stage \in {"idle", "callbacks", "reset"}, ~NeedsReset(e)
        PROVE  Covered'
    <3>1. PICK x \in Earliest(myTimerEventMap) : TRUE
      BY <2>2, EarliestExists DEF NeedsReset
    <3>2. /\ x \in myTimerEventMap
          /\ x.key = arriveTime[x.event] /\ x.key \in Nat
          /\ arriveTime[x.event] <= arriveTime[e]
      BY <2>1, <2>2, <3>1 DEF NeedsReset, Earliest, MapInv, MapMatchesEvents,
         Entry
    <3>3. Covered
      BY <1>4, <2>2 DEF AddEmplace
    <3>4. (\A y \in myTimerEventMap : expiry <= y.key)
            => \A y \in myTimerEventMap' : expiry <= y.key
      BY <1>4, <2>1, <3>2 DEF AddEmplace
    <3>5. /\ UNCHANGED <<clock, arriveTime, canceled, timerfdVars>>
          /\ myTimerEventMap \subseteq myTimerEventMap'
      BY <1>4 DEF AddEmplace
    <3>6. \A d : SetForLate(d)' = SetForLate(d)
      BY <3>5, Zenon DEF SetForLate
    <3> QED
      BY <3>2, <3>3, <3>4, <3>5, <3>6 DEF Covered
  <2>3. needReset'[L] = NeedsReset(e)
    BY <1>4 DEF AddEmplace
  <2>4. pc'[L] = "addUnlock" /\ stage' = stage
    BY <1>4 DEF AddEmplace
  <2>5. MarkedInv'
    BY <1>4, <2>4 DEF AddEmplace
  <2> QED
    BY <2>2, <2>3, <2>4, <2>5
<1>5. CASE AddUnlock(L)
  BY <1>5, <1>0a DEF AddUnlock
<1>6. CASE AddEnd(L)
  BY <1>6, <1>0a DEF AddEnd
<1>7. CASE ResetLock(L)
  BY <1>7 DEF ResetLock
<1>8. CASE ResetCopy(L)
  <2>1. CASE myTimerEventMap = {}
    BY <1>8, <2>1 DEF ResetCopy
  <2>2. CASE myTimerEventMap # {}
    <3>1. PICK x \in Earliest(myTimerEventMap) :
            first' = [first EXCEPT ![L] = x.event]
      BY <1>8, <2>2 DEF ResetCopy
    <3>2. x.event # NoEvent
      BY <3>1, EventsAssumption DEF Earliest, Entry
    <3> QED
      BY <1>8, <3>1, <3>2 DEF ResetCopy
  <2> QED
    BY <2>1, <2>2
<1>9. CASE ResetUnlock(L)
  <2>0. UNCHANGED <<clock, eventVars, timerfdVars>>
    BY <1>9 DEF ResetUnlock
  <2>1. Covered => Covered'
    BY <1>0a, <2>0, Zenon
  <2>2. CASE first[L] = NoEvent
    <3>1. Covered'
      BY <1>9, <2>0, <2>2 DEF ResetUnlock, Covered
    <3> QED
      BY <1>9, <2>2, <3>1 DEF ResetUnlock
  <2>3. CASE first[L] # NoEvent
    BY <1>9, <2>1, <2>3 DEF ResetUnlock
  <2> QED
    BY <2>2, <2>3
<1>10. CASE ResetSettime(L)
  <2>1. PICK x \in Earliest(myTimerEventMap) : x.event = first[L]
    BY <1>10 DEF ResetSettime
  <2>2. /\ x.key = arriveTime[first[L]] /\ x.key \in Nat
        /\ \A y \in myTimerEventMap : x.key <= y.key
    BY <2>1 DEF Earliest, MapInv, MapMatchesEvents, Entry
  <2>3. IntervalTo(first[L]) # 0
        /\ \/ IntervalTo(first[L]) = RetryInterval /\ x.key <= clock
           \/ clock + IntervalTo(first[L]) = x.key
    BY <2>2, TimeAssumption DEF IntervalTo
  <2>4. /\ expiry' = clock + IntervalTo(first[L])
        /\ UNCHANGED <<clock, myTimerEventMap>>
    BY <1>10 DEF ResetSettime
  <2>5. armed'
    BY <1>10, <2>3 DEF ResetSettime
  <2>6. Covered'
    <3>1. CASE clock + IntervalTo(first[L]) = x.key
      BY <2>2, <2>4, <2>5, <3>1 DEF Covered
    <3>2. CASE IntervalTo(first[L]) = RetryInterval /\ x.key <= clock
      <4>1. expiry' = clock + RetryInterval /\ arriveTime'[x.event] = x.key
        BY <1>10, <2>1, <2>2, <2>4, <3>2 DEF ResetSettime
      <4>2. SetForLate(x.event)'
        BY <2>2, <2>4, <3>2, <4>1, TimeAssumption DEF SetForLate
      <4>3. x \in myTimerEventMap'
        BY <2>1, <2>4 DEF Earliest
      <4> QED
        BY <2>5, <4>2, <4>3 DEF Covered
    <3> QED
      BY <2>3, <3>1, <3>2
  <2> QED
    BY <1>10, <2>6 DEF ResetSettime
<1>11. CASE ResetEnd(L)
  BY <1>11, <1>0a DEF ResetEnd
<1>12. CASE OnTimerRead \/ OnTimerNow \/ OnTimerLock \/ OnTimerCollect
            \/ OnTimerUnlock
  BY <1>12 DEF OnTimerRead, OnTimerNow, OnTimerLock, OnTimerCollect,
     OnTimerUnlock
<1>13. ASSUME NEW e, OnTimerReadd(e) PROVE CoverInv'
  BY <1>13 DEF OnTimerReadd
<1>14. CASE OnTimerReset
  BY <1>14 DEF OnTimerReset
<1>15. CASE OnTimerResetDone \/ OnTimerEnd
  BY <1>15, <1>0a DEF OnTimerResetDone, OnTimerEnd
<1>16. ASSUME NEW x, OnTimerCallBack(x) PROVE CoverInv'
  BY <1>16, <1>0a DEF OnTimerCallBack
<1>17. CASE UNCHANGED vars
  BY <1>17, <1>0a DEF vars, Earliest
<1>18. CASE CancelTimerEvent(L)
  <2>1. Covered => Covered'
    BY <1>18, CoveredKept DEF CancelTimerEvent
  <2> QED
    BY <1>18, <2>1 DEF CancelTimerEvent
<1>19. CASE DeleteLock(L) \/ DeleteUnlock(L) \/ DeleteEnd(L)
  BY <1>19, <1>0a DEF DeleteLock, DeleteUnlock, DeleteEnd
<1>20. CASE DeleteErase(L)
  <2>1. Covered => Covered'
    BY <1>20, CoveredKept DEF DeleteErase, EntriesOf
  <2> QED
    BY <1>20, <2>1 DEF DeleteErase
<1> QED
  BY <1>1, <1>2, <1>3, <1>4, <1>5, <1>6, <1>7, <1>8, <1>9, <1>10, <1>11,
     <1>12, <1>13, <1>14, <1>15, <1>16, <1>17, <1>18, <1>19, <1>20
  DEF Next, OnTimer, ThreadStep

(* No timer event is forgotten by the timerfd, for any timer events and
   intervals, when they are added on the loop thread as in this program.   *)
THEOREM TimerfdCovers ==
  ASSUME Adders = {}
  PROVE  Spec => []TimerfdCoversMap
<1>1. Init => CoverInv
  BY LoopThreadIn DEF Init, CoverInv, MarkedInv, FirstInv, CoverDue, Covered
<1>2. TypeInv /\ TypeInv' /\ MapInv /\ CoverInv /\ [Next]_vars => CoverInv'
  BY CoverInvNext
<1>3. CoverInv => TimerfdCoversMap
  BY LoopThreadIn DEF CoverInv, CoverDue, Covered, TimerfdCoversMap
<1> QED
  BY <1>1, <1>2, <1>3, TypeInvariant, MapInvariant, SafetySpec, PTL

-----------------------------------------------------------------------------
(* What is out of the timer but for a callback of the batch under way.      *)
Out(e) ==
  /\ \A x \in myTimerEventMap : x.event # e
  /\ e \notin tmpTEPVec
  /\ (\E x \in tmpTask : x.event = e) => stage = "callbacks"

DeletePCs == {"deleteLock", "erase", "deleteUnlock", "deleteEnd"}

(* With one thread an event is deleted only between two batches or from a
   callback, while none waits to be put back; from then on it is out, and
   nothing that is out is added, because it was constructed long ago.        *)
DeletedInv ==
  /\ tmpTEPVec # {} => stage \in {"unlock", "readd"}
  /\ tmpTask # {} => stage \in {"unlock", "readd", "reset", "callbacks"}
  /\ pc[LoopThread] \in DeletePCs => stage \in {"idle", "callbacks"}
  /\ pc[LoopThread] = "idle" => adding[LoopThread] = NoEvent
  /\ canceled \subseteq created
  /\ adding[LoopThread] \in canceled => pc[LoopThread] \in DeletePCs
  /\ \A e \in canceled :
       Out(e) \/ (adding[LoopThread] = e /\ pc[LoopThread] \in {"deleteLock", "erase"})

LEMMA DeletedInvNext ==
  ASSUME Adders = {}, TypeInv, MapInv, DeletedInv, [Next]_vars
  PROVE  DeletedInv'
<1> DEFINE L == LoopThread
<1>0. Threads = {L}
  BY DEF Threads
<1> USE <1>0, EventsAssumption
    DEF timerfdVars, callVars, onTimerVars, eventVars, Step, GoTo, DeletedInv,
        DeletePCs, Out, TypeInv, TypeOK
<1>1. CASE Tick \/ OnTimerRead \/ OnTimerNow \/ OnTimerLock \/ OnTimerUnlock
           \/ UNCHANGED vars
  BY <1>1 DEF Tick, OnTimerRead, OnTimerNow, OnTimerLock, OnTimerUnlock, vars
<1>2. CASE NewTimerEvent(L)
  BY <1>2 DEF NewTimerEvent
<1>3. CASE CancelTimerEvent(L)
  BY <1>3 DEF CancelTimerEvent
<1>4. CASE AddLock(L) \/ AddUnlock(L) \/ AddEnd(L) \/ ResetLock(L) \/ ResetCopy(L)
           \/ ResetUnlock(L) \/ ResetSettime(L) \/ ResetEnd(L)
  BY <1>4 DEF AddLock, AddUnlock, AddEnd, ResetLock, ResetCopy, ResetUnlock,
     ResetSettime, ResetEnd
<1>5. CASE AddEmplace(L)
  BY <1>5 DEF AddEmplace
<1>6. CASE DeleteLock(L) \/ DeleteUnlock(L) \/ DeleteEnd(L)
  BY <1>6 DEF DeleteLock, DeleteUnlock, DeleteEnd
<1>7. CASE DeleteErase(L)
  <2>1. \A x \in myTimerEventMap' : x \in myTimerEventMap /\ x.event # adding[L]
    BY <1>7 DEF DeleteErase, EntriesOf, MapInv, MapMatchesEvents
  <2> QED
    BY <1>7, <2>1 DEF DeleteErase
<1>8. CASE OnTimerCollect
  <2>1. \A x \in DueAlive : x.event \notin canceled
    BY DEF DueAlive
  <2> QED
    BY <1>8, <2>1 DEF OnTimerCollect
<1>9. ASSUME NEW e \in TimerEvents, OnTimerReadd(e) PROVE DeletedInv'
  BY <1>9 DEF OnTimerReadd
<1>10. CASE OnTimerReset \/ OnTimerResetDone \/ OnTimerEnd
  BY <1>10 DEF OnTimerReset, OnTimerResetDone, OnTimerEnd
<1>11. ASSUME NEW x, OnTimerCallBack(x) PROVE DeletedInv'
  BY <1>11 DEF OnTimerCallBack
<1> QED
  BY <1>1, <1>2, <1>3, <1>4, <1>5, <1>6, <1>7, <1>8, <1>9, <1>10, <1>11
  DEF Next, OnTimer, ThreadStep

(* An event that the loop thread has deleted does not come back, for any
   timer events and whatever batch is under way.                            *)
THEOREM DeletedIsOut ==
  ASSUME Adders = {}
  PROVE  Spec => []DeletedStaysOut
<1>1. Init => DeletedInv
  BY LoopThreadIn DEF Init, DeletedInv, DeletePCs
<1>2. TypeInv /\ MapInv /\ DeletedInv /\ [Next]_vars => DeletedInv'
  BY DeletedInvNext
<1>3. DeletedInv => DeletedStaysOut
  BY LoopThreadIn DEF DeletedInv, Out, DeletedStaysOut
<1> QED
  BY <1>1, <1>2, <1>3, TypeInvariant, MapInvariant, SafetySpec, PTL
=============================================================================
