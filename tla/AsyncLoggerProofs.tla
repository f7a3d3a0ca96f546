------------------------- MODULE AsyncLoggerProofs --------------------------
(***************************************************************************)
(* What is proved about module AsyncLogger for any number of producers,    *)
(* batches, places and midnights: its types, that every batch is written   *)
(* once and in order, the bounds of the queue and of the files.            *)
(***************************************************************************)
EXTENDS AsyncLogger, FiniteSetTheorems, SequenceTheorems, TLAPS

LEMMA SafetySpec == Spec => Init /\ [][Next]_vars
PROOF BY PTL DEF Spec

(* What producers and writer hold in each of their steps.                  *)
HandsInv ==
  /\ stage \in {"unlock", "post", "write"} => tmp \in Batches
  /\ stage \in {"wait", "lock", "pop", "check", "destroy"} => tmp = NoBatch
  /\ \A p \in Producers : pc[p] \in {"empty", "lock", "push"} => adding[p] \in Batches
  /\ myDate # NoDay /\ stage # "exited" => openFile \in File

TypeInv == TypeOK /\ HandsInv

LEMMA TypeInit == Init => TypeInv
<1> SUFFICES ASSUME Init PROVE TypeInv
  OBVIOUS
<1> USE BoundsAssumption DEF Init
<1>1. /\ pc \in [Producers -> PCs]
      /\ adding \in [Producers -> Batches \cup {NoBatch}]
      /\ stage \in Stages /\ tmp \in Batches \cup {NoBatch}
  BY DEF PCs, Stages
<1>2. queue \in Seq(Batches) /\ pushed \in Seq(Batches) /\ written \in Seq(Batches)
  BY EmptySeq
<1>3. DOMAIN files = {}
  OBVIOUS
<1>4. /\ locked \in BOOLEAN /\ stopFlag \in BOOLEAN
      /\ fullSem \in Nat /\ emptySem \in Nat /\ fileNo \in Nat
      /\ today \in Nat /\ myDate \in Nat \cup {NoDay} /\ openFile \in File \cup {<<>>}
  OBVIOUS
<1>5. HandsInv
  BY DEF HandsInv
<1> QED
  BY <1>1, <1>2, <1>3, <1>4, <1>5 DEF TypeInv, TypeOK

LEMMA TypeStep == TypeInv /\ [Next]_vars => TypeInv'
<1> SUFFICES ASSUME TypeInv, [Next]_vars PROVE TypeInv'
  OBVIOUS
<1> USE DEF TypeInv, TypeOK, HandsInv, vars, callVars, semVars, fileVars, PCs, Stages
<1>1. ASSUME NEW p \in Producers, PushBegin(p) PROVE TypeInv'
  BY <1>1 DEF PushBegin, Step
<1>2. ASSUME NEW p \in Producers, PushWaitEmpty(p) PROVE TypeInv'
  BY <1>2 DEF PushWaitEmpty, Step
<1>3. ASSUME NEW p \in Producers, PushLock(p) PROVE TypeInv'
  BY <1>3 DEF PushLock, Step
<1>4. ASSUME NEW p \in Producers, PushAppend(p) PROVE TypeInv'
  BY <1>4 DEF PushAppend, Step
<1>5. ASSUME NEW p \in Producers, PushUnlock(p) PROVE TypeInv'
  BY <1>5 DEF PushUnlock, Step
<1>6. ASSUME NEW p \in Producers, PushPostFull(p) PROVE TypeInv'
  BY <1>6 DEF PushPostFull, Step
<1>7. ASSUME NEW p \in Producers, PushDestroy(p) PROVE TypeInv'
  BY <1>7 DEF PushDestroy, Step
<1>8. ASSUME NEW p \in Producers, Stop(p) PROVE TypeInv'
  BY <1>8 DEF Stop, Step
<1>9. ASSUME NEW p \in Producers, Join(p) PROVE TypeInv'
  BY <1>9 DEF Join, Step
<1>10. CASE WaitFull
  BY <1>10 DEF WaitFull, GoTo
<1>11. CASE Lock
  BY <1>11 DEF Lock, GoTo
<1>12. CASE Pop
  BY <1>12, HeadTailProperties DEF Pop, GoTo
<1>13. CASE Unlock
  BY <1>13 DEF Unlock, GoTo
<1>14. CASE PostEmpty
  BY <1>14 DEF PostEmpty, GoTo
<1>15. CASE WriteBatch
  <2>1. Current \in File /\ Number \in Nat
    BY <1>15 DEF WriteBatch, GoTo, Current, Number, NewDay, NoDay, File
  <2>2. Target \in File
    BY <2>1 DEF Target, File
  <2>3. tmp \in Batches /\ Size[tmp] \in Nat
    BY <1>15, BatchesAssumption DEF WriteBatch, GoTo
  <2>4. SizeOf(Target) \in Nat
    BY DEF SizeOf
  <2>5. DOMAIN files' \in SUBSET File /\ \A f \in DOMAIN files' : files'[f] \in Nat
    <3>1. /\ DOMAIN files' = DOMAIN files \cup {Target}
          /\ \A f \in DOMAIN files' :
               files'[f] = IF f = Target THEN SizeOf(f) + Size[tmp] ELSE files[f]
      BY <1>15 DEF WriteBatch
    <3> QED
      BY <3>1, <2>2, <2>3, <2>4
  <2>6. written' \in Seq(Batches)
    BY <1>15, <2>3 DEF WriteBatch
  <2>7. /\ openFile' \in File /\ fileNo' \in Nat /\ myDate' \in Nat
        /\ stage' = "check" /\ tmp' = NoBatch
    BY <1>15, <2>1, <2>2 DEF WriteBatch, GoTo
  <2>8. UNCHANGED <<callVars, locked, semVars, queue, stopFlag, today, pushed>>
    BY <1>15 DEF WriteBatch
  <2> QED
    BY <2>5, <2>6, <2>7, <2>8
<1>16. CASE OpenFails
  BY <1>16 DEF OpenFails, GoTo
<1>17. CASE RolloverFails
  BY <1>17 DEF RolloverFails, GoTo
<1>18. CASE CheckStop
  BY <1>18 DEF CheckStop
<1>19. CASE Destroy
  BY <1>19 DEF Destroy, GoTo
<1>20. CASE Midnight
  BY <1>20 DEF Midnight
<1>21. CASE UNCHANGED vars
  BY <1>21
<1> HIDE DEF TypeInv, TypeOK, HandsInv, vars, callVars, semVars, fileVars, PCs, Stages
<1> QED
  BY <1>1, <1>2, <1>3, <1>4, <1>5, <1>6, <1>7, <1>8, <1>9, <1>10, <1>11, <1>12,
     <1>13, <1>14, <1>15, <1>16, <1>17, <1>18, <1>19, <1>20, <1>21
  DEF Next, Loop, PushLogToAsyncBuffer

(* Every variable keeps its type (log.h 132-173).                          *)
THEOREM TypeCorrect == Spec => []TypeOK
<1>1. Init => TypeInv
  BY TypeInit
<1>2. TypeInv /\ [Next]_vars => TypeInv'
  BY TypeStep
<1>3. TypeInv => TypeOK
  BY DEF TypeInv
<1> QED
  BY <1>1, <1>2, <1>3, SafetySpec, PTL

-----------------------------------------------------------------------------
(* Every batch is written once and in order: a push appends at the end of   *)
(* the queue, the writer takes the head, and nothing else changes the four  *)
(* parts of the equation.                                                  *)

(* The head of one sequence moves to the end of another: a pop and the hand
   of the writer.                                                          *)
LEMMA HeadMovesOver ==
  ASSUME NEW S, NEW s \in Seq(S), NEW e \in S, NEW t \in Seq(S)
  PROVE  s \o (<<e>> \o t) = (s \o <<e>>) \o t
<1> DEFINE u == <<e>>
<1>1. u \in Seq(S)
  OBVIOUS
<1> HIDE DEF u
<1>2. s \o (u \o t) = (s \o u) \o t
  BY <1>1, ConcatAssociative
<1> QED
  BY <1>2 DEF u

LEMMA BatchStep == TypeInv /\ EveryBatchOnce /\ [Next]_vars => EveryBatchOnce'
<1> SUFFICES ASSUME TypeInv, EveryBatchOnce, [Next]_vars PROVE EveryBatchOnce'
  OBVIOUS
<1> DEFINE quiet == UNCHANGED <<pushed, written, tmp, queue>>
<1>q. ASSUME quiet PROVE EveryBatchOnce'
  BY <1>q DEF EveryBatchOnce, InHand
<1>t. /\ queue \in Seq(Batches) /\ pushed \in Seq(Batches) /\ written \in Seq(Batches)
      /\ tmp \in Batches \cup {NoBatch}
  BY DEF TypeInv, TypeOK
<1>h. InHand \in Seq(Batches)
  BY <1>t DEF InHand
<1>1. ASSUME NEW p \in Producers, PushAppend(p) PROVE EveryBatchOnce'
  <2> DEFINE b == adding[p]
  <2>1. b \in Batches
    BY <1>1 DEF PushAppend, Step, TypeInv, HandsInv
  <2>0. /\ queue' = Append(queue, b) /\ pushed' = Append(pushed, b)
        /\ tmp' = tmp /\ written' = written
    BY <1>1 DEF PushAppend, fileVars
  <2>2. queue' = queue \o <<b>> /\ pushed' = pushed \o <<b>> /\ InHand' = InHand
    BY <2>0, <1>t, <2>1 DEF InHand
  <2>3. <<b>> \in Seq(Batches) /\ written \o InHand \in Seq(Batches)
    BY <2>1, <1>t, <1>h
  <2>4. (written \o InHand) \o (queue \o <<b>>) = ((written \o InHand) \o queue) \o <<b>>
    BY <2>3, <1>t, ConcatAssociative
  <2> QED
    BY <2>0, <2>2, <2>4 DEF EveryBatchOnce
<1>2. CASE Pop
  <2>1. /\ queue # <<>> /\ tmp = NoBatch /\ tmp' = Head(queue) /\ queue' = Tail(queue)
        /\ UNCHANGED <<pushed, written>>
    BY <1>2 DEF Pop, GoTo, TypeInv, HandsInv, fileVars
  <2>2. Head(queue) \in Batches /\ Head(queue) # NoBatch /\ Tail(queue) \in Seq(Batches)
    BY <2>1, <1>t, HeadTailProperties, BatchesAssumption
  <2>3. queue = <<Head(queue)>> \o Tail(queue)
    BY <2>1, <1>t, HeadTailProperties
  <2>4. InHand = <<>> /\ InHand' = <<Head(queue)>>
    BY <2>1, <2>2 DEF InHand
  <2>5. written \o InHand = written
    BY <2>4, <1>t, ConcatEmptySeq
  <2>6. written \o (<<Head(queue)>> \o Tail(queue))
          = (written \o <<Head(queue)>>) \o Tail(queue)
    BY <2>2, <1>t, HeadMovesOver
  <2> QED
    BY <2>1, <2>3, <2>4, <2>5, <2>6 DEF EveryBatchOnce
<1>3. CASE WriteBatch
  <2>1. /\ tmp \in Batches /\ tmp # NoBatch /\ tmp' = NoBatch
        /\ written' = Append(written, tmp) /\ UNCHANGED <<queue, pushed>>
    BY <1>3, BatchesAssumption DEF WriteBatch, GoTo, TypeInv, HandsInv
  <2>2. InHand = <<tmp>> /\ InHand' = <<>>
    BY <2>1 DEF InHand
  <2>3. Append(written, tmp) \in Seq(Batches) /\ Append(written, tmp) = written \o <<tmp>>
    BY <2>1, <1>t
  <2>4. written' \o InHand' = written \o InHand
    BY <2>1, <2>2, <2>3, ConcatEmptySeq
  <2> QED
    BY <2>1, <2>4 DEF EveryBatchOnce
<1>4. ASSUME NEW p \in Producers,
             \/ PushBegin(p) \/ PushWaitEmpty(p) \/ PushLock(p) \/ PushUnlock(p)
             \/ PushPostFull(p) \/ PushDestroy(p) \/ Stop(p) \/ Join(p)
      PROVE  EveryBatchOnce'
  <2>1. quiet
    BY Zenon, <1>4 DEF PushBegin, PushWaitEmpty, PushLock, PushUnlock, PushPostFull,
       PushDestroy, Stop, Join, fileVars
  <2> QED
    BY <2>1, <1>q
<1>5. ASSUME \/ WaitFull \/ Lock \/ Unlock \/ PostEmpty \/ OpenFails \/ RolloverFails
             \/ CheckStop \/ Destroy \/ Midnight \/ UNCHANGED vars
      PROVE  EveryBatchOnce'
  <2>1. quiet
    BY Zenon, <1>5 DEF WaitFull, Lock, Unlock, PostEmpty, OpenFails, RolloverFails,
       CheckStop, Destroy, Midnight, vars, fileVars
  <2> QED
    BY <2>1, <1>q
<1> QED
  BY Zenon, <1>1, <1>2, <1>3, <1>4, <1>5 DEF Next, Loop, PushLogToAsyncBuffer

(* Every batch that was pushed is written once, in the order of the pushes,
   or still in the writer's hands or the queue (log.cc 282-284, 417).      *)
THEOREM BatchesOnceInOrder == Spec => []EveryBatchOnce
<1>1. Init => TypeInv /\ EveryBatchOnce
  <2>1. Init => EveryBatchOnce
    BY DEF Init, EveryBatchOnce, InHand
  <2> QED
    BY <2>1, TypeInit
<1>2. TypeInv /\ EveryBatchOnce /\ [Next]_vars => TypeInv' /\ EveryBatchOnce'
  BY TypeStep, BatchStep
<1> QED
  BY <1>1, <1>2, SafetySpec, PTL

-----------------------------------------------------------------------------
(* The queue.  Each place is free, taken by a producer that has not pushed  *)
(* yet, used, or used up by the writer and not given back; and each batch  *)
(* of the queue was announced, is about to be, or is the one for which the *)
(* writer was let in.  The two semaphores count the rest.                  *)

Coming  == {p \in Producers : pc[p] \in {"lock", "push"}}
Pushing == {p \in Producers : pc[p] \in {"unlock", "post"}}
ToPop   == IF stage \in {"lock", "pop"} THEN 1 ELSE 0
Popped  == IF stage \in {"unlock", "post"} THEN 1 ELSE 0

PlacesCounted ==
  emptySem + Len(queue) + Cardinality(Coming) + Popped = QueueSize
BatchesCounted ==
  fullSem + Cardinality(Pushing) + ToPop = Len(queue)

QueueInv == PlacesCounted /\ BatchesCounted

LEMMA ComingFinite ==
  /\ IsFiniteSet(Coming) /\ IsFiniteSet(Pushing)
  /\ Cardinality(Coming) \in Nat /\ Cardinality(Pushing) \in Nat
<1>1. Coming \in SUBSET Producers /\ Pushing \in SUBSET Producers
  BY DEF Coming, Pushing
<1>2. IsFiniteSet(Coming) /\ IsFiniteSet(Pushing)
  BY <1>1, FS_Subset, ProducersAssumption
<1> QED
  BY <1>2, FS_CardinalityType

LEMMA QueueInit == Init => QueueInv
<1> SUFFICES ASSUME Init PROVE QueueInv
  OBVIOUS
<1>1. Coming = {} /\ Pushing = {}
  BY DEF Init, Coming, Pushing
<1>2. Cardinality(Coming) = 0 /\ Cardinality(Pushing) = 0
  BY <1>1, FS_EmptySet
<1>3. emptySem = QueueSize /\ fullSem = 0 /\ Len(queue) = 0 /\ Popped = 0 /\ ToPop = 0
  BY DEF Init, Popped, ToPop
<1> QED
  BY <1>2, <1>3, BoundsAssumption DEF QueueInv, PlacesCounted, BatchesCounted

LEMMA QueueStep == TypeInv /\ QueueInv /\ [Next]_vars => QueueInv'
<1> SUFFICES ASSUME TypeInv, QueueInv, [Next]_vars PROVE QueueInv'
  OBVIOUS
<1>t. /\ pc \in [Producers -> PCs] /\ stage \in Stages
      /\ fullSem \in Nat /\ emptySem \in Nat /\ queue \in Seq(Batches)
      /\ Len(queue) \in Nat /\ QueueSize \in Nat
  BY BoundsAssumption, LenProperties DEF TypeInv, TypeOK
<1>c. Cardinality(Coming) \in Nat /\ Cardinality(Pushing) \in Nat
  BY ComingFinite
<1>n. ToPop \in 0..1 /\ Popped \in 0..1
  BY DEF ToPop, Popped
<1>1. ASSUME NEW p \in Producers, PushWaitEmpty(p) PROVE QueueInv'
  <2>1. p \notin Coming /\ Coming' = Coming \cup {p} /\ Pushing' = Pushing
    BY <1>1, <1>t DEF PushWaitEmpty, Step, Coming, Pushing
  <2>2. Cardinality(Coming') = Cardinality(Coming) + 1
    BY <2>1, ComingFinite, FS_AddElement
  <2>3. /\ emptySem' = emptySem - 1 /\ UNCHANGED <<fullSem, queue>>
        /\ ToPop' = ToPop /\ Popped' = Popped
    BY <1>1 DEF PushWaitEmpty, ToPop, Popped
  <2> QED
    BY <1>t, <1>c, <1>n, <2>1, <2>2, <2>3 DEF QueueInv, PlacesCounted, BatchesCounted
<1>2. ASSUME NEW p \in Producers, PushAppend(p) PROVE QueueInv'
  <2>1. /\ p \in Coming /\ Coming' = Coming \ {p}
        /\ p \notin Pushing /\ Pushing' = Pushing \cup {p}
    BY <1>2, <1>t DEF PushAppend, Step, Coming, Pushing
  <2>2. /\ Cardinality(Coming') = Cardinality(Coming) - 1
        /\ Cardinality(Pushing') = Cardinality(Pushing) + 1
    BY <2>1, ComingFinite, FS_AddElement, FS_RemoveElement
  <2>3. /\ queue' = Append(queue, adding[p])
        /\ UNCHANGED <<fullSem, emptySem, stage>>
    BY <1>2 DEF PushAppend, semVars
  <2>4. Len(queue') = Len(queue) + 1
    BY <2>3, <1>t
  <2>5. ToPop' = ToPop /\ Popped' = Popped
    BY <2>3 DEF ToPop, Popped
  <2>6. PlacesCounted'
    BY <1>t, <1>c, <1>n, <2>2, <2>3, <2>4, <2>5 DEF QueueInv, PlacesCounted
  <2>7. BatchesCounted'
    BY <1>t, <1>c, <1>n, <2>2, <2>3, <2>4, <2>5 DEF QueueInv, BatchesCounted
  <2> QED
    BY <2>6, <2>7 DEF QueueInv
<1>3. ASSUME NEW p \in Producers, PushPostFull(p) PROVE QueueInv'
  <2>1. p \in Pushing /\ Pushing' = Pushing \ {p} /\ Coming' = Coming
    BY <1>3, <1>t DEF PushPostFull, Step, Coming, Pushing
  <2>2. Cardinality(Pushing') = Cardinality(Pushing) - 1
    BY <2>1, ComingFinite, FS_RemoveElement
  <2>3. /\ fullSem' = fullSem + 1 /\ UNCHANGED <<emptySem, queue>>
        /\ ToPop' = ToPop /\ Popped' = Popped
    BY <1>3 DEF PushPostFull, ToPop, Popped
  <2> QED
    BY <1>t, <1>c, <1>n, <2>1, <2>2, <2>3 DEF QueueInv, PlacesCounted, BatchesCounted
<1>4. ASSUME NEW p \in Producers,
             \/ PushBegin(p) \/ PushLock(p) \/ PushUnlock(p) \/ PushDestroy(p)
             \/ Stop(p) \/ Join(p)
      PROVE  QueueInv'
  <2>1. Coming' = Coming /\ Pushing' = Pushing
    BY <1>4, <1>t DEF PushBegin, PushLock, PushUnlock, PushDestroy, Stop, Join, Step,
       Coming, Pushing
  <2>2. UNCHANGED <<emptySem, fullSem, queue, stage>>
    BY Zenon, <1>4 DEF PushBegin, PushLock, PushUnlock, PushDestroy, Stop, Join, semVars
  <2>3. ToPop' = ToPop /\ Popped' = Popped
    BY <2>2 DEF ToPop, Popped
  <2> QED
    BY <2>1, <2>2, <2>3 DEF QueueInv, PlacesCounted, BatchesCounted
<1>5. ASSUME UNCHANGED pc PROVE Coming' = Coming /\ Pushing' = Pushing
  BY <1>5 DEF Coming, Pushing
<1>6. CASE WaitFull
  <2>1. /\ fullSem' = fullSem - 1 /\ UNCHANGED <<emptySem, queue, pc>>
        /\ ToPop = 0 /\ ToPop' = 1 /\ Popped = 0 /\ Popped' = 0
    BY <1>6 DEF WaitFull, GoTo, ToPop, Popped, callVars
  <2> QED
    BY <1>t, <1>c, <1>5, <2>1 DEF QueueInv, PlacesCounted, BatchesCounted
<1>7. CASE Pop
  <2>1. Len(queue') = Len(queue) - 1
    BY <1>7, <1>t, HeadTailProperties DEF Pop
  <2>2. /\ UNCHANGED <<emptySem, fullSem, pc>>
        /\ ToPop = 1 /\ ToPop' = 0 /\ Popped = 0 /\ Popped' = 1
    BY <1>7 DEF Pop, GoTo, ToPop, Popped, callVars, semVars
  <2> QED
    BY <1>t, <1>c, <1>5, <2>1, <2>2 DEF QueueInv, PlacesCounted, BatchesCounted
<1>8. CASE PostEmpty
  <2>1. /\ emptySem' = emptySem + 1 /\ UNCHANGED <<fullSem, queue, pc>>
        /\ ToPop = 0 /\ ToPop' = 0 /\ Popped = 1 /\ Popped' = 0
    BY <1>8 DEF PostEmpty, GoTo, ToPop, Popped, callVars
  <2> QED
    BY <1>t, <1>c, <1>5, <2>1 DEF QueueInv, PlacesCounted, BatchesCounted
<1>9. ASSUME \/ Lock \/ Unlock \/ WriteBatch \/ OpenFails \/ RolloverFails
             \/ CheckStop \/ Destroy \/ Midnight \/ UNCHANGED vars
      PROVE  QueueInv'
  <2>1. UNCHANGED <<emptySem, fullSem, queue, pc>>
    BY Zenon, <1>9 DEF Lock, Unlock, WriteBatch, OpenFails, RolloverFails, CheckStop,
       Destroy, Midnight, vars, callVars, semVars
  <2>2. ToPop' = ToPop /\ Popped' = Popped
    BY <1>9 DEF Lock, Unlock, WriteBatch, OpenFails, RolloverFails, CheckStop,
       Destroy, Midnight, vars, GoTo, ToPop, Popped
  <2> QED
    BY <2>1, <2>2, <1>5 DEF QueueInv, PlacesCounted, BatchesCounted
<1> QED
  BY Zenon, <1>1, <1>2, <1>3, <1>4, <1>6, <1>7, <1>8, <1>9
  DEF Next, Loop, PushLogToAsyncBuffer

(* The queue never exceeds ASYNC_LOG_QUEUE_SIZE, and the writer that has been
   let in finds a batch, so its wait for the condition (log.cc 277-280) is
   never needed.                                                           *)
THEOREM QueueBounded == Spec => []QueueWithinBounds
<1>1. Init => TypeInv /\ QueueInv
  BY TypeInit, QueueInit
<1>2. TypeInv /\ QueueInv /\ [Next]_vars => TypeInv' /\ QueueInv'
  BY TypeStep, QueueStep
<1>3. TypeInv /\ QueueInv => QueueWithinBounds
  <2> SUFFICES ASSUME TypeInv, QueueInv PROVE QueueWithinBounds
    OBVIOUS
  <2>1. /\ fullSem \in Nat /\ emptySem \in Nat /\ Len(queue) \in Nat /\ QueueSize \in Nat
        /\ queue \in Seq(Batches)
    BY BoundsAssumption, LenProperties DEF TypeInv, TypeOK
  <2>2. Popped \in Nat /\ ToPop \in Nat
    BY DEF Popped, ToPop
  <2>3. Len(queue) <= QueueSize
    BY <2>1, <2>2, ComingFinite DEF QueueInv, PlacesCounted
  <2>4. ASSUME stage \in {"lock", "pop"} PROVE Len(queue) > 0
    BY <2>1, <2>4, ComingFinite DEF QueueInv, BatchesCounted, ToPop
  <2> QED
    BY <2>1, <2>3, <2>4, EmptySeq DEF QueueWithinBounds
<1> QED
  BY <1>1, <1>2, <1>3, SafetySpec, PTL

-----------------------------------------------------------------------------
(* The files.  Names are used in order of day and number, so a file that a  *)
(* rollover opens is new, except the one with number 0: its number is used  *)
(* twice, once for the day and once for the first rollover.                *)

FilesInv ==
  /\ myDate <= today
  /\ \A f \in DOMAIN files : f[1] <= myDate /\ files[f] <= MaxFileSize + 2 * MaxBatch
  /\ stage # "exited" =>
       /\ myDate # NoDay =>
            openFile = <<myDate, IF fileNo = 0 THEN 0 ELSE fileNo - 1>>
       /\ \A f \in DOMAIN files : f[1] = myDate => f[2] <= openFile[2]
       /\ fileNo = 0 =>
            \A f \in DOMAIN files : f[1] = myDate => files[f] <= MaxFileSize + MaxBatch

LEMMA FilesInit == Init => FilesInv
BY DEF Init, FilesInv, NoDay

LEMMA FilesStep == TypeInv /\ FilesInv /\ [Next]_vars => FilesInv'
<1> SUFFICES ASSUME TypeInv, FilesInv, [Next]_vars PROVE FilesInv'
  OBVIOUS
<1>t. /\ today \in Nat /\ myDate \in Nat \cup {NoDay} /\ fileNo \in Nat
      /\ DOMAIN files \in SUBSET File /\ \A f \in DOMAIN files : files[f] \in Nat
      /\ MaxFileSize \in Nat /\ MaxBatch \in Nat
  BY BoundsAssumption, SizeAssumption DEF TypeInv, TypeOK
<1>1. CASE WriteBatch
  <2>1. /\ stage = "write" /\ stage' = "check"
        /\ myDate' = today /\ openFile' = Target /\ today' = today
        /\ fileNo' = IF TooLarge THEN Number + 1 ELSE Number
        /\ tmp \in Batches
    BY <1>1 DEF WriteBatch, GoTo, TypeInv, HandsInv
  <2>2. /\ DOMAIN files' = DOMAIN files \cup {Target}
        /\ \A f \in DOMAIN files' :
             files'[f] = IF f = Target THEN SizeOf(f) + Size[tmp] ELSE files[f]
    BY <1>1 DEF WriteBatch
  <2>3. Size[tmp] \in Nat /\ Size[tmp] <= MaxBatch
    BY <2>1, BatchesAssumption, SizeAssumption
  <2>4. SizeOf(Target) \in Nat /\ SizeOf(Current) \in Nat
    BY <1>t DEF SizeOf
  <2>5. \A f \in DOMAIN files :
          f \in File /\ f[1] \in Nat /\ f[2] \in Nat /\ f = <<f[1], f[2]>>
    BY <1>t DEF File
  <2>6. CASE NewDay
    <3>1. Current = <<today, 0>> /\ Number = 0
      BY <2>6 DEF Current, Number
    <3>2. \A f \in DOMAIN files : f[1] < today
      BY <2>5, <2>6, <1>t DEF FilesInv, NewDay, NoDay
    <3>3. Current \notin DOMAIN files
      BY <3>1, <3>2, <2>5
    <3>4. SizeOf(Current) = 0 /\ ~TooLarge /\ Target = Current
      BY <3>3, <1>t DEF SizeOf, TooLarge, Target
    <3>5. /\ myDate' = today /\ openFile' = <<today, 0>> /\ fileNo' = 0
          /\ DOMAIN files' = DOMAIN files \cup {<<today, 0>>}
          /\ files'[<<today, 0>>] = Size[tmp]
      BY <2>1, <2>2, <2>3, <3>1, <3>4
    <3>6. \A f \in DOMAIN files : files'[f] = files[f]
      BY <2>2, <3>3, <3>4
    <3>7. ASSUME NEW f \in DOMAIN files'
          PROVE  /\ f[1] <= today /\ files'[f] <= MaxFileSize + 2 * MaxBatch
                 /\ f[1] = today => f[2] <= 0 /\ files'[f] <= MaxFileSize + MaxBatch
      <4>1. CASE f = <<today, 0>>
        BY <4>1, <3>5, <2>3, <1>t
      <4>2. CASE f \in DOMAIN files
        BY <4>2, <3>2, <3>6, <2>5, <1>t DEF FilesInv
      <4> QED
        BY <4>1, <4>2, <3>5
    <3> QED
      BY <3>5, <3>7, <2>1, <1>t DEF FilesInv
  <2>7. CASE ~NewDay
    <3> DEFINE n == IF fileNo = 0 THEN 0 ELSE fileNo - 1
    <3>1. /\ myDate = today /\ Number = fileNo /\ n \in Nat
          /\ openFile = <<today, n>> /\ Current = <<today, n>>
      BY <2>7, <2>1, <1>t DEF NewDay, NoDay, FilesInv, Number, Current
    <3>2. \A f \in DOMAIN files : f[1] = today => f[2] <= n
      BY <2>1, <3>1 DEF FilesInv
    <3>3. CASE ~TooLarge
      <4>1. Target = <<today, n>> /\ fileNo' = fileNo /\ SizeOf(Target) <= MaxFileSize
        BY <3>1, <3>3, <2>1, <2>4, <1>t DEF Target, TooLarge
      <4>2. ASSUME NEW f \in DOMAIN files'
            PROVE  /\ f[1] <= today /\ files'[f] <= MaxFileSize + 2 * MaxBatch
                   /\ f[1] = today => f[2] <= n
                   /\ f[1] = today /\ fileNo = 0 => files'[f] <= MaxFileSize + MaxBatch
        <5>1. CASE f = Target
          BY <5>1, <4>1, <2>2, <2>3, <2>4, <1>t
        <5>2. CASE f # Target
          <6>1. f \in DOMAIN files /\ files'[f] = files[f]
            BY <5>2, <2>2
          <6> QED
            BY <6>1, <3>1, <3>2, <2>1, <1>t DEF FilesInv
        <5> QED
          BY <5>1, <5>2
      <4> QED
        BY <4>1, <4>2, <3>1, <2>1, <1>t DEF FilesInv
    <3>4. CASE TooLarge
      <4>1. Target = <<today, fileNo>> /\ fileNo' = fileNo + 1
        BY <3>1, <3>4, <2>1 DEF Target
      <4>2. SizeOf(Target) <= MaxFileSize + MaxBatch
        <5>1. CASE fileNo = 0
          BY <5>1, <4>1, <3>1, <2>1, <1>t DEF FilesInv, SizeOf
        <5>2. CASE fileNo # 0
          <6>1. Target \notin DOMAIN files
            BY <5>2, <4>1, <3>2, <1>t
          <6> QED
            BY <6>1, <1>t DEF SizeOf
        <5> QED
          BY <5>1, <5>2
      <4>3. ASSUME NEW f \in DOMAIN files'
            PROVE  /\ f[1] <= today /\ files'[f] <= MaxFileSize + 2 * MaxBatch
                   /\ f[1] = today => f[2] <= fileNo
        <5>1. CASE f = Target
          BY <5>1, <4>1, <4>2, <2>2, <2>3, <2>4, <1>t
        <5>2. CASE f # Target
          <6>1. f \in DOMAIN files /\ files'[f] = files[f]
            BY <5>2, <2>2
          <6> QED
            BY <6>1, <3>1, <3>2, <2>5, <1>t DEF FilesInv
        <5> QED
          BY <5>1, <5>2
      <4> QED
        BY <4>1, <4>3, <3>1, <2>1, <1>t DEF FilesInv
    <3> QED
      BY <3>3, <3>4
  <2> QED
    BY <2>6, <2>7
<1>2. CASE OpenFails
  BY <1>2, <1>t DEF OpenFails, GoTo, FilesInv, NoDay, File
<1>3. CASE Midnight
  BY <1>3, <1>t DEF Midnight, FilesInv, NoDay
<1>4. ASSUME NEW p \in Producers,
             \/ PushBegin(p) \/ PushWaitEmpty(p) \/ PushLock(p) \/ PushAppend(p)
             \/ PushUnlock(p) \/ PushPostFull(p) \/ PushDestroy(p) \/ Stop(p) \/ Join(p)
      PROVE  FilesInv'
  <2>1. UNCHANGED <<fileVars, stage>>
    BY Zenon, <1>4 DEF PushBegin, PushWaitEmpty, PushLock, PushAppend, PushUnlock,
       PushPostFull, PushDestroy, Stop, Join
  <2> QED
    BY <2>1 DEF FilesInv, fileVars
<1>5. ASSUME WaitFull \/ Lock \/ Pop \/ Unlock \/ PostEmpty \/ RolloverFails
             \/ CheckStop \/ Destroy \/ UNCHANGED vars
      PROVE  FilesInv'
  <2>1. UNCHANGED fileVars /\ (stage' # "exited" => stage # "exited")
    BY <1>5 DEF WaitFull, Lock, Pop, Unlock, PostEmpty, RolloverFails, CheckStop,
       Destroy, vars, GoTo
  <2> QED
    BY <2>1 DEF FilesInv, fileVars
<1> QED
  BY Zenon, <1>1, <1>2, <1>3, <1>4, <1>5 DEF Next, Loop, PushLogToAsyncBuffer

(* No file grows by more than two batches beyond the limit (log.cc 338-347),
   although the first rollover of a day opens file 0 again.                *)
THEOREM FilesBounded == Spec => []FileSizeBounded
<1>1. Init => TypeInv /\ FilesInv
  BY TypeInit, FilesInit
<1>2. TypeInv /\ FilesInv /\ [Next]_vars => TypeInv' /\ FilesInv'
  BY TypeStep, FilesStep
<1>3. FilesInv => FileSizeBounded
  BY DEF FilesInv, FileSizeBounded
<1> QED
  BY <1>1, <1>2, <1>3, SafetySpec, PTL
=============================================================================
