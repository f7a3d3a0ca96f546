---------------------------- MODULE AsyncLogger -----------------------------
(***************************************************************************)
(* One AsyncLogger (common/log.cc 258-423): threads push batches of lines  *)
(* into a bounded queue, a thread of its own writes them to files.  Two    *)
(* semaphores count the free and the used places, a mutex guards the       *)
(* queue.  The condition variable of the code is never waited on: fullSem  *)
(* admits the writer only when a batch is there (QueueWithinBounds), so it *)
(* is left out.                                                            *)
(*                                                                         *)
(* The ScopeMutex of both sides unlocks twice (module EventLoop); when two *)
(* threads are inside together the behaviour is undefined, and so it is    *)
(* when the file of a rollover cannot be opened, which the code does not   *)
(* ask.  The signal handler's Stop and join are here too, in a thread that *)
(* the signal found outside a push.                                        *)
(***************************************************************************)
EXTENDS Integers, Sequences, FiniteSets

CONSTANTS Producers,       \* threads that push, or run the signal handler
          Batches,         \* the batches of a run, each pushed once
          Size,            \* the bytes of each of them
          QueueSize,       \* ASYNC_LOG_QUEUE_SIZE
          MaxBatch,        \* the bytes of the largest
          MaxFileSize,     \* myMaxFileSize
          Days,            \* bound: midnights in a run
          DiskFails,       \* whether fopen may fail
          NoBatch

ASSUME ProducersAssumption == IsFiniteSet(Producers)
ASSUME BatchesAssumption == NoBatch \notin Batches /\ Size \in [Batches -> Nat]
ASSUME SizeAssumption == MaxBatch \in Nat /\ \A b \in Batches : Size[b] <= MaxBatch
ASSUME BoundsAssumption ==
  QueueSize \in Nat \ {0} /\ MaxFileSize \in Nat /\ Days \in Nat
ASSUME DiskAssumption == DiskFails \in BOOLEAN

NoDay == -1
File  == Nat \X Nat        \* the day and the number in the name of a file

VARIABLES
  pc,              \* where each producer is in PushLogToAsyncBuffer
  adding,          \* the batch it is pushing
  stage,           \* where the writer is in Loop()
  tmp,             \* the batch the writer has taken
  locked,          \* the word of myMutex
  fullSem, emptySem,
  queue,           \* myAsyncLogBuffer
  stopFlag,        \* myStopFlag
  today,           \* the date localtime_r returns
  myDate,          \* the date of the last write
  openFile,        \* the file my_file_handler writes
  fileNo,          \* myFileNo
  files,           \* the size of every file written
  pushed, written  \* history: batches in the order of push and of write

fileVars    == <<today, myDate, openFile, fileNo, files, written>>
semVars     == <<fullSem, emptySem>>
callVars    == <<pc, adding>>
vars == <<callVars, stage, tmp, locked, semVars, queue, stopFlag, fileVars, pushed>>

PCs == {"idle", "empty", "lock", "push", "unlock", "post", "destroy", "join",
        "raised"}
Stages == {"wait", "lock", "pop", "unlock", "post", "write", "check", "destroy",
           "exited", "crashed"}

TypeOK ==
  /\ pc \in [Producers -> PCs]
  /\ adding \in [Producers -> Batches \cup {NoBatch}]
  /\ stage \in Stages
  /\ tmp \in Batches \cup {NoBatch}
  /\ locked \in BOOLEAN
  /\ fullSem \in Nat /\ emptySem \in Nat
  /\ queue \in Seq(Batches)
  /\ stopFlag \in BOOLEAN
  /\ today \in Nat /\ myDate \in Nat \cup {NoDay}
  /\ openFile \in File \cup {<<>>}
  /\ fileNo \in Nat
  /\ DOMAIN files \in SUBSET File
  /\ \A f \in DOMAIN files : files[f] \in Nat
  /\ pushed \in Seq(Batches) /\ written \in Seq(Batches)

(* The constructor returns when the writer has reached its loop.  There is no
   file yet: fopen("a") would go on in one that an earlier process has left,
   so what is said of sizes is what this process adds to new files.        *)
Init ==
  /\ pc = [p \in Producers |-> "idle"]
  /\ adding = [p \in Producers |-> NoBatch]
  /\ stage = "wait"
  /\ tmp = NoBatch
  /\ locked = FALSE
  /\ fullSem = 0 /\ emptySem = QueueSize
  /\ queue = <<>>
  /\ stopFlag = FALSE
  /\ today = 0 /\ myDate = NoDay
  /\ openFile = <<>>
  /\ fileNo = 0
  /\ files = [f \in {} |-> 0]
  /\ pushed = <<>> /\ written = <<>>

Inside(p)    == pc[p] = "push"
WriterInside == stage = "pop"

(* Two threads are about to touch the queue at the same time.              *)
Raced == \/ \E p \in Producers : Inside(p) /\ WriterInside
         \/ \E p, q \in Producers : p # q /\ Inside(p) /\ Inside(q)

Undefined == Raced \/ stage = "crashed"

(* The signal handler has raised its signal again.                         *)
Ended == \E p \in Producers : pc[p] = "raised"

-----------------------------------------------------------------------------
(* PushLogToAsyncBuffer(vec).                                              *)

Step(p, from, to) == pc[p] = from /\ pc' = [pc EXCEPT ![p] = to]

PushBegin(p) ==
  /\ Step(p, "idle", "empty")
  /\ \E b \in Batches :
       /\ \A i \in 1..Len(pushed) : pushed[i] # b
       /\ \A q \in Producers : adding[q] # b
       /\ adding' = [adding EXCEPT ![p] = b]
  /\ UNCHANGED <<stage, tmp, locked, semVars, queue, stopFlag, fileVars, pushed>>

(* Mutant: sem_trywait, and its result is not looked at. *)
PushTryEmpty(p) ==
  /\ Step(p, "empty", "lock")
  /\ emptySem' = IF emptySem > 0 THEN emptySem - 1 ELSE 0
  /\ UNCHANGED <<adding, stage, tmp, locked, fullSem, queue, stopFlag, fileVars,
                 pushed>>

PushWaitEmpty(p) ==
  /\ Step(p, "empty", "lock")
  /\ emptySem > 0
  /\ emptySem' = emptySem - 1
  /\ UNCHANGED <<adding, stage, tmp, locked, fullSem, queue, stopFlag, fileVars,
                 pushed>>

PushLock(p) ==
  /\ Step(p, "lock", "push")
  /\ ~locked
  /\ locked' = TRUE
  /\ UNCHANGED <<adding, stage, tmp, semVars, queue, stopFlag, fileVars, pushed>>

(* Mutant: the new batch goes in front of those that wait. *)
PushAppendFirst(p) ==
  /\ Step(p, "push", "unlock")
  /\ queue' = <<adding[p]>> \o queue
  /\ pushed' = Append(pushed, adding[p])
  /\ adding' = [adding EXCEPT ![p] = NoBatch]
  /\ UNCHANGED <<stage, tmp, locked, semVars, stopFlag, fileVars>>

PushAppend(p) ==
  /\ Step(p, "push", "unlock")
  /\ queue' = Append(queue, adding[p])
  /\ pushed' = Append(pushed, adding[p])
  /\ adding' = [adding EXCEPT ![p] = NoBatch]
  /\ UNCHANGED <<stage, tmp, locked, semVars, stopFlag, fileVars>>

PushUnlock(p) ==
  /\ Step(p, "unlock", "post")
  /\ locked' = FALSE
  /\ UNCHANGED <<adding, stage, tmp, semVars, queue, stopFlag, fileVars, pushed>>

(* Mutant: nobody tells the writer. *)
PushPostForgotten(p) ==
  /\ Step(p, "post", "destroy")
  /\ UNCHANGED <<adding, stage, tmp, locked, semVars, queue, stopFlag, fileVars,
                 pushed>>

PushPostFull(p) ==
  /\ Step(p, "post", "destroy")
  /\ fullSem' = fullSem + 1
  /\ UNCHANGED <<adding, stage, tmp, locked, emptySem, queue, stopFlag, fileVars,
                 pushed>>

(* ~ScopeMutex: the second unlock.                                         *)
PushDestroy(p) ==
  /\ Step(p, "destroy", "idle")
  /\ locked' = FALSE
  /\ UNCHANGED <<adding, stage, tmp, semVars, queue, stopFlag, fileVars, pushed>>

-----------------------------------------------------------------------------
(* The signal handler, after it has handed over what it had: Stop, then    *)
(* pthread_join, then raise.                                               *)

Stop(p) ==
  /\ Step(p, "idle", "join")
  /\ stopFlag' = TRUE
  /\ UNCHANGED <<adding, stage, tmp, locked, semVars, queue, fileVars, pushed>>

Join(p) ==
  /\ Step(p, "join", "raised")
  /\ stage = "exited"
  /\ UNCHANGED <<adding, stage, tmp, locked, semVars, queue, stopFlag, fileVars,
                 pushed>>

-----------------------------------------------------------------------------
(* The writer, in the order of Loop().                                     *)

GoTo(from, to) == stage = from /\ stage' = to

WaitFull ==
  /\ GoTo("wait", "lock")
  /\ fullSem > 0
  /\ fullSem' = fullSem - 1
  /\ UNCHANGED <<callVars, tmp, locked, emptySem, queue, stopFlag, fileVars, pushed>>

Lock ==
  /\ GoTo("lock", "pop")
  /\ ~locked
  /\ locked' = TRUE
  /\ UNCHANGED <<callVars, tmp, semVars, queue, stopFlag, fileVars, pushed>>

Pop ==
  /\ GoTo("pop", "unlock")
  /\ queue # <<>>
  /\ tmp' = Head(queue)
  /\ queue' = Tail(queue)
  /\ UNCHANGED <<callVars, locked, semVars, stopFlag, fileVars, pushed>>

Unlock ==
  /\ GoTo("unlock", "post")
  /\ locked' = FALSE
  /\ UNCHANGED <<callVars, tmp, semVars, queue, stopFlag, fileVars, pushed>>

(* Mutant: the place that was used is not given back. *)
PostEmptyForgotten ==
  /\ GoTo("post", "write")
  /\ UNCHANGED <<callVars, tmp, locked, semVars, queue, stopFlag, fileVars, pushed>>

PostEmpty ==
  /\ GoTo("post", "write")
  /\ emptySem' = emptySem + 1
  /\ UNCHANGED <<callVars, tmp, locked, fullSem, queue, stopFlag, fileVars, pushed>>

-----------------------------------------------------------------------------
(* Lines 288-358: which file, then the batch and fflush.                   *)

SizeOf(f) == IF f \in DOMAIN files THEN files[f] ELSE 0

(* A new day, or the first batch, opens a file anew.                       *)
NewDay == today # myDate
Number == IF NewDay THEN 0 ELSE fileNo
Current == IF NewDay THEN <<today, Number>> ELSE openFile

(* The file that is open has grown beyond the limit.                       *)
TooLarge == SizeOf(Current) > MaxFileSize

(* Mutant: a file that is too large is written on. *)
TargetSame == Current

(* myFileNo++ is the number of the next file, and of the one after it.     *)
Target == IF TooLarge THEN <<today, Number>> ELSE Current

(* What fwrite and fflush return is not looked at: a batch is written when the
   calls are made, wherever its bytes are then.                            *)
WriteBatch ==
  /\ GoTo("write", "check")
  /\ myDate' = today
  /\ openFile' = Target
  /\ fileNo' = IF TooLarge THEN Number + 1 ELSE Number
  /\ files' = [f \in DOMAIN files \cup {Target} |->
                 IF f = Target THEN SizeOf(f) + Size[tmp] ELSE files[f]]
  /\ written' = Append(written, tmp)
  /\ tmp' = NoBatch
  /\ UNCHANGED <<callVars, locked, semVars, queue, stopFlag, today, pushed>>

(* fopen fails on a new day: the thread returns, the destructor unlocks.   *)
OpenFails ==
  /\ GoTo("write", "exited")
  /\ DiskFails /\ NewDay
  /\ myDate' = today
  /\ fileNo' = 0
  /\ locked' = FALSE
  /\ UNCHANGED <<callVars, tmp, semVars, queue, stopFlag, today, openFile, files,
                 written, pushed>>

(* fopen fails in a rollover: fwrite on a null pointer.                    *)
RolloverFails ==
  /\ GoTo("write", "crashed")
  /\ DiskFails /\ TooLarge
  /\ UNCHANGED <<callVars, tmp, locked, semVars, queue, stopFlag, fileVars, pushed>>

(* Mutant: the flag is not looked at. *)
CheckStopForgotten ==
  /\ GoTo("check", "destroy")
  /\ UNCHANGED <<callVars, tmp, locked, semVars, queue, stopFlag, fileVars, pushed>>

CheckStop ==
  /\ stage = "check"
  /\ IF stopFlag
       THEN stage' = "exited" /\ locked' = FALSE
       ELSE stage' = "destroy" /\ UNCHANGED locked
  /\ UNCHANGED <<callVars, tmp, semVars, queue, stopFlag, fileVars, pushed>>

(* The end of the body of the while: ~ScopeMutex.                          *)
Destroy ==
  /\ GoTo("destroy", "wait")
  /\ locked' = FALSE
  /\ UNCHANGED <<callVars, tmp, semVars, queue, stopFlag, fileVars, pushed>>

-----------------------------------------------------------------------------
Midnight ==
  /\ today < Days
  /\ today' = today + 1
  /\ UNCHANGED <<callVars, stage, tmp, locked, semVars, queue, stopFlag, myDate,
                 openFile, fileNo, files, written, pushed>>

PushLogToAsyncBuffer(p) ==
  \/ PushWaitEmpty(p) \/ PushLock(p) \/ PushAppend(p) \/ PushUnlock(p)
  \/ PushPostFull(p) \/ PushDestroy(p)

Loop ==
  \/ WaitFull \/ Lock \/ Pop \/ Unlock \/ PostEmpty
  \/ WriteBatch \/ OpenFails \/ RolloverFails
  \/ CheckStop \/ Destroy

(* Nothing can happen but a new call.                                      *)
Finished ==
  \/ Undefined
  \/ Ended
  \/ /\ stage = "exited" \/ (stage = "wait" /\ fullSem = 0)
     /\ \A p \in Producers : \/ pc[p] \in {"idle", "join"}
                             \/ pc[p] = "empty" /\ emptySem = 0

Next ==
  \/ /\ ~Undefined /\ ~Ended
     /\ \/ Loop
        \/ Midnight
        \/ \E p \in Producers : \/ PushBegin(p) \/ PushLogToAsyncBuffer(p)
                                \/ Stop(p) \/ Join(p)
  \/ Finished /\ UNCHANGED vars

(* Threads that can run are run.  The batches are finitely many, so weak
   fairness is enough for the mutex and the semaphores.                    *)
Fairness ==
  /\ WF_vars(~Undefined /\ ~Ended /\ Loop)
  /\ \A p \in Producers :
       WF_vars(~Undefined /\ ~Ended /\ (PushLogToAsyncBuffer(p) \/ Join(p)))

Spec == Init /\ [][Next]_vars /\ Fairness

-----------------------------------------------------------------------------
(* A batch is written once, and the batches are written in the order of the
   pushes, whichever threads push: what was pushed is what was written, the
   batch in the writer's hands, and the queue.                             *)
InHand == IF tmp = NoBatch THEN <<>> ELSE <<tmp>>
EveryBatchOnce == pushed = written \o InHand \o queue

(* The semaphores keep the queue within its bound, and never admit the writer
   to an empty queue, so that it need not wait for the condition.          *)
QueueWithinBounds ==
  /\ Len(queue) <= QueueSize
  /\ stage \in {"lock", "pop"} => queue # <<>>

(* A file that the process has begun grows by at most two batches beyond the
   limit: one that was written before its size was looked at, and one more for
   the file a rollover opens a second time (log.cc 338-348).               *)
FileSizeBounded == \A f \in DOMAIN files : files[f] <= MaxFileSize + 2 * MaxBatch

(* A push returns, however full the queue is, unless the writer has gone.  *)
PushReturns ==
  \A p \in Producers :
    pc[p] = "empty" ~> pc[p] = "idle" \/ stage = "exited" \/ Undefined \/ Ended

(* A batch that was pushed is written, unless the writer has gone.         *)
BatchesAreWritten ==
  queue # <<>> ~> queue = <<>> \/ stage = "exited" \/ Undefined \/ Ended

(* The writer looks at the stop flag only after a batch (log.cc:360), so the
   handler's pthread_join returns as long as there is one to write when Stop
   is called, however Stop falls into the loop; with nothing left to write
   StopEndsLogger fails.                                                   *)
StopWithWorkEnds ==
  stopFlag /\ (queue # <<>> \/ tmp # NoBatch) ~> stage = "exited" \/ Undefined

-----------------------------------------------------------------------------
(* What the source says and the code does not do: these fail, see
   AsyncLogger_claims.cfg.                                                 *)

(* "Shared memory, mind the thread safety" (log.h:136): the queue is never
   touched by two threads at once.                                         *)
QueueIsLocked == ~Raced

(* Stop: "when it is set to true, the loop of the asynchronous log is left"
   (log.cc:383).                                                           *)
StopEndsLogger == stopFlag ~> stage = "exited" \/ Undefined

(* The signal handler flushes the buffers to disk and waits for the writer
   before it lets the process die (log.h:222, log.cc:32): by then everything
   pushed before has been written.  With one producer, whatever is still queued
   was pushed before.                                                      *)
AllWrittenAtExit == Ended => queue = <<>>

(* "When the file has grown beyond the limit, close it and open another one"
   (log.cc:338): a file that is too large is not written again.            *)
RolloverOpensAnother ==
  [][\A f \in DOMAIN files : files[f] > MaxFileSize => files'[f] = files[f]]_vars
=============================================================================
