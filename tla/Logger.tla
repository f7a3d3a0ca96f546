------------------------------- MODULE Logger -------------------------------
(***************************************************************************)
(* The logger in front of the two asynchronous ones (common/log.cc):       *)
(* threads push lines into the rpc buffer or the application's buffer, a   *)
(* repeated timer of the main loop hands both over, and the signal handler *)
(* logs, hands over what is left and ends the process.                     *)
(*                                                                         *)
(* Each asynchronous logger is here what others see of it: the mutex of    *)
(* its queue, the two semaphores, and a writer that takes a batch and      *)
(* frees the mutex once more when it has written it.  What it does with    *)
(* the batch, and what the handler waits for when it has handed over, is   *)
(* module AsyncLogger.  A mutex is one Boolean, which any thread can       *)
(* clear, as the second unlock of ScopeMutex does.                         *)
(***************************************************************************)
EXTENDS Integers, Sequences, FiniteSets

CONSTANTS Threads, Main,   \* the threads; Main runs the timer
          Handler,         \* the signal handler, on top of some thread
          NoThread,
          MaxLines,        \* bound: lines that are pushed into a buffer
          SignalLines,     \* bound: lines that are begun before a signal
          QueueSize        \* ASYNC_LOG_QUEUE_SIZE

ASSUME ThreadsAssumption ==
  Main \in Threads /\ Handler \notin Threads /\ NoThread \notin Threads
ASSUME BoundsAssumption ==
  /\ MaxLines \in Nat /\ SignalLines \in Nat /\ SignalLines < MaxLines
  /\ QueueSize \in Nat \ {0, 1}

Actors == Threads \cup {Handler}
Buffers == {"rpc", "app"}   \* myBuffer and myMutex, myAppBuffer and myAppMutex

VARIABLES
  buffer,          \* the lines in each buffer
  locked,          \* whether each mutex is
  pushed,          \* how many lines have been pushed into each; lines are numbers
  handed,          \* the lines handed over to each asynchronous logger
  at, what,        \* where each actor is, and with which buffer
  tmp,             \* the vector it has swapped
  signal,          \* the thread that a signal has interrupted
  queueLocked,     \* whether myMutex of each asynchronous logger is
  fullSem, emptySem,
  writer           \* where the thread of each is

logVars == <<buffer, locked, pushed>>
queueVars == <<queueLocked, fullSem, emptySem, writer>>
vars == <<logVars, handed, at, what, tmp, signal, queueVars>>

(* Where a thread is in PushLogToAsyncBuffer, where it uses the vector of a
   buffer or the queue, and where it holds a mutex.                        *)
Pushing == {"hand", "queueLock", "queuePush", "queueFree"}
InVector == {"push", "swap"}
InQueue == {"queuePush"}
Holding == InVector \cup InQueue \cup {"unlock", "syncUnlock"}
Places == {"idle", "lock", "free", "syncLock", "syncFree", "handedOver"}
            \cup Pushing \cup Holding

TypeOK ==
  /\ buffer \in [Buffers -> Seq(1..MaxLines)]
  /\ handed \in [Buffers -> Seq(1..MaxLines)]
  /\ locked \in [Buffers -> BOOLEAN]
  /\ pushed \in [Buffers -> 0..MaxLines]
  /\ at \in [Actors -> Places]
  /\ what \in [Actors -> Buffers]
  /\ tmp \in [Actors -> Seq(1..MaxLines)]
  /\ signal \in Threads \cup {NoThread}
  /\ queueLocked \in [Buffers -> BOOLEAN]
  /\ fullSem \in [Buffers -> 0..QueueSize] /\ emptySem \in [Buffers -> 0..QueueSize]
  /\ writer \in [Buffers -> {"wait", "pop", "free"}]
  /\ \A a \in Actors : tmp[a] # <<>> => at[a] \in Pushing \cup {"syncUnlock"}

Init ==
  /\ buffer = [b \in Buffers |-> <<>>] /\ handed = [b \in Buffers |-> <<>>]
  /\ locked = [b \in Buffers |-> FALSE] /\ pushed = [b \in Buffers |-> 0]
  /\ at = [a \in Actors |-> "idle"] /\ what = [a \in Actors |-> "rpc"]
  /\ tmp = [a \in Actors |-> <<>>]
  /\ signal = NoThread
  /\ queueLocked = [b \in Buffers |-> FALSE] /\ writer = [b \in Buffers |-> "wait"]
  /\ fullSem = [b \in Buffers |-> 0] /\ emptySem = [b \in Buffers |-> QueueSize]

(* The mutex that PushLog and PushAppLog take, and the one of SyncLogLoop. *)
PushMutex(b) == "rpc"
SyncMutex(b) == b

(* Another thread is in the same buffer or queue.                          *)
With(a, in) == at[a] \in in /\ \E c \in Actors \ {a} : at[c] \in in /\ what[c] = what[a]

(* Two threads use a std::vector, or a std::queue, at once: undefined from
   there on.                                                               *)
Raced ==
  \E a \in Actors :
    \/ With(a, InVector)
    \/ With(a, InQueue)
    \/ at[a] \in InQueue /\ writer[what[a]] = "pop"

Goes(a, from, to) == at[a] = from /\ at' = [at EXCEPT ![a] = to]

-----------------------------------------------------------------------------
(* Lines in a buffer so far, and on the way into it.                       *)
Begun(b) ==
  pushed[b] + Cardinality({a \in Actors : at[a] \in {"lock", "push"} /\ what[a] = b})

(* PushLog and PushAppLog.  A bound: what a thread begins it begins before the
   signal, and it may come to go on with it at any time after that.        *)
Log(t, b) ==
  /\ signal = NoThread /\ Begun(b) < MaxLines
  /\ Goes(t, "idle", "lock")
  /\ what' = [what EXCEPT ![t] = b]
  /\ UNCHANGED <<buffer, locked, pushed, handed, tmp, signal, queueVars>>

Lock(a) ==
  /\ ~locked[PushMutex(what[a])]
  /\ Goes(a, "lock", "push")
  /\ locked' = [locked EXCEPT ![PushMutex(what[a])] = TRUE]
  /\ UNCHANGED <<buffer, pushed, handed, what, tmp, signal, queueVars>>

Push(a) ==
  /\ Goes(a, "push", "unlock")
  /\ buffer' = [buffer EXCEPT ![what[a]] = Append(@, pushed[what[a]] + 1)]
  /\ pushed' = [pushed EXCEPT ![what[a]] = @ + 1]
  /\ UNCHANGED <<locked, handed, what, tmp, signal, queueVars>>

Unlock(a) ==
  /\ Goes(a, "unlock", "free")
  /\ locked' = [locked EXCEPT ![PushMutex(what[a])] = FALSE]
  /\ UNCHANGED <<buffer, pushed, handed, what, tmp, signal, queueVars>>

(* ~ScopeMutex.  The handler goes on with FlushLogToDisk.                  *)
Free(a) ==
  /\ Goes(a, "free", IF a = Handler THEN "syncLock" ELSE "idle")
  /\ locked' = [locked EXCEPT ![PushMutex(what[a])] = FALSE]
  /\ what' = [what EXCEPT ![a] = "rpc"]
  /\ UNCHANGED <<buffer, pushed, handed, tmp, signal, queueVars>>

-----------------------------------------------------------------------------
(* SyncLogLoop: the same for the rpc buffer, then for the application's.  The
   same bound.                                                             *)
SyncLogLoop ==
  /\ signal = NoThread
  /\ Goes(Main, "idle", "syncLock")
  /\ what' = [what EXCEPT ![Main] = "rpc"]
  /\ UNCHANGED <<buffer, locked, pushed, handed, tmp, signal, queueVars>>

SyncLock(a) ==
  /\ ~locked[SyncMutex(what[a])]
  /\ Goes(a, "syncLock", "swap")
  /\ locked' = [locked EXCEPT ![SyncMutex(what[a])] = TRUE]
  /\ UNCHANGED <<buffer, pushed, handed, what, tmp, signal, queueVars>>

(* Mutant: the lines are copied, and stay. *)
SwapCopies(a) ==
  /\ Goes(a, "swap", "syncUnlock")
  /\ tmp' = [tmp EXCEPT ![a] = buffer[what[a]]]
  /\ UNCHANGED <<buffer, locked, pushed, handed, what, signal, queueVars>>

Swap(a) ==
  /\ Goes(a, "swap", "syncUnlock")
  /\ tmp' = [tmp EXCEPT ![a] = buffer[what[a]]]
  /\ buffer' = [buffer EXCEPT ![what[a]] = <<>>]
  /\ UNCHANGED <<locked, pushed, handed, what, signal, queueVars>>

(* Mutant: the mutex is left to the destructor. *)
SyncUnlockLate(a) ==
  /\ tmp[a] # <<>>
  /\ Goes(a, "syncUnlock", "hand")
  /\ UNCHANGED <<buffer, locked, pushed, handed, what, tmp, signal, queueVars>>

(* lock.unlock(), and PushLogToAsyncBuffer if there is anything.           *)
SyncUnlock(a) ==
  /\ tmp[a] # <<>>
  /\ Goes(a, "syncUnlock", "hand")
  /\ locked' = [locked EXCEPT ![SyncMutex(what[a])] = FALSE]
  /\ UNCHANGED <<buffer, pushed, handed, what, tmp, signal, queueVars>>

(* On to the application's buffer, or to the end.                          *)
GoesOn(a, from) ==
  /\ Goes(a, from, IF what[a] = "rpc" THEN "syncLock" ELSE "syncFree")
  /\ what' = [what EXCEPT ![a] = "app"]

NothingToHand(a) ==
  /\ tmp[a] = <<>>
  /\ GoesOn(a, "syncUnlock")
  /\ locked' = [locked EXCEPT ![SyncMutex(what[a])] = FALSE]
  /\ UNCHANGED <<buffer, pushed, handed, tmp, signal, queueVars>>

(* PushLogToAsyncBuffer: a place in the queue, the mutex, the push with the
   unlock and the post, and ~ScopeMutex.                                   *)
WaitEmpty(a) ==
  /\ emptySem[what[a]] > 0
  /\ Goes(a, "hand", "queueLock")
  /\ emptySem' = [emptySem EXCEPT ![what[a]] = @ - 1]
  /\ UNCHANGED <<logVars, handed, what, tmp, signal, queueLocked, fullSem, writer>>

QueueLock(a) ==
  /\ ~queueLocked[what[a]]
  /\ Goes(a, "queueLock", "queuePush")
  /\ queueLocked' = [queueLocked EXCEPT ![what[a]] = TRUE]
  /\ UNCHANGED <<logVars, handed, what, tmp, signal, fullSem, emptySem, writer>>

HandOver(a) ==
  /\ Goes(a, "queuePush", "queueFree")
  /\ handed' = [handed EXCEPT ![what[a]] = @ \o tmp[a]]
  /\ tmp' = [tmp EXCEPT ![a] = <<>>]
  /\ queueLocked' = [queueLocked EXCEPT ![what[a]] = FALSE]
  /\ fullSem' = [fullSem EXCEPT ![what[a]] = @ + 1]
  /\ UNCHANGED <<logVars, what, signal, emptySem, writer>>

QueueFree(a) ==
  /\ GoesOn(a, "queueFree")
  /\ queueLocked' = [queueLocked EXCEPT ![what[a]] = FALSE]
  /\ UNCHANGED <<logVars, handed, tmp, signal, fullSem, emptySem, writer>>

(* Mutant: the timer event is not a repeated one. *)
SyncFreeForGood(a) ==
  /\ Goes(a, "syncFree", "handedOver")
  /\ locked' = [b \in Buffers |-> FALSE]
  /\ UNCHANGED <<buffer, pushed, handed, what, tmp, signal, queueVars>>

(* The destructors of both locks, at the end of the function.              *)
SyncFree(a) ==
  /\ Goes(a, "syncFree", IF a = Handler THEN "handedOver" ELSE "idle")
  /\ locked' = [b \in Buffers |-> FALSE]
  /\ UNCHANGED <<buffer, pushed, handed, what, tmp, signal, queueVars>>

-----------------------------------------------------------------------------
(* The thread of an asynchronous logger: it waits for a batch and takes the
   mutex, takes the batch out, and at the end of the round unlocks again.  No
   one else reads fullSem, so waiting for both is one step.                *)
WriterLocks(b) ==
  /\ writer[b] = "wait" /\ fullSem[b] > 0 /\ ~queueLocked[b]
  /\ writer' = [writer EXCEPT ![b] = "pop"]
  /\ fullSem' = [fullSem EXCEPT ![b] = @ - 1]
  /\ queueLocked' = [queueLocked EXCEPT ![b] = TRUE]
  /\ UNCHANGED emptySem

WriterPops(b) ==
  /\ writer[b] = "pop"
  /\ writer' = [writer EXCEPT ![b] = "free"]
  /\ queueLocked' = [queueLocked EXCEPT ![b] = FALSE]
  /\ emptySem' = [emptySem EXCEPT ![b] = @ + 1]
  /\ UNCHANGED fullSem

WriterFrees(b) ==
  /\ writer[b] = "free"
  /\ writer' = [writer EXCEPT ![b] = "wait"]
  /\ queueLocked' = [queueLocked EXCEPT ![b] = FALSE]
  /\ UNCHANGED <<fullSem, emptySem>>

Writer(b) ==
  /\ WriterLocks(b) \/ WriterPops(b) \/ WriterFrees(b)
  /\ UNCHANGED <<logVars, handed, at, what, tmp, signal>>

-----------------------------------------------------------------------------
(* CoredumpHandler interrupts t, wherever it is, and logs first.           *)
Signal(t) ==
  /\ signal = NoThread
  /\ Begun("rpc") + Begun("app") <= SignalLines
  /\ signal' = t
  /\ at' = [at EXCEPT ![Handler] = "lock"]
  /\ what' = [what EXCEPT ![Handler] = "rpc"]
  /\ UNCHANGED <<buffer, locked, pushed, handed, tmp, queueVars>>

Calls(a) ==
  \/ Lock(a) \/ Push(a) \/ Unlock(a) \/ Free(a)
  \/ SyncLock(a) \/ Swap(a) \/ SyncUnlock(a) \/ NothingToHand(a)
  \/ WaitEmpty(a) \/ QueueLock(a) \/ HandOver(a) \/ QueueFree(a)
  \/ SyncFree(a)

(* A thread that a signal has interrupted does not go on.                  *)
Step(a) == a # signal /\ Calls(a)

Next ==
  \/ /\ ~Raced
     /\ \/ \E a \in Actors : Step(a)
        \/ \E t \in Threads, b \in Buffers : Log(t, b)
        \/ SyncLogLoop
        \/ \E t \in Threads : Signal(t)
        \/ \E b \in Buffers : Writer(b)
  \/ (Raced \/ signal # NoThread) /\ UNCHANGED vars

(* After a signal the program ends, or hangs (see HandlerHandsOver).

   The threads run, those of the asynchronous loggers, too; a mutex that is
   free again and again is got, and the timer is repeated.                 *)
Spec ==
  /\ Init /\ [][Next]_vars
  /\ \A a \in Actors : SF_vars(~Raced /\ Step(a))
  /\ \A b \in Buffers : SF_vars(~Raced /\ Writer(b))
  /\ WF_vars(~Raced /\ SyncLogLoop)

-----------------------------------------------------------------------------
Numbers(n) == [k \in 1..n |-> k]

Members(s) == {s[k] : k \in 1..Len(s)}

(* A line of a buffer is in one place: handed over to the asynchronous logger,
   in the hands of the timer or of the handler, or in the buffer, and none is
   lost or doubled.  Without a signal, the places hold them in the order they
   were pushed (log.cc 66-94, 127-153).                                    *)
LinesKept ==
  ~Raced =>
    \A b \in Buffers :
      LET mine == IF what[Main] = b THEN tmp[Main] ELSE <<>>
          its  == IF what[Handler] = b THEN tmp[Handler] ELSE <<>>
          all  == handed[b] \o mine \o its \o buffer[b]
      IN  /\ Len(all) = pushed[b] /\ Members(all) = 1..pushed[b]
          /\ signal = NoThread => all = Numbers(pushed[b])

(* A line that is pushed is handed over at some later turn of the timer.   *)
LinesAreHanded ==
  \A b \in Buffers : \A n \in 1..MaxLines :
    pushed[b] >= n ~> n \in Members(handed[b]) \/ Raced \/ signal # NoThread

(* The handler logs and hands over, with the mutexes that the threads and the
   writers use, and gets through with that, to wait for the writers then,
   unless the signal found its thread between a lock and the unlock after it,
   where HandlerHandsOver fails (log.cc 29-30, 72-87, 135-152, 413-423).   *)
HandsOverUnlessHolding ==
  (\E t \in Threads : signal = t /\ at[t] \notin Holding)
    ~> at[Handler] = "handedOver" \/ Raced

-----------------------------------------------------------------------------
(* What the source says and the code does not do: these fail, see
   Logger_claims.cfg.                                                      *)

(* PushAppLog "locks" (log.cc:146), and SyncLogLoop makes the locked part
   small (83): a buffer is used by one thread at a time.                   *)
BuffersAreLocked == ~Raced

(* "First flush the log of the local buffers into the buffers of the printing
   threads" (log.cc:173), which makes the program more robust (108): the
   handler gets through with that.                                         *)
HandlerHandsOver == signal # NoThread ~> at[Handler] = "handedOver" \/ Raced
=============================================================================
