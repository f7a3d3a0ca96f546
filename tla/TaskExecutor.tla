---------------------------- MODULE TaskExecutor ----------------------------
(***************************************************************************)
(* What an EventLoop promises to the threads that hand it work: one queue  *)
(* of callbacks, each executed once, in the order in which it was handed   *)
(* over, by one executor that may be closed for good.  How the promise is  *)
(* kept (the mutex, the eventfd, the swap of the queue into a local batch) *)
(* is the business of module EventLoop, which implements this one.         *)
(***************************************************************************)
EXTENDS Sequences

CONSTANT Task           \* the callbacks

VARIABLES queue,        \* callbacks handed over and not yet executed
          open          \* FALSE once the executor has stopped

vars == <<queue, open>>

TypeOK == queue \in Seq(Task) /\ open \in BOOLEAN

Init == queue = <<>> /\ open = TRUE

\* A thread hands a callback over; a closed executor still takes it.
Push(t) == queue' = Append(queue, t) /\ UNCHANGED open

\* The executor runs the oldest callback.
Execute ==
  /\ open
  /\ queue # <<>>
  /\ queue' = Tail(queue)
  /\ UNCHANGED open

Close == open' = FALSE /\ UNCHANGED queue

Next == Execute \/ Close \/ \E t \in Task : Push(t)

Spec == Init /\ [][Next]_vars
=============================================================================
