-------------------------- MODULE TcpServerProofs ---------------------------
(***************************************************************************)
(* What is proved about module TcpServer, for any number of IO threads and *)
(* connections: its types, and that a connection is given to a thread that *)
(* has its loop and is listened to from then on.                           *)
(***************************************************************************)
EXTENDS TcpServer, TLAPS

USE IOThreadsAssumption, ConnsAssumption, BoundsAssumption, SocketAssumption

(* The callbacks that one step appends to a loop.                          *)
LEMMA HandlersAreTasks ==
  ASSUME TypeOK, NEW c \in Conns PROVE Handlers(c) \in Seq(Tasks)
<1> DEFINE now == armed[c] \cap Ready(c)
           read == IF "in" \in now THEN <<[do |-> "OnRead", of |-> c]>> ELSE <<>>
           write == IF "out" \in now THEN <<[do |-> "OnWrite", of |-> c]>> ELSE <<>>
<1>1. [do |-> "OnRead", of |-> c] \in Tasks /\ [do |-> "OnWrite", of |-> c] \in Tasks
  BY DEF Tasks
<1>2. read \in Seq(Tasks) /\ write \in Seq(Tasks)
  BY <1>1
<1>3. Handlers(c) = read \o write
  BY DEF Handlers
<1> HIDE DEF read, write
<1> QED
  BY <1>2, <1>3

-----------------------------------------------------------------------------
(* The start: how far the main thread and each IO thread have come, and what
   the semaphores between them say.                                        *)
Starting ==
  /\ main \in {"create", "waitInit"} => started = 0
  /\ main = "waitInit" => made < IOThreads
  /\ main \notin {"create", "waitInit"} => made = IOThreads
  /\ \A t \in Threads :
       /\ hasLoop[t] <=> io[t] \notin {"none", "new"}
       /\ t < made => io[t] \in {"waitStart", "loop"} /\ initSem[t] = 0
       /\ t >= made => io[t] # "loop"
       /\ t > made => io[t] = "none" /\ initSem[t] = 0
       /\ t = made /\ main = "create" => io[t] = "none" /\ initSem[t] = 0
       /\ t = made /\ main = "waitInit" =>
            /\ io[t] # "none"
            /\ initSem[t] = 1 <=> io[t] = "waitStart"
       /\ t >= started => startSem[t] = 0 /\ io[t] # "loop"
       /\ io[t] = "loop" => startSem[t] = 0

(* A connection is under way in OnAccept until it is in the pool.          *)
Accepting ==
  /\ main \in {"setState", "insert"} => accepting \in Conns
  /\ main = "setState" => state[accepting] = "NotConnected"
  /\ \A c \in Conns : state[c] # "none" => made = IOThreads
  /\ \A c \in Conns : unread[c] <= sent[c]

TypeInv == TypeOK /\ Starting /\ Accepting

(* The steps of the main thread that are about the IO threads.             *)
LEMMA MainStarts ==
  ASSUME TypeInv, CreateThread \/ ThreadCreated \/ InitServer \/ Start
  PROVE  TypeInv'
<1> USE DEF TypeInv, TypeOK, Starting, Accepting, Threads, connVars, netVars, startVars
<1>1. CASE CreateThread
  <2>1. TypeOK'
    BY <1>1 DEF CreateThread
  <2>2. Starting'
    BY <1>1 DEF CreateThread
  <2>3. Accepting'
    BY <1>1 DEF CreateThread
  <2> QED
    BY <2>1, <2>2, <2>3
<1>2. CASE ThreadCreated
  <2>1. TypeOK'
    BY <1>2 DEF ThreadCreated
  <2>2. Starting'
    BY <1>2 DEF ThreadCreated
  <2>3. Accepting'
    BY <1>2 DEF ThreadCreated
  <2> QED
    BY <2>1, <2>2, <2>3
<1>3. CASE InitServer
  BY <1>3 DEF InitServer
<1>4. CASE Start
  <2>1. CASE started < IOThreads
    <3>1. /\ startSem' = [startSem EXCEPT ![started] = @ + 1]
          /\ started' = started + 1 /\ main' = main /\ main = "start"
          /\ UNCHANGED <<made, io, hasLoop, initSem, myIndex, accepting, owner, state,
                         pool, connVars, tasks, gone, netVars>>
      BY <1>4, <2>1 DEF Start, StartThread
    <3>2. startSem' \in [Threads -> 0..1] /\ started' \in 0..IOThreads
      BY <2>1, <3>1
    <3>3. Starting'
      BY <2>1, <3>1
    <3>4. Accepting'
      BY <2>1, <3>1
    <3> QED
      BY <3>1, <3>2, <3>3, <3>4
  <2>2. CASE ~(started < IOThreads)
    BY <1>4, <2>2 DEF Start
  <2> QED
    BY <2>1, <2>2
<1> QED
  BY <1>1, <1>2, <1>3, <1>4

(* The steps of an IO thread until its loop runs.                          *)
LEMMA ThreadStarts ==
  ASSUME TypeInv, NEW t \in Threads,
         ThreadNewLoop(t) \/ ThreadPostInit(t) \/ ThreadStart(t)
  PROVE  TypeInv'
<1> USE DEF TypeInv, TypeOK, Starting, Accepting, Threads, connVars, netVars
<1>1. CASE ThreadNewLoop(t)
  <2>1. /\ io[t] = "new" /\ hasLoop' = [hasLoop EXCEPT ![t] = TRUE]
        /\ io' = [io EXCEPT ![t] = "post"]
        /\ UNCHANGED <<main, made, started, initSem, startSem>>
    BY <1>1 DEF ThreadNewLoop
  <2>2. Starting'
    BY <2>1
  <2> QED
    BY <1>1, <2>2 DEF ThreadNewLoop
<1>2. CASE ThreadPostInit(t)
  <2>1. t = made /\ main = "waitInit" /\ initSem[t] = 0
    BY <1>2 DEF ThreadPostInit
  <2>2. /\ initSem' = [initSem EXCEPT ![t] = 1]
        /\ io' = [io EXCEPT ![t] = "waitStart"]
        /\ io[t] = "post" /\ UNCHANGED <<main, made, started, hasLoop, startSem>>
    BY <1>2, <2>1 DEF ThreadPostInit
  <2>3. Starting'
    BY <2>1, <2>2
  <2>4. initSem' \in [Threads -> 0..1]
    BY <2>2
  <2> QED
    BY <1>2, <2>3, <2>4 DEF ThreadPostInit
<1>3. CASE ThreadStart(t)
  <2>1. startSem[t] = 1 /\ t < started /\ t < made
    BY <1>3 DEF ThreadStart
  <2> QED
    BY <1>3, <2>1 DEF ThreadStart
<1> QED
  BY <1>1, <1>2, <1>3

(* Once the IO threads are there, the other steps leave them there.        *)
LEMMA Started ==
  ASSUME TypeInv, UNCHANGED startVars,
         \/ main' = main
         \/ main \notin {"create", "waitInit"} /\ main' \notin {"create", "waitInit"}
  PROVE  Starting'
BY DEF TypeInv, Starting, startVars

(* The steps of OnAccept and of the clearing timer.                        *)
LEMMA MainAccepts ==
  ASSUME TypeInv, \/ OnAccept \/ OnAcceptFails \/ OnAcceptSetState \/ OnAcceptInsert
                  \/ ClearClosedClientTimer
  PROVE  TypeInv'
<1> USE DEF TypeInv, TypeOK, Accepting, connVars, netVars
<1>1. CASE OnAccept
  <2>1. PICK c \in Conns :
          /\ state[c] = "none" /\ accepting' = c /\ NewConnection(c, myIndex)
    BY <1>1 DEF OnAccept
  <2>2. tasks' \in [Threads -> Seq(Tasks)]
    <3>1. [do |-> "add", of |-> c] \in Tasks
      BY DEF Tasks
    <3>2. Append(tasks[myIndex], [do |-> "add", of |-> c]) \in Seq(Tasks)
      BY <3>1
    <3> QED
      BY <2>1, <3>2 DEF NewConnection, QueueTask
  <2>3. myIndex' \in Threads
    BY <1>1 DEF OnAccept, NextThread, Threads
  <2>4. Starting'
    BY <1>1, Started DEF OnAccept
  <2>5. owner' \in [Conns -> Threads] /\ listen' \in [Conns -> Masks]
    BY <2>1 DEF NewConnection, Masks
  <2>6. /\ state' = [state EXCEPT ![c] = "NotConnected"]
        /\ main = "loop" /\ main' = "setState" /\ accepting' = c
        /\ UNCHANGED <<startVars, pool, armed, unsent, gone, netVars>>
    BY <1>1, <2>1 DEF OnAccept, NewConnection
  <2>7. TypeOK'
    BY <2>2, <2>3, <2>5, <2>6 DEF startVars
  <2>8. Accepting'
    BY <2>6 DEF startVars, Starting
  <2> QED
    BY <2>4, <2>7, <2>8
<1>2. CASE OnAcceptFails
  BY <1>2, Started DEF OnAcceptFails, startVars
<1>3. CASE OnAcceptSetState
  BY <1>3, Started DEF OnAcceptSetState, startVars
<1>4. CASE OnAcceptInsert
  BY <1>4, Started DEF OnAcceptInsert, startVars
<1>5. CASE ClearClosedClientTimer
  BY <1>5, Started DEF ClearClosedClientTimer, Collectable, startVars
<1> QED
  BY <1>1, <1>2, <1>3, <1>4, <1>5

(* The next callback leaves the rest of its loop's.                        *)
LEMMA RunsType ==
  ASSUME TypeOK, NEW t \in Threads, NEW do, NEW c, Runs(t, do, c)
  PROVE  tasks' \in [Threads -> Seq(Tasks)]
<1>1. tasks[t] \in Seq(Tasks) /\ tasks[t] # <<>>
  BY DEF TypeOK, Runs
<1>2. Tail(tasks[t]) \in Seq(Tasks)
  BY <1>1
<1> QED
  BY <1>2 DEF TypeOK, Runs

(* The handlers of a connection on its IO thread, and the report of epoll. *)
LEMMA ThreadRuns ==
  ASSUME TypeInv, NEW t \in Threads, NEW c \in Conns,
         \/ Report(t, c) \/ RunAdd(t, c) \/ Refuse(t, c)
         \/ OnReadRequests(t, c) \/ OnReadClosed(t, c)
         \/ OnWriteAll(t, c) \/ OnWriteShort(t, c) \/ OnWriteAgain(t, c)
         \/ OnWriteBroken(t, c)
  PROVE  TypeInv'
<1> USE DEF TypeInv, TypeOK, Accepting
<1>1. CASE Report(t, c)
  <2>1. Handlers(c) \in Seq(Tasks)
    BY HandlersAreTasks
  <2>2. tasks[t] \o Handlers(c) \in Seq(Tasks)
    BY <2>1
  <2>3. tasks' \in [Threads -> Seq(Tasks)]
    BY <1>1, <2>2 DEF Report
  <2>4. armed' \in [Conns -> Masks \cup {NONE}]
    BY <1>1 DEF Report
  <2> QED
    BY <1>1, <2>3, <2>4, Started DEF Report, startVars, netVars
<1>2. CASE RunAdd(t, c)
  <2>1. armed' \in [Conns -> Masks \cup {NONE}]
    BY <1>2 DEF RunAdd
  <2>2. tasks' \in [Threads -> Seq(Tasks)]
    BY <1>2, RunsType DEF RunAdd
  <2> QED
    BY <1>2, <2>1, <2>2, Started DEF RunAdd, startVars, netVars
<1>3. CASE Refuse(t, c)
  <2>1. tasks' \in [Threads -> Seq(Tasks)]
    BY <1>3, RunsType DEF Refuse
  <2> QED
    BY <1>3, <2>1, Started DEF Refuse, startVars, netVars, connVars
<1>4. CASE OnReadRequests(t, c)
  <2>1. tasks' \in [Threads -> Seq(Tasks)]
    BY <1>4, RunsType DEF OnReadRequests
  <2>2. PICK n \in 0..unread[c] : ReplyRPCResponse(c, n)
    BY <1>4 DEF OnReadRequests
  <2>3. unsent' \in [Conns -> Nat]
    <3>1. unsent' = [unsent EXCEPT ![c] = @ + n] /\ n \in Nat
      BY <2>2 DEF ReplyRPCResponse
    <3> QED
      BY <3>1
  <2>4. listen' \in [Conns -> Masks] /\ armed' \in [Conns -> Masks \cup {NONE}]
    <3>1. listen[c] \cup {"out"} \in Masks
      BY DEF Masks
    <3>2. CASE n > 0
      <4>1. /\ listen' = [listen EXCEPT ![c] = @ \cup {"out"}]
            /\ armed' = [armed EXCEPT ![c] = listen[c] \cup {"out"}]
        BY <2>2, <3>2 DEF ReplyRPCResponse
      <4> DEFINE mask == listen[c] \cup {"out"}
      <4> HIDE DEF mask
      <4>2. /\ listen' = [listen EXCEPT ![c] = mask] /\ armed' = [armed EXCEPT ![c] = mask]
            /\ mask \in Masks
        BY <4>1, <3>1 DEF mask
      <4> QED
        BY <4>2
    <3>3. CASE ~(n > 0)
      BY <2>2, <3>3 DEF ReplyRPCResponse
    <3> QED
      BY <3>2, <3>3
  <2>5. /\ unread' = [unread EXCEPT ![c] = 0]
        /\ UNCHANGED <<main, startVars, myIndex, accepting, owner, state, pool, gone,
                       client, sent, arriving>>
    BY <1>4 DEF OnReadRequests
  <2>6. Starting'
    BY <2>5, Started
  <2>7. Accepting' /\ unread' \in [Conns -> Nat]
    BY <2>5 DEF startVars
  <2> QED
    BY <2>1, <2>3, <2>4, <2>5, <2>6, <2>7 DEF startVars
<1>5. CASE OnReadClosed(t, c)
  <2>1. tasks' \in [Threads -> Seq(Tasks)]
    BY <1>5, RunsType DEF OnReadClosed
  <2>2. listen' \in [Conns -> Masks] /\ armed' \in [Conns -> Masks \cup {NONE}]
    BY <1>5 DEF OnReadClosed, Masks
  <2>3. state' = [state EXCEPT ![c] = "Closed"] /\ state[c] = "Connected"
    BY <1>5 DEF OnReadClosed
  <2>4. /\ unread' = [unread EXCEPT ![c] = 0]
        /\ UNCHANGED <<main, startVars, myIndex, accepting, owner, pool, unsent, gone,
                       client, sent, arriving>>
    BY <1>5 DEF OnReadClosed
  <2>5. Starting'
    BY <2>4, Started
  <2>6. Accepting' /\ unread' \in [Conns -> Nat]
    BY <2>3, <2>4 DEF startVars
  <2> QED
    BY <2>1, <2>2, <2>3, <2>4, <2>5, <2>6 DEF startVars
<1>6. CASE OnWriteAll(t, c)
  <2>1. tasks' \in [Threads -> Seq(Tasks)]
    BY <1>6, RunsType DEF OnWriteAll
  <2>2. listen' \in [Conns -> Masks] /\ armed' \in [Conns -> Masks \cup {NONE}]
    <3>1. listen[c] \ {"out"} \in Masks
      BY DEF Masks
    <3> QED
      BY <1>6, <3>1 DEF OnWriteAll
  <2>3. arriving' \in [Conns -> 0..SocketSize]
    <3>1. arriving[c] + ReadRemain(c) \in 0..SocketSize
      <4>1. ReadRemain(c) \in Nat /\ (unsent[c] = 0 => ReadRemain(c) = 0)
        BY DEF ReadRemain
      <4> QED
        BY <1>6, <4>1 DEF OnWriteAll, Fits
    <3> QED
      BY <1>6, <3>1 DEF OnWriteAll
  <2> QED
    BY <1>6, <2>1, <2>2, <2>3, Started DEF OnWriteAll, startVars
<1>7. CASE OnWriteBroken(t, c)
  <2>1. tasks' \in [Threads -> Seq(Tasks)]
    BY <1>7, RunsType DEF OnWriteBroken
  <2>2. main \notin {"create", "waitInit"}
    BY <1>7 DEF OnWriteBroken, Starting, Runs, Threads
  <2> QED
    BY <1>7, <2>1, <2>2, Started DEF OnWriteBroken, startVars, netVars, connVars
<1>8. CASE OnWriteShort(t, c)
  <2>1. UNCHANGED <<main, startVars, myIndex, accepting, owner, state, pool, connVars,
                    tasks, gone, client, sent, unread>>
    BY <1>8 DEF OnWriteShort
  <2>2. arriving' \in [Conns -> 0..SocketSize]
    BY <1>8 DEF OnWriteShort
  <2>3. Starting'
    BY <2>1, Started
  <2> QED
    BY <2>1, <2>2, <2>3 DEF startVars, connVars
<1>9. CASE OnWriteAgain(t, c)
  <2>1. tasks' \in [Threads -> Seq(Tasks)]
    BY <1>9, RunsType DEF OnWriteAgain
  <2> QED
    BY <1>9, <2>1, Started DEF OnWriteAgain, startVars, netVars, connVars
<1> QED
  BY <1>1, <1>2, <1>3, <1>4, <1>5, <1>6, <1>7, <1>8, <1>9

(* The clients.                                                            *)
LEMMA ClientType ==
  ASSUME TypeInv, NEW c \in Conns, Client(c) PROVE TypeInv'
<1> USE DEF TypeInv, TypeOK, Accepting
<1>1. UNCHANGED startVars /\ main' = main
  BY DEF Client, ClientConnects, ClientSends, ClientReads, ClientLeaves, ClientResets
<1>2. Starting'
  BY <1>1, Started
<1>3. CASE ClientConnects(c)
  BY <1>2, <1>3 DEF ClientConnects, startVars, connVars
<1>4. CASE ClientSends(c)
  <2>1. sent[c] < MaxRequests[c] /\ unread[c] <= sent[c]
    BY <1>4 DEF ClientSends
  <2>2. /\ sent' = [sent EXCEPT ![c] = @ + 1] /\ unread' = [unread EXCEPT ![c] = @ + 1]
        /\ UNCHANGED <<main, startVars, myIndex, accepting, owner, state, pool, connVars,
                       tasks, gone, client, arriving>>
    BY <1>4 DEF ClientSends
  <2>3. /\ sent' \in [Conns -> Nat] /\ unread' \in [Conns -> Nat]
        /\ \A d \in Conns : unread'[d] <= sent'[d]
    BY <2>1, <2>2
  <2> QED
    BY <1>2, <2>2, <2>3 DEF startVars, connVars
<1>5. CASE ClientLeaves(c)
  BY <1>2, <1>5 DEF ClientLeaves, startVars, connVars
<1>6. CASE ClientResets(c)
  BY <1>2, <1>6 DEF ClientResets, startVars, connVars
<1>7. CASE ClientReads(c)
  BY <1>2, <1>7 DEF ClientReads, startVars, connVars
<1> QED
  BY <1>3, <1>4, <1>5, <1>6, <1>7 DEF Client

(* Every step keeps the types, and what they rest on.                      *)
LEMMA TypeNext == TypeInv /\ [Next]_vars => TypeInv'
<1> SUFFICES ASSUME TypeInv, [Next]_vars PROVE TypeInv'
  OBVIOUS
<1>1. CASE UNCHANGED vars
  BY <1>1 DEF TypeInv, TypeOK, Starting, Accepting, vars, startVars, connVars, netVars
<1>2. CASE MainThread
  BY <1>2, MainStarts, MainAccepts DEF MainThread
<1>3. ASSUME NEW t \in Threads, ThreadMain(t) PROVE TypeInv'
  BY <1>3, ThreadStarts, ThreadRuns DEF ThreadMain
<1>4. ASSUME NEW c \in Conns, Client(c) PROVE TypeInv'
  BY <1>4, ClientType
<1> QED
  BY <1>1, <1>2, <1>3, <1>4 DEF Next

(* The server starts with them.                                            *)
LEMMA TypeInit == Init => TypeInv
<1> SUFFICES ASSUME Init PROVE TypeInv
  OBVIOUS
<1>1. tasks \in [Threads -> Seq(Tasks)]
  BY DEF Init
<1>2. TypeOK
  BY <1>1 DEF Init, TypeOK, Threads, Masks
<1> QED
  BY <1>2 DEF Init, TypeInv, Starting, Accepting, Threads

(* Every variable has its type, for any number of IO threads, connections and
   requests: a semaphore of the start never counts more than one (io_thread.cc
   33-36, 74-91).                                                          *)
THEOREM TypeCorrect == Spec => []TypeOK
<1>1. TypeInv => TypeOK
  BY DEF TypeInv
<1> QED
  BY <1>1, TypeInit, TypeNext, PTL DEF Spec

-----------------------------------------------------------------------------
(* What a connection listens to.                                           *)

Served(c) == state[c] \in {"NotConnected", "Connected"}

(* The mask of its FDEvent always has the reading, and the writing while there
   is something to write: whatever puts the descriptor into the epoll set
   again, an early "add" as well, takes nothing away.                      *)
Listening ==
  \A c \in Conns :
    /\ Served(c) => "in" \in listen[c]
    /\ state[c] = "Connected" /\ unsent[c] > 0 => "out" \in listen[c]
    /\ state[c] \in {"none", "NotConnected"} => unsent[c] = 0

Heard(c) == "in" \in armed[c] \/ (AddWaits(c) /\ listen[c] = {"in"})

Answerable(c) == unsent[c] > 0 => "out" \in armed[c]

ListenInv ==
  /\ Listening
  /\ \A c \in Conns : client[c] # "reset" =>
       /\ Served(c) => Heard(c)
       /\ state[c] = "Connected" => Answerable(c)

(* The first callback of a loop is taken away: an "add" of d that waits there
   still does, unless it was the first.                                    *)
LEMMA AddStillWaits ==
  ASSUME TypeOK, NEW t \in Threads, NEW do, NEW c, NEW d \in Conns, Runs(t, do, c),
         UNCHANGED owner, AddWaits(d), do # "add" \/ c # d
  PROVE  AddWaits(d)'
<1> DEFINE add == [do |-> "add", of |-> d]
<1>1. PICK i \in 1..Len(tasks[owner[d]]) : tasks[owner[d]][i] = add
  BY DEF AddWaits
<1>2. CASE owner[d] # t
  BY <1>1, <1>2 DEF Runs, AddWaits, TypeOK
<1>3. CASE owner[d] = t
  <2>1. /\ tasks[t] \in Seq(Tasks) /\ tasks[t] # <<>>
        /\ tasks' = [tasks EXCEPT ![t] = Tail(@)] /\ tasks[t][1] # add
    <3>1. [do |-> do, of |-> c] # add
      OBVIOUS
    <3> QED
      BY <3>1 DEF Runs, TypeOK
  <2>2. tasks'[t] = Tail(tasks[t])
    BY <2>1 DEF TypeOK
  <2>3. i # 1 /\ i - 1 \in 1..Len(Tail(tasks[t])) /\ Tail(tasks[t])[i - 1] = add
    BY <1>1, <1>3, <2>1
  <2> QED
    BY <1>3, <2>2, <2>3 DEF AddWaits
<1> QED
  BY <1>2, <1>3

(* Callbacks are appended to a loop's: an "add" that waits still does.     *)
LEMMA AddWaitsOn ==
  ASSUME TypeOK, NEW t \in Threads, NEW more \in Seq(Tasks), NEW d \in Conns,
         tasks' = [tasks EXCEPT ![t] = @ \o more], owner'[d] = owner[d], AddWaits(d)
  PROVE  AddWaits(d)'
<1>1. PICK i \in 1..Len(tasks[owner[d]]) :
        tasks[owner[d]][i] = [do |-> "add", of |-> d]
  BY DEF AddWaits
<1>2. CASE owner[d] # t
  BY <1>1, <1>2 DEF AddWaits, TypeOK
<1>3. CASE owner[d] = t
  <2>1. tasks'[t] = tasks[t] \o more /\ tasks[t] \in Seq(Tasks)
    BY DEF TypeOK
  <2>2. i \in 1..Len(tasks[t] \o more) /\ (tasks[t] \o more)[i] = tasks[t][i]
    BY <1>1, <1>3, <2>1
  <2> QED
    BY <1>1, <1>3, <2>1, <2>2 DEF AddWaits
<1> QED
  BY <1>2, <1>3

(* A step that changes nothing a connection is listened to by.             *)
LEMMA Undisturbed ==
  ASSUME ListenInv, NEW d \in Conns,
         state'[d] = state[d], listen'[d] = listen[d], unsent'[d] = unsent[d],
         armed'[d] = armed[d], client'[d] = client[d] \/ client'[d] = "reset"
                               \/ client[d] # "reset",
         AddWaits(d) => AddWaits(d)'
  PROVE  /\ Served(d)' => "in" \in listen'[d]
         /\ state'[d] = "Connected" /\ unsent'[d] > 0 => "out" \in listen'[d]
         /\ state'[d] \in {"none", "NotConnected"} => unsent'[d] = 0
         /\ client'[d] # "reset" => /\ Served(d)' => Heard(d)'
                                    /\ state'[d] = "Connected" => Answerable(d)'
BY DEF ListenInv, Listening, Served, Heard, Answerable

(* The steps of the main thread.                                           *)
LEMMA MainListens == ASSUME TypeInv, ListenInv, MainThread PROVE ListenInv'
<1>1. CASE OnAccept
  <2>1. PICK c \in Conns :
          /\ state[c] = "none" /\ NewConnection(c, myIndex)
          /\ UNCHANGED <<armed, unsent, client>>
    BY <1>1 DEF OnAccept, netVars
  <2> DEFINE more == <<[do |-> "add", of |-> c]>>
  <2>2. more \in Seq(Tasks)
    BY DEF Tasks
  <2>3. tasks' = [tasks EXCEPT ![myIndex] = @ \o more] /\ myIndex \in Threads
    <3>1. tasks[myIndex] \in Seq(Tasks)
      BY DEF TypeInv, TypeOK
    <3>2. Append(tasks[myIndex], [do |-> "add", of |-> c]) = tasks[myIndex] \o more
      BY <2>2, <3>1
    <3> QED
      BY <2>1, <3>2 DEF NewConnection, QueueTask, TypeInv, TypeOK
  <2>4. AddWaits(c)'
    <3>1. owner'[c] = myIndex
      BY <2>1 DEF NewConnection, TypeInv, TypeOK
    <3>2. tasks[myIndex] \in Seq(Tasks) /\ tasks'[myIndex] = tasks[myIndex] \o more
      BY <2>3 DEF TypeInv, TypeOK
    <3>3. /\ Len(tasks'[myIndex]) = Len(tasks[myIndex]) + 1
          /\ tasks'[myIndex][Len(tasks[myIndex]) + 1] = [do |-> "add", of |-> c]
          /\ Len(tasks[myIndex]) \in Nat
      BY <3>2
    <3> QED
      BY <3>1, <3>3 DEF AddWaits
  <2>5. listen'[c] = {"in"} /\ state'[c] = "NotConnected" /\ unsent'[c] = 0
    BY <2>1 DEF NewConnection, TypeInv, TypeOK, ListenInv, Listening
  <2>6. ASSUME NEW d \in Conns, d # c
        PROVE  /\ owner'[d] = owner[d] /\ state'[d] = state[d] /\ listen'[d] = listen[d]
               /\ AddWaits(d) => AddWaits(d)'
    <3>1. /\ owner'[d] = owner[d] /\ state'[d] = state[d] /\ listen'[d] = listen[d]
      BY <2>1, <2>6 DEF NewConnection, TypeInv, TypeOK
    <3> HIDE DEF more
    <3> QED
      BY <2>2, <2>3, <3>1, AddWaitsOn DEF TypeInv
  <2> HIDE DEF more
  <2> QED
    BY <2>1, <2>4, <2>5, <2>6, Undisturbed
    DEF ListenInv, Listening, Served, Heard, Answerable
<1>2. CASE OnAcceptSetState
  <2>1. /\ state[accepting] = "NotConnected"
        /\ state' = [state EXCEPT ![accepting] = "Connected"]
        /\ UNCHANGED <<owner, listen, armed, unsent, tasks, client>>
    BY <1>2 DEF OnAcceptSetState, TypeInv, Accepting, connVars, netVars
  <2>2. \A d \in Conns : AddWaits(d) => AddWaits(d)'
    BY <2>1 DEF AddWaits
  <2>3. \A d \in Conns : /\ d # accepting => state'[d] = state[d]
                         /\ d = accepting => state'[d] = "Connected"
    BY <2>1 DEF TypeInv, TypeOK
  <2>4. \A d \in Conns : Served(d)' <=> Served(d)
    BY <2>1, <2>3 DEF Served
  <2>5. \A d \in Conns : Heard(d) => Heard(d)'
    BY <2>1, <2>2 DEF Heard
  <2>6. \A d \in Conns : /\ Answerable(d)' <=> Answerable(d)
                         /\ d = accepting => unsent[d] = 0 /\ Answerable(d)
    BY <2>1 DEF Answerable, ListenInv, Listening
  <2>7. Listening'
    BY <2>1, <2>3, <2>4, <2>6 DEF ListenInv, Listening
  <2> QED
    BY <2>1, <2>3, <2>4, <2>5, <2>6, <2>7 DEF ListenInv
<1>3. CASE UNCHANGED <<owner, state, listen, armed, unsent, tasks, client>>
  BY <1>3 DEF ListenInv, Listening, Served, Heard, Answerable, AddWaits
<1> QED
  BY <1>1, <1>2, <1>3 DEF MainThread, CreateThread, ThreadCreated, InitServer, Start,
    OnAcceptFails, OnAcceptInsert, ClearClosedClientTimer, connVars, netVars

(* The steps of an IO thread.                                              *)
LEMMA ThreadListens ==
  ASSUME TypeInv, ListenInv, NEW t \in Threads, ThreadMain(t) PROVE ListenInv'
<1> DEFINE Unchanged(d) ==
      /\ state'[d] = state[d] /\ listen'[d] = listen[d] /\ unsent'[d] = unsent[d]
      /\ armed'[d] = armed[d] /\ client'[d] = client[d]
<1>1. CASE ThreadNewLoop(t) \/ ThreadPostInit(t) \/ ThreadStart(t)
  BY <1>1 DEF ThreadNewLoop, ThreadPostInit, ThreadStart, connVars, netVars,
    ListenInv, Listening, Served, Heard, Answerable, AddWaits
<1>2. ASSUME NEW c \in Conns, Report(t, c) PROVE ListenInv'
  <2>1. /\ UNCHANGED <<owner, state, listen, unsent, client>>
        /\ \A d \in Conns : client[d] # "reset" => armed'[d] = armed[d]
    BY <1>2 DEF Report, netVars, TypeInv, TypeOK
  <2>2. \A d \in Conns : AddWaits(d) => AddWaits(d)'
    BY <1>2, HandlersAreTasks, AddWaitsOn DEF Report, TypeInv
  <2> QED
    BY <2>1, <2>2 DEF ListenInv, Listening, Served, Heard, Answerable
<1>3. ASSUME NEW c \in Conns, RunAdd(t, c) PROVE ListenInv'
  <2>1. /\ UNCHANGED <<owner, state, listen, unsent, client>>
        /\ armed' = [armed EXCEPT ![c] = listen[c]] /\ Runs(t, "add", c)
    BY <1>3 DEF RunAdd, netVars
  <2>2. \A d \in Conns : d # c => Unchanged(d) /\ (AddWaits(d) => AddWaits(d)')
    BY <2>1, AddStillWaits DEF TypeInv, TypeOK
  <2>3. armed'[c] = listen[c]
    BY <2>1 DEF TypeInv, TypeOK
  <2> QED
    BY <2>1, <2>2, <2>3 DEF ListenInv, Listening, Served, Heard, Answerable
<1>4. ASSUME NEW c \in Conns, NEW do \in {"OnRead", "OnWrite"}, Runs(t, do, c),
             UNCHANGED owner
      PROVE  \A d \in Conns : AddWaits(d) => AddWaits(d)'
  BY <1>4, AddStillWaits DEF TypeInv
<1>5. ASSUME NEW c \in Conns,
             Refuse(t, c) \/ OnWriteAgain(t, c) \/ OnWriteBroken(t, c)
      PROVE  ListenInv'
  <2>1. UNCHANGED <<owner, state, listen, unsent, armed, client>>
    BY <1>5 DEF Refuse, OnWriteAgain, OnWriteBroken, connVars, netVars
  <2>2. \A d \in Conns : AddWaits(d) => AddWaits(d)'
    BY <1>4, <1>5, <2>1 DEF Refuse, OnWriteAgain, OnWriteBroken
  <2> QED
    BY <2>1, <2>2 DEF ListenInv, Listening, Served, Heard, Answerable
<1>6. ASSUME NEW c \in Conns, OnReadRequests(t, c) PROVE ListenInv'
  <2>1. PICK n \in 0..unread[c] : ReplyRPCResponse(c, n)
    BY <1>6 DEF OnReadRequests
  <2>2. UNCHANGED <<owner, state, client>> /\ state[c] = "Connected" /\ Runs(t, "OnRead", c)
    BY <1>6 DEF OnReadRequests
  <2>3. \A d \in Conns : AddWaits(d) => AddWaits(d)'
    BY <1>4, <2>2
  <2>4. unsent' = [unsent EXCEPT ![c] = @ + n] /\ n \in Nat
    BY <2>1 DEF ReplyRPCResponse, TypeInv, TypeOK
  <2>5. CASE n > 0
    <3>1. /\ listen' = [listen EXCEPT ![c] = @ \cup {"out"}]
          /\ armed' = [armed EXCEPT ![c] = listen[c] \cup {"out"}]
      BY <2>1, <2>5 DEF ReplyRPCResponse
    <3>2. listen'[c] = listen[c] \cup {"out"} /\ armed'[c] = listen[c] \cup {"out"}
      BY <3>1 DEF TypeInv, TypeOK
    <3>3. \A d \in Conns : d # c => Unchanged(d)
      BY <2>2, <2>4, <3>1 DEF TypeInv, TypeOK
    <3>4. "in" \in listen[c]
      BY <2>2 DEF ListenInv, Listening, Served
    <3>5. "in" \in listen'[c] /\ "out" \in listen'[c]
      BY <3>2, <3>4
    <3>6. "in" \in armed'[c] /\ "out" \in armed'[c] /\ state'[c] = "Connected"
      BY <2>2, <3>2, <3>4
    <3> HIDE DEF Unchanged
    <3>7. ASSUME NEW d \in Conns
          PROVE  /\ Served(d)' => "in" \in listen'[d]
                 /\ state'[d] = "Connected" /\ unsent'[d] > 0 => "out" \in listen'[d]
                 /\ state'[d] \in {"none", "NotConnected"} => unsent'[d] = 0
                 /\ client'[d] # "reset" => /\ Served(d)' => Heard(d)'
                                            /\ state'[d] = "Connected" => Answerable(d)'
      <4>1. CASE d = c
        <5>1. Heard(c)' /\ Answerable(c)'
          BY <3>6 DEF Heard, Answerable
        <5> QED
          BY <3>5, <3>6, <4>1, <5>1
      <4>2. CASE d # c
        BY <2>3, <3>3, <4>2, Undisturbed DEF Unchanged
      <4> QED
        BY <4>1, <4>2
    <3> QED
      BY <3>7 DEF ListenInv, Listening
  <2>6. CASE n = 0
    <3>1. UNCHANGED <<listen, armed>>
      BY <2>1, <2>6 DEF ReplyRPCResponse
    <3>2. \A d \in Conns : unsent'[d] = unsent[d]
      BY <2>4, <2>6 DEF TypeInv, TypeOK
    <3> QED
      BY <2>2, <2>3, <3>1, <3>2 DEF ListenInv, Listening, Served, Heard, Answerable
  <2> QED
    BY <2>4, <2>5, <2>6
<1>7. ASSUME NEW c \in Conns, OnReadClosed(t, c) PROVE ListenInv'
  <2>1. UNCHANGED <<owner, unsent, client>> /\ Runs(t, "OnRead", c)
    BY <1>7 DEF OnReadClosed
  <2>2. \A d \in Conns : AddWaits(d) => AddWaits(d)'
    BY <1>4, <2>1
  <2>3. state'[c] = "Closed" /\ \A d \in Conns : d # c => Unchanged(d)
    BY <1>7 DEF OnReadClosed, TypeInv, TypeOK
  <2> QED
    BY <2>1, <2>2, <2>3 DEF ListenInv, Listening, Served, Heard, Answerable
<1>8. ASSUME NEW c \in Conns, OnWriteAll(t, c) PROVE ListenInv'
  <2>1. UNCHANGED <<owner, state, client>> /\ Runs(t, "OnWrite", c)
    BY <1>8 DEF OnWriteAll
  <2>2. \A d \in Conns : AddWaits(d) => AddWaits(d)'
    BY <1>4, <2>1
  <2>3. /\ listen'[c] = listen[c] \ {"out"} /\ armed'[c] = listen[c] \ {"out"}
        /\ unsent'[c] = 0 /\ \A d \in Conns : d # c => Unchanged(d)
    BY <1>8, <2>1 DEF OnWriteAll, TypeInv, TypeOK
  <2> QED
    BY <2>1, <2>2, <2>3 DEF ListenInv, Listening, Served, Heard, Answerable
<1>9. ASSUME NEW c \in Conns, OnWriteShort(t, c) PROVE ListenInv'
  BY <1>9 DEF OnWriteShort, connVars, ListenInv, Listening, Served, Heard, Answerable,
    AddWaits
<1> QED
  BY <1>1, <1>2, <1>3, <1>5, <1>6, <1>7, <1>8, <1>9 DEF ThreadMain

(* Every step keeps what a connection listens to.                          *)
LEMMA ListenNext == TypeInv /\ ListenInv /\ [Next]_vars => ListenInv'
<1> SUFFICES ASSUME TypeInv, ListenInv, [Next]_vars PROVE ListenInv'
  OBVIOUS
<1>1. CASE UNCHANGED vars
  BY <1>1 DEF vars, connVars, netVars, ListenInv, Listening, Served, Heard, Answerable,
    AddWaits
<1>2. ASSUME NEW c \in Conns, Client(c) PROVE ListenInv'
  <2>1. UNCHANGED <<owner, state, listen, unsent, armed, tasks>>
    BY <1>2 DEF Client, ClientConnects, ClientSends, ClientReads, ClientLeaves,
      ClientResets, connVars
  <2>2. \A d \in Conns : client'[d] # "reset" => client[d] # "reset"
    BY <1>2 DEF Client, ClientConnects, ClientSends, ClientReads, ClientLeaves,
      ClientResets, TypeInv, TypeOK
  <2> QED
    BY <2>1, <2>2 DEF ListenInv, Listening, Served, Heard, Answerable, AddWaits
<1> QED
  BY <1>1, <1>2, MainListens, ThreadListens DEF Next

(* A connection that was accepted has a thread with a loop, whatever the start
   was interleaved with, and is in the epoll set for all it must hear of, or
   about to be: the callback that the main thread queued, which adds the mask
   of the moment it runs in, never undoes what the IO thread's own handlers
   did first (eventloop.h 17-53, tcp_connection.cc 28-45, 175-178, 247-292). *)
THEOREM AcceptedAreListenedTo == Spec => []AcceptedIsListenedTo
<1>1. Init => ListenInv
  BY DEF Init, ListenInv, Listening, Served
<1>2. TypeInv /\ ListenInv => AcceptedIsListenedTo
  <2> SUFFICES ASSUME TypeInv, ListenInv, NEW c \in Conns
               PROVE  /\ state[c] # "none" => hasLoop[owner[c]]
                      /\ Served(c) /\ client[c] # "reset" => Heard(c)
                      /\ state[c] = "Connected" /\ client[c] # "reset" => Answerable(c)
    BY DEF AcceptedIsListenedTo, Served, Heard, Answerable
  <2>1. state[c] # "none" => hasLoop[owner[c]]
    <3>1. owner[c] \in Threads /\ made \in 0..IOThreads
      BY DEF TypeInv, TypeOK
    <3>2. state[c] # "none" => owner[c] < made
      BY <3>1 DEF TypeInv, Accepting, Threads
    <3> QED
      BY <3>1, <3>2 DEF TypeInv, Starting
  <2> QED
    BY <2>1 DEF ListenInv
<1> QED
  BY <1>1, <1>2, TypeInit, TypeNext, ListenNext, PTL DEF Spec
=============================================================================
