----------------------------- MODULE TcpServer ------------------------------
(***************************************************************************)
(* The server (net/tcp/tcp_server.cc, net/io_thread.cc,                    *)
(* net/io_thread_group.cc and the server half of                           *)
(* net/tcp/tcp_connection.cc): the main thread starts the IO threads,      *)
(* accepts connections, gives each to an IO thread in turn and destroys    *)
(* those that were closed; the IO threads run the handlers.                *)
(*                                                                         *)
(* A loop is the FIFO of callbacks that module EventLoop implements, with  *)
(* level-triggered reports for the descriptors in its epoll set.  Reports  *)
(* of several connections are not grouped into batches: their handlers     *)
(* touch nothing in common.  What a request is, and what becomes of it, is *)
(* the business of module RpcServer: here it is read, and may be answered. *)
(***************************************************************************)
EXTENDS Integers, Sequences

CONSTANTS IOThreads,       \* how many IO threads the configuration asks for
          Conns,           \* the connections that clients make
          MaxRequests,     \* bound: requests of each client
          AcceptMayFail,   \* whether accept() may fail
          ReplySize,       \* the bytes of a reply
          SocketSize,      \* the bytes that a socket can hold
          Readers,         \* the clients that read; the others never do
          NoConn

ASSUME IOThreadsAssumption == IOThreads \in Nat \ {0}
ASSUME ConnsAssumption == NoConn \notin Conns
ASSUME SocketAssumption ==
  /\ ReplySize \in Nat \ {0} /\ SocketSize \in Nat \ {0}
  /\ Readers \subseteq Conns
ASSUME BoundsAssumption == MaxRequests \in [Conns -> Nat] /\ AcceptMayFail \in BOOLEAN

Threads == 0..(IOThreads - 1)

VARIABLES
  main,            \* where the main thread is
  made,            \* IO threads constructed
  started,         \* IO threads told to start
  io,              \* where each IO thread is in ThreadMain
  hasLoop,         \* myEventLoop of each is set
  initSem, startSem,
  myIndex,         \* the thread that gets the next connection
  accepting,       \* the connection OnAccept is working on
  owner,           \* the thread of each connection
  state,           \* myState
  pool,            \* myClientConnection
  listen,          \* the mask of the connection's FDEvent
  armed,           \* the mask in the epoll set, NONE when it is not there
  tasks,           \* the callbacks of each loop
  unsent,          \* replies in mySendBuffer
  gone,            \* connections destroyed
  client,          \* what each client has done
  sent,            \* requests it has sent
  unread,          \* and the server has not read
  arriving         \* the bytes in its socket that it has not read

startVars == <<made, started, io, hasLoop, initSem, startSem>>
connVars  == <<listen, armed, unsent>>
netVars   == <<client, sent, unread, arriving>>
vars == <<main, startVars, myIndex, accepting, owner, state, pool, connVars, tasks,
          gone, netVars>>

Masks == SUBSET {"in", "out"}
NONE  == {"none"}
Tasks == [do : {"add", "OnRead", "OnWrite"}, of : Conns]

TypeOK ==
  /\ main \in {"create", "waitInit", "start", "loop", "setState", "insert", "crashed",
               "killed"}
  /\ made \in 0..IOThreads /\ started \in 0..IOThreads
  /\ io \in [Threads -> {"none", "new", "post", "waitStart", "loop"}]
  /\ hasLoop \in [Threads -> BOOLEAN]
  /\ initSem \in [Threads -> 0..1] /\ startSem \in [Threads -> 0..1]
  /\ myIndex \in Threads
  /\ accepting \in Conns \cup {NoConn}
  /\ owner \in [Conns -> Threads]
  /\ state \in [Conns -> {"none", "NotConnected", "Connected", "Closed"}]
  /\ pool \in SUBSET Conns /\ gone \in SUBSET Conns
  /\ listen \in [Conns -> Masks]
  /\ armed \in [Conns -> Masks \cup {NONE}]
  /\ tasks \in [Threads -> Seq(Tasks)]
  /\ unsent \in [Conns -> Nat]
  /\ client \in [Conns -> {"outside", "connected", "left", "reset"}]
  /\ sent \in [Conns -> Nat] /\ unread \in [Conns -> Nat]
  /\ arriving \in [Conns -> 0..SocketSize]

Init ==
  /\ main = "create"
  /\ made = 0 /\ started = 0
  /\ io = [t \in Threads |-> "none"]
  /\ hasLoop = [t \in Threads |-> FALSE]
  /\ initSem = [t \in Threads |-> 0] /\ startSem = [t \in Threads |-> 0]
  /\ myIndex = 0
  /\ accepting = NoConn
  /\ owner = [c \in Conns |-> 0]
  /\ state = [c \in Conns |-> "none"]
  /\ pool = {} /\ gone = {}
  /\ listen = [c \in Conns |-> {}]
  /\ armed = [c \in Conns |-> NONE]
  /\ tasks = [t \in Threads |-> <<>>]
  /\ unsent = [c \in Conns |-> 0]
  /\ client = [c \in Conns |-> "outside"]
  /\ sent = [c \in Conns |-> 0] /\ unread = [c \in Conns |-> 0]
  /\ arriving = [c \in Conns |-> 0]

(* ~TcpConnection deletes the loop of the IO thread (tcp_connection.cc 47), *)
(* in which the thread is running: undefined from there on.                *)
LoopDeleted == gone # {}

(* accept() has failed and descriptor -1 is an index; SIGPIPE; see there.  *)
Down == main \in {"crashed", "killed"} \/ LoopDeleted

-----------------------------------------------------------------------------
(* Start-up: IOThread::IOThread, ThreadMain, IOThread::Start.              *)

CreateThread ==
  /\ main = "create"
  /\ made < IOThreads
  /\ io' = [io EXCEPT ![made] = "new"]
  /\ main' = "waitInit"
  /\ UNCHANGED <<made, started, hasLoop, initSem, startSem, myIndex, accepting, owner,
                 state, pool, connVars, tasks, gone, netVars>>

(* Mutant: the constructor does not wait for its thread. *)
ThreadCreatedAtOnce ==
  /\ main = "waitInit"
  /\ made' = made + 1
  /\ main' = "create"
  /\ UNCHANGED <<started, io, hasLoop, initSem, startSem, myIndex, accepting, owner,
                 state, pool, connVars, tasks, gone, netVars>>

ThreadCreated ==
  /\ main = "waitInit"
  /\ initSem[made] > 0
  /\ initSem' = [initSem EXCEPT ![made] = @ - 1]
  /\ made' = made + 1
  /\ main' = "create"
  /\ UNCHANGED <<started, io, hasLoop, startSem, myIndex, accepting, owner, state,
                 pool, connVars, tasks, gone, netVars>>

InitServer ==
  /\ main = "create"
  /\ made = IOThreads
  /\ main' = "start"
  /\ UNCHANGED <<startVars, myIndex, accepting, owner, state, pool, connVars, tasks,
                 gone, netVars>>

StartThread(t) == startSem' = [startSem EXCEPT ![t] = @ + 1]

(* IOThreadGroup::Start, one thread after the other, and Loop.             *)
Start ==
  /\ main = "start"
  /\ IF started < IOThreads
       THEN StartThread(started) /\ started' = started + 1 /\ UNCHANGED main
       ELSE main' = "loop" /\ UNCHANGED <<startSem, started>>
  /\ UNCHANGED <<made, io, hasLoop, initSem, myIndex, accepting, owner, state, pool,
                 connVars, tasks, gone, netVars>>

ThreadNewLoop(t) ==
  /\ io[t] = "new"
  /\ hasLoop' = [hasLoop EXCEPT ![t] = TRUE]
  /\ io' = [io EXCEPT ![t] = "post"]
  /\ UNCHANGED <<main, made, started, initSem, startSem, myIndex, accepting, owner,
                 state, pool, connVars, tasks, gone, netVars>>

ThreadPostInit(t) ==
  /\ io[t] = "post"
  /\ initSem' = [initSem EXCEPT ![t] = @ + 1]
  /\ io' = [io EXCEPT ![t] = "waitStart"]
  /\ UNCHANGED <<main, made, started, hasLoop, startSem, myIndex, accepting, owner,
                 state, pool, connVars, tasks, gone, netVars>>

ThreadStart(t) ==
  /\ io[t] = "waitStart"
  /\ startSem[t] > 0
  /\ startSem' = [startSem EXCEPT ![t] = @ - 1]
  /\ io' = [io EXCEPT ![t] = "loop"]
  /\ UNCHANGED <<main, made, started, hasLoop, initSem, myIndex, accepting, owner,
                 state, pool, connVars, tasks, gone, netVars>>

-----------------------------------------------------------------------------
(* The main thread: OnAccept in the order of its effects, and the timer.   *)

QueueTask(t, do, c) ==
  tasks' = [tasks EXCEPT ![t] = Append(@, [do |-> do, of |-> c])]

(* GetIOThread gives out the thread at myIndex and moves on.               *)
NextThread == (myIndex + 1) % IOThreads

(* The constructor of the connection of c, on t, ends with ListenRead: the *)
(* IO thread may see the connection from here on.                          *)
NewConnection(c, t) ==
  /\ owner' = [owner EXCEPT ![c] = t]
  /\ state' = [state EXCEPT ![c] = "NotConnected"]
  /\ listen' = [listen EXCEPT ![c] = {"in"}]
  /\ QueueTask(t, "add", c)

(* Accept, GetIOThread and the constructor.                                *)
OnAccept ==
  /\ main = "loop"
  /\ \E c \in Conns :
       /\ client[c] # "outside" /\ state[c] = "none"
       /\ accepting' = c
       /\ NewConnection(c, myIndex)
  /\ myIndex' = NextThread
  /\ main' = "setState"
  /\ UNCHANGED <<startVars, pool, armed, unsent, gone, netVars>>

(* accept() returns -1, which GetFDEvent takes as an index.                *)
OnAcceptFails ==
  /\ AcceptMayFail
  /\ main = "loop"
  /\ \E c \in Conns : client[c] # "outside" /\ state[c] = "none"
  /\ main' = "crashed"
  /\ UNCHANGED <<startVars, myIndex, accepting, owner, state, pool, connVars, tasks,
                 gone, netVars>>

(* Mutant: nobody says that the connection is there. *)
OnAcceptStateForgotten ==
  /\ main = "setState"
  /\ main' = "insert"
  /\ UNCHANGED <<startVars, myIndex, accepting, owner, state, pool, connVars, tasks,
                 gone, netVars>>

OnAcceptSetState ==
  /\ main = "setState"
  /\ state' = [state EXCEPT ![accepting] = "Connected"]
  /\ main' = "insert"
  /\ UNCHANGED <<startVars, myIndex, accepting, owner, pool, connVars, tasks, gone,
                 netVars>>

OnAcceptInsert ==
  /\ main = "insert"
  /\ pool' = pool \cup {accepting}
  /\ accepting' = NoConn
  /\ main' = "loop"
  /\ UNCHANGED <<startVars, myIndex, owner, state, connVars, tasks, gone, netVars>>

Collectable == {c \in pool : state[c] = "Closed"}

(* The last pointer to a connection goes: ~TcpConnection.                  *)
ClearClosedClientTimer ==
  /\ main = "loop"
  /\ Collectable # {}
  /\ pool' = pool \ Collectable
  /\ gone' = gone \cup Collectable
  /\ UNCHANGED <<main, startVars, myIndex, accepting, owner, state, connVars, tasks,
                 netVars>>

-----------------------------------------------------------------------------
(* The loop of an IO thread.                                               *)

Ready(c) ==
  {m \in {"in", "out"} :
     \/ client[c] = "reset"
     \/ m = "in" /\ (unread[c] > 0 \/ client[c] = "left")
     \/ m = "out" /\ arriving[c] < SocketSize}

HandlerWaits(c) ==
  \E i \in 1..Len(tasks[owner[c]]) :
    tasks[owner[c]][i].of = c /\ tasks[owner[c]][i].do # "add"

Handlers(c) ==
  LET now == armed[c] \cap Ready(c)
      read == IF "in" \in now THEN <<[do |-> "OnRead", of |-> c]>> ELSE <<>>
      write == IF "out" \in now THEN <<[do |-> "OnWrite", of |-> c]>> ELSE <<>>
  IN  read \o write

Reported(c) ==
  armed[c] # NONE /\ ~HandlerWaits(c) /\ (Handlers(c) # <<>> \/ client[c] = "reset")

(* Mutant: epoll is told of edges: a report is not repeated. *)
ReportOnce(t, c) ==
  /\ io[t] = "loop" /\ owner[c] = t
  /\ Reported(c)
  /\ tasks' = [tasks EXCEPT ![t] = @ \o Handlers(c)]
  /\ armed' = [armed EXCEPT ![c] = {}]
  /\ UNCHANGED <<main, startVars, myIndex, accepting, owner, state, pool, listen,
                 unsent, gone, netVars>>

(* epoll_wait reports a connection, none of whose handlers is waiting.  An *)
(* error takes the descriptor out of the epoll set.                        *)
Report(t, c) ==
  /\ io[t] = "loop" /\ owner[c] = t
  /\ Reported(c)
  /\ tasks' = [tasks EXCEPT ![t] = @ \o Handlers(c)]
  /\ armed' = IF client[c] = "reset" THEN [armed EXCEPT ![c] = NONE] ELSE armed
  /\ UNCHANGED <<main, startVars, myIndex, accepting, owner, state, pool, listen,
                 unsent, gone, netVars>>

(* The next callback of t is this one.                                     *)
Runs(t, do, c) ==
  /\ io[t] = "loop"
  /\ tasks[t] # <<>>
  /\ Head(tasks[t]) = [do |-> do, of |-> c]
  /\ tasks' = [tasks EXCEPT ![t] = Tail(@)]

RunAdd(t, c) ==
  /\ Runs(t, "add", c)
  /\ armed' = [armed EXCEPT ![c] = listen[c]]
  /\ UNCHANGED <<main, startVars, myIndex, accepting, owner, state, pool, listen,
                 unsent, gone, netVars>>

(* OnRead or OnWrite of a connection that is not Connected.                *)
Refuse(t, c) ==
  /\ Runs(t, "OnRead", c) \/ Runs(t, "OnWrite", c)
  /\ state[c] # "Connected"
  /\ UNCHANGED <<main, startVars, myIndex, accepting, owner, state, pool, connVars,
                 gone, netVars>>

(* ReplyRPCResponse, n times: Encode and ListenWrite.                      *)
ReplyRPCResponse(c, n) ==
  /\ unsent' = [unsent EXCEPT ![c] = @ + n]
  /\ IF n > 0
       THEN /\ listen' = [listen EXCEPT ![c] = @ \cup {"out"}]
            /\ armed' = [armed EXCEPT ![c] = listen[c] \cup {"out"}]
       ELSE UNCHANGED <<listen, armed>>

(* OnRead takes all there is; OnExcute dispatches the requests, of which   *)
(* any number is answered.                                                 *)
OnReadRequests(t, c) ==
  /\ Runs(t, "OnRead", c)
  /\ state[c] = "Connected"
  /\ unread[c] > 0
  /\ unread' = [unread EXCEPT ![c] = 0]
  /\ \E n \in 0..unread[c] : ReplyRPCResponse(c, n)
  /\ UNCHANGED <<main, startVars, myIndex, accepting, owner, state, pool, gone, client,
                 sent, arriving>>

(* OnRead meets the end of the stream: ClearConnection.  Requests that     *)
(* filled the buffer exactly are read with it, and dropped.                *)
OnReadClosed(t, c) ==
  /\ Runs(t, "OnRead", c)
  /\ state[c] = "Connected"
  /\ client[c] \in {"left", "reset"}
  /\ unread' = [unread EXCEPT ![c] = 0]
  /\ listen' = [listen EXCEPT ![c] = {}]
  /\ armed' = [armed EXCEPT ![c] = NONE]
  /\ state' = [state EXCEPT ![c] = "Closed"]
  /\ UNCHANGED <<main, startVars, myIndex, accepting, owner, pool, unsent, gone, client,
                 sent, arriving>>

(* The bytes to write, and whether one write takes them all.               *)
ReadRemain(c) == ReplySize * unsent[c]

Fits(c) == client[c] # "reset" /\ arriving[c] + ReadRemain(c) <= SocketSize

(* OnWrite goes round a loop; each of the following is one turn of it.  The
   buffer is empty, or the write takes all of it: the last turn.             *)
OnWriteAll(t, c) ==
  /\ Runs(t, "OnWrite", c)
  /\ state[c] = "Connected"
  /\ unsent[c] = 0 \/ Fits(c)
  /\ unsent' = [unsent EXCEPT ![c] = 0]
  /\ arriving' = [arriving EXCEPT ![c] = @ + ReadRemain(c)]
  /\ listen' = [listen EXCEPT ![c] = @ \ {"out"}]
  /\ armed' = [armed EXCEPT ![c] = listen[c] \ {"out"}]
  /\ UNCHANGED <<main, startVars, myIndex, accepting, owner, state, pool, gone, client,
                 sent, unread>>

(* The socket takes a part, which stays in the buffer as if it had not: the
   loop goes on.                                                             *)
OnWriteShort(t, c) ==
  /\ io[t] = "loop"
  /\ tasks[t] # <<>> /\ Head(tasks[t]) = [do |-> "OnWrite", of |-> c]
  /\ state[c] = "Connected" /\ client[c] # "reset"
  /\ unsent[c] > 0 /\ ~Fits(c)
  /\ arriving[c] < SocketSize
  /\ arriving' = [arriving EXCEPT ![c] = SocketSize]
  /\ UNCHANGED <<main, startVars, myIndex, accepting, owner, state, pool, connVars,
                 tasks, gone, client, sent, unread>>


(* EAGAIN: the replies wait, still listened for, for the socket to have room
   again.                                                                    *)
OnWriteAgain(t, c) ==
  /\ Runs(t, "OnWrite", c)
  /\ state[c] = "Connected" /\ client[c] # "reset"
  /\ unsent[c] > 0
  /\ arriving[c] = SocketSize
  /\ UNCHANGED <<main, startVars, myIndex, accepting, owner, state, pool, connVars,
                 gone, netVars>>

(* The client has reset the connection: the first write reports it, the    *)
(* second, which the loop of OnWrite makes, raises SIGPIPE.                *)
OnWriteBroken(t, c) ==
  /\ Runs(t, "OnWrite", c)
  /\ state[c] = "Connected"
  /\ client[c] = "reset" /\ unsent[c] > 0
  /\ main' = "killed"
  /\ UNCHANGED <<startVars, myIndex, accepting, owner, state, pool, connVars, gone,
                 netVars>>

-----------------------------------------------------------------------------
(* The clients.                                                            *)

ClientConnects(c) ==
  /\ client[c] = "outside"
  /\ client' = [client EXCEPT ![c] = "connected"]
  /\ UNCHANGED <<main, startVars, myIndex, accepting, owner, state, pool, connVars,
                 tasks, gone, sent, unread, arriving>>

ClientSends(c) ==
  /\ client[c] = "connected" /\ sent[c] < MaxRequests[c]
  /\ sent' = [sent EXCEPT ![c] = @ + 1]
  /\ unread' = [unread EXCEPT ![c] = @ + 1]
  /\ UNCHANGED <<main, startVars, myIndex, accepting, owner, state, pool, connVars,
                 tasks, gone, client, arriving>>

(* The client reads what has come.                                         *)
ClientReads(c) ==
  /\ c \in Readers
  /\ client[c] = "connected" /\ arriving[c] > 0
  /\ arriving' = [arriving EXCEPT ![c] = 0]
  /\ UNCHANGED <<main, startVars, myIndex, accepting, owner, state, pool, connVars,
                 tasks, gone, client, sent, unread>>

ClientLeaves(c) ==
  /\ client[c] = "connected"
  /\ client' = [client EXCEPT ![c] = "left"]
  /\ UNCHANGED <<main, startVars, myIndex, accepting, owner, state, pool, connVars,
                 tasks, gone, sent, unread, arriving>>

ClientResets(c) ==
  /\ client[c] \in {"connected", "left"}
  /\ client' = [client EXCEPT ![c] = "reset"]
  /\ UNCHANGED <<main, startVars, myIndex, accepting, owner, state, pool, connVars,
                 tasks, gone, sent, unread, arriving>>

-----------------------------------------------------------------------------
MainThread ==
  \/ CreateThread \/ ThreadCreated \/ InitServer \/ Start
  \/ OnAccept \/ OnAcceptFails \/ OnAcceptSetState \/ OnAcceptInsert
  \/ ClearClosedClientTimer

ThreadMain(t) ==
  \/ ThreadNewLoop(t) \/ ThreadPostInit(t) \/ ThreadStart(t)
  \/ \E c \in Conns :
       \/ Report(t, c) \/ RunAdd(t, c) \/ Refuse(t, c)
       \/ OnReadRequests(t, c) \/ OnReadClosed(t, c)
       \/ OnWriteAll(t, c) \/ OnWriteShort(t, c) \/ OnWriteAgain(t, c)
       \/ OnWriteBroken(t, c)

Client(c) ==
  \/ ClientConnects(c) \/ ClientSends(c) \/ ClientReads(c)
  \/ ClientLeaves(c) \/ ClientResets(c)

(* Nothing can happen but another client: the loops sleep.                 *)
Idle ==
  /\ main = "loop" /\ Collectable = {}
  /\ \A c \in Conns : client[c] = "outside" \/ state[c] # "none"
  /\ \A t \in Threads : io[t] = "loop" /\ tasks[t] = <<>>
  /\ \A c \in Conns : ~Reported(c)

Next ==
  \/ /\ ~Down
     /\ \/ MainThread
        \/ \E t \in Threads : ThreadMain(t)
        \/ \E c \in Conns : Client(c)
  \/ (Down \/ Idle) /\ UNCHANGED vars

(* The threads run; a loop runs its callbacks and reports every descriptor
   again and again while it is ready, so each connection gets its turn.  The
   clearing timer is repeated, whatever else the main thread has to do.  Of
   the clients, Readers read while they stay.                              *)
Fairness ==
  /\ WF_vars(~Down /\ MainThread)
  /\ WF_vars(~Down /\ ClearClosedClientTimer)
  /\ \A t \in Threads : WF_vars(~Down /\ ThreadMain(t))
  /\ \A c \in Conns : WF_vars(~Down /\ \E t \in Threads : Report(t, c))
  /\ \A c \in Readers : WF_vars(~Down /\ ClientReads(c))

Spec == Init /\ [][Next]_vars /\ Fairness

-----------------------------------------------------------------------------
(* A connection is given only to a thread that has its loop (io_thread.cc 47,
   74: the constructor waits), and is listened to from the moment it is
   Connected: it is in the epoll set for what it must hear of, or the
   callback that puts it there is queued.  A reply in the buffer is always
   listened for.  An error report alone may take a connection out.         *)
AddWaits(c) ==
  \E i \in 1..Len(tasks[owner[c]]) : tasks[owner[c]][i] = [do |-> "add", of |-> c]

AcceptedIsListenedTo ==
  \A c \in Conns :
    /\ state[c] # "none" => hasLoop[owner[c]]
    /\ state[c] \in {"NotConnected", "Connected"} /\ client[c] # "reset" =>
         \/ "in" \in armed[c]
         \/ AddWaits(c) /\ listen[c] = {"in"}
    /\ state[c] = "Connected" /\ client[c] # "reset" /\ unsent[c] > 0 =>
         "out" \in armed[c]

(* A thread has replies that no socket takes at once, with which OnWrite comes
   to an end only if the client stops reading, and never to a good one.      *)
Swamped(t) == \E c \in Conns : owner[c] = t /\ ReadRemain(c) > SocketSize

(* A request that reaches the server is read, although the IO thread may see
   the connection before it is Connected and turns it away then (68-72).   *)
RequestsAreRead ==
  \A c \in Conns :
    unread[c] > 0
      ~> unread[c] = 0 \/ client[c] = "reset" \/ Down \/ Swamped(owner[c])


(* A connection whose client has left is destroyed by the timer, also when it
   left with replies that wait for room in its socket.                      *)
LeftIsCollected ==
  \A c \in Conns :
    client[c] = "left" ~> c \in gone \/ client[c] = "reset" \/ Down \/ Swamped(owner[c])

-----------------------------------------------------------------------------
(* What the source says and the code does not do: these fail, see
   TcpServer_loop.cfg and TcpServer_claims.cfg.                            *)

(* "Periodically delete the connections that have been disconnected"
   (tcp_server.cc:75), those that were reset as well.                      *)
ResetIsCollected ==
  \A c \in Conns : client[c] = "reset" ~> c \in gone \/ Down

(* "The send buffer of the socket is full ... send the data the next time the
   descriptor is writable" (tcp_connection.cc:279), whatever its size.       *)
WrittenNextTime ==
  \A c \in Readers :
    unsent[c] > 0 ~> unsent[c] = 0 \/ client[c] \in {"left", "reset"} \/ Down

(* The message of OnRead's early return: "client has already disconnected"
   (tcp_connection.cc:70).                                                 *)
RefusedHasDisconnected ==
  [][\A t \in Threads, c \in Conns :
       Refuse(t, c) => client[c] \in {"left", "reset"}]_vars

(* ~IOThread is what deletes the loop of a thread, after it has stopped it and
   "waited for the IO thread to finish and leave" (io_thread.cc:60-65): a loop
   is "created when the thread starts and destroyed when it ends"
   (eventloop.cc:54).                                                      *)
LoopOutlivesThread == ~LoopDeleted

(* "Only the main thread works on this pool, so no lock is needed"
   (tcp_server.cc:103): what it destroys is not in use by an IO thread.    *)
DestroyedIsUnused == \A c \in gone : ~HandlerWaits(c)
=============================================================================
