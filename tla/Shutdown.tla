------------------------------ MODULE Shutdown ------------------------------
(***************************************************************************)
(* Shutdown of the chat server: main()'s loop and reset order              *)
(* (src/server.cpp), the Ctrl-C ConsoleHandler, IOCPServer::Stop and the   *)
(* threads it stops (src/iocp_server.cpp), and ThreadPool::shutdown        *)
(* (src/thread_pool.cpp).                                                  *)
(*                                                                         *)
(* Actors: main, the console-handler thread, the IOCP workers (one thread  *)
(* here), the detached accept thread, the pool workers, and peers whose    *)
(* completions the IOCP workers turn into tasks.  Stop can be entered by   *)
(* the handler and by ~IOCPServer at the same time, so each caller has its *)
(* own place in Stop.  What a callback does is left to Server.tla; here a  *)
(* task only touches the globals, all of them, as every callback does.     *)
(***************************************************************************)
EXTENDS Naturals, Sequences

CONSTANTS
    Client,      \* connections the accept thread may take
    PoolWorker,  \* ThreadPool worker threads
    MaxEvents,   \* bound on completions the IOCP workers handle
    NoClient

Caller == {"handler", "dtor"}

\* The objects main() resets after g_server, in one step.
Globals == {"store", "rooms", "cm"}

StopPc == {"out", "check", "store", "close_listen", "join", "clear",
           "close_port", "ret"}

VARIABLES
    gRun,       \* g_running
    gptr,       \* g_server is non-null
    alive,      \* objects not yet destroyed: "server" and Globals
    running,    \* IOCPServer::running
    listening,  \* listen_socket is open
    portOpen,   \* completion_port is open
    clients,    \* IOCPServer::clients
    accepted,   \* ids the accept thread has taken
    io,         \* the IOCP workers: "run" or "exited"
    events,     \* completions handled so far
    acc,        \* accept thread: "loop", "got" (accept returned) or "exited"
    accC,       \* the connection accept returned
    tasks,      \* ThreadPool::tasks
    poolStop,   \* ThreadPool::stop
    notified,   \* shutdown's notify_all has happened
    pw,         \* each pool worker: "wait", "busy" or "exited"
    stp,        \* where each caller is in Stop
    mainPc,
    hPc,        \* the console handler
    uaf         \* history: a thread used an object main() had destroyed

vars == <<gRun, gptr, alive, running, listening, portOpen, clients,
          accepted, io, events, acc, accC, tasks, poolStop, notified, pw,
          stp, mainPc, hPc, uaf>>

Task == [kind : {"connect", "message", "disconnect"}, id : Client]

TypeOK ==
    /\ gRun \in BOOLEAN /\ gptr \in BOOLEAN /\ running \in BOOLEAN
    /\ alive \subseteq {"server"} \cup Globals
    /\ clients \subseteq accepted /\ accepted \subseteq Client
    /\ io \in {"run", "exited"} /\ events \in 0..MaxEvents
    /\ acc \in {"loop", "got", "exited"} /\ accC \in Client \cup {NoClient}
    /\ tasks \in Seq(Task)
    /\ pw \in [PoolWorker -> {"wait", "busy", "exited"}]
    /\ stp \in [Caller -> StopPc]

(* main() after Start: every object built, the server running, its        *)
(* threads in their loops, nobody connected yet.                           *)
Init ==
    /\ gRun = TRUE /\ gptr = TRUE /\ alive = {"server"} \cup Globals
    /\ running = TRUE /\ listening = TRUE /\ portOpen = TRUE
    /\ clients = {} /\ accepted = {}
    /\ io = "run" /\ events = 0
    /\ acc = "loop" /\ accC = NoClient
    /\ tasks = <<>> /\ poolStop = FALSE /\ notified = FALSE
    /\ pw = [w \in PoolWorker |-> "wait"]
    /\ stp = [k \in Caller |-> "out"]
    /\ mainPc = "loop" /\ hPc = "idle"
    /\ uaf = FALSE

(* ThreadPool::enqueue: dropped once stop is set.                          *)
Enqueue(q, t) == IF poolStop THEN q ELSE Append(q, t)

-----------------------------------------------------------------------------
(* IOCP workers and the accept thread                                      *)

(* A completion while running: data becomes an on_message task; a close  *)
(* or error runs CleanupClient, which posts on_disconnect.                 *)
IoEvent(c) ==
    /\ io = "run" /\ running /\ c \in clients /\ events < MaxEvents
    /\ events' = events + 1
    /\ \/ tasks' = Enqueue(tasks, [kind |-> "message", id |-> c])
          /\ UNCHANGED clients
       \/ clients' = clients \ {c}
          /\ tasks' = Enqueue(tasks, [kind |-> "disconnect", id |-> c])
    /\ UNCHANGED <<gRun, gptr, alive, running, listening, portOpen,
                   accepted, io, acc, accC, poolStop, notified, pw, stp,
                   mainPc, hPc, uaf>>

(* The loop sees running false (after a wake-up packet or its one-second  *)
(* timeout) and returns.                                                    *)
IoExit ==
    /\ io = "run" /\ ~running
    /\ io' = "exited"
    /\ UNCHANGED <<gRun, gptr, alive, running, listening, portOpen, clients,
                   accepted, events, acc, accC, tasks, poolStop, notified,
                   pw, stp, mainPc, hPc, uaf>>

(* AcceptConnections: while running, accept on the listen socket returns  *)
(* a peer.                                                                  *)
AccGot(c) ==
    /\ acc = "loop" /\ running /\ listening /\ c \notin accepted
    /\ acc' = "got" /\ accC' = c
    /\ accepted' = accepted \cup {c}
    /\ uaf' = (uaf \/ "server" \notin alive)
    /\ UNCHANGED <<gRun, gptr, alive, running, listening, portOpen, clients,
                   io, events, tasks, poolStop, notified, pw, stp, mainPc,
                   hPc>>

(* HandleAccept: associate with the port (on failure close and return),   *)
(* add to clients, post on_connect and the first read.                     *)
AccHandle ==
    /\ acc = "got"
    /\ acc' = "loop" /\ accC' = NoClient
    /\ IF portOpen
       THEN /\ clients' = clients \cup {accC}
            /\ tasks' = Enqueue(tasks, [kind |-> "connect", id |-> accC])
       ELSE UNCHANGED <<clients, tasks>>
    /\ uaf' = (uaf \/ "server" \notin alive)
    /\ UNCHANGED <<gRun, gptr, alive, running, listening, portOpen,
                   accepted, io, events, poolStop, notified, pw, stp,
                   mainPc, hPc>>

(* The loop test fails: the thread ends (it is detached, nobody joins it). *)
AccExit ==
    /\ acc = "loop" /\ ~running
    /\ acc' = "exited"
    /\ uaf' = (uaf \/ "server" \notin alive)
    /\ UNCHANGED <<gRun, gptr, alive, running, listening, portOpen, clients,
                   accepted, io, events, accC, tasks, poolStop, notified,
                   pw, stp, mainPc, hPc>>
-----------------------------------------------------------------------------
(* IOCPServer::Stop, entered by caller k.  Each step is one statement of  *)
(* Stop; a step taken by the handler after main freed the object is a use *)
(* after free.                                                              *)

StopStep(k, to) == stp' = [stp EXCEPT ![k] = to]

UsesFreed(k) == uaf' = (uaf \/ (k = "handler" /\ "server" \notin alive))

(* if (!running) return;                                                    *)
StopCheck(k) ==
    /\ stp[k] = "check"
    /\ StopStep(k, IF running THEN "store" ELSE "ret")
    /\ UsesFreed(k)
    /\ UNCHANGED <<gRun, gptr, alive, running, listening, portOpen, clients,
                   accepted, io, events, acc, accC, tasks, poolStop,
                   notified, pw, mainPc, hPc>>

(* running.store(false); closesocket(listen_socket).                        *)
StopStore(k) ==
    /\ stp[k] = "store"
    /\ running' = FALSE
    /\ StopStep(k, "close_listen")
    /\ UsesFreed(k)
    /\ UNCHANGED <<gRun, gptr, alive, listening, portOpen, clients,
                   accepted, io, events, acc, accC, tasks, poolStop,
                   notified, pw, mainPc, hPc>>

StopCloseListen(k) ==
    /\ stp[k] = "close_listen"
    /\ listening' = FALSE
    /\ StopStep(k, "join")
    /\ UsesFreed(k)
    /\ UNCHANGED <<gRun, gptr, alive, running, portOpen, clients, accepted,
                   io, events, acc, accC, tasks, poolStop, notified, pw,
                   mainPc, hPc>>

(* Post one wake-up packet per worker, join them, clear io_workers.         *)
StopJoin(k) ==
    /\ stp[k] = "join"
    /\ io = "exited"
    /\ StopStep(k, "clear")
    /\ UsesFreed(k)
    /\ UNCHANGED <<gRun, gptr, alive, running, listening, portOpen, clients,
                   accepted, io, events, acc, accC, tasks, poolStop,
                   notified, pw, mainPc, hPc>>

(* Under clients_mutex: close every client socket, clear both maps.  No   *)
(* callback is posted for the clients dropped here.                         *)
StopClear(k) ==
    /\ stp[k] = "clear"
    /\ clients' = {}
    /\ StopStep(k, "close_port")
    /\ UsesFreed(k)
    /\ UNCHANGED <<gRun, gptr, alive, running, listening, portOpen,
                   accepted, io, events, acc, accC, tasks, poolStop,
                   notified, pw, mainPc, hPc>>

(* CloseHandle(completion_port) and return.                                 *)
StopClosePort(k) ==
    /\ stp[k] = "close_port"
    /\ portOpen' = FALSE
    /\ StopStep(k, "ret")
    /\ UsesFreed(k)
    /\ UNCHANGED <<gRun, gptr, alive, running, listening, clients, accepted,
                   io, events, acc, accC, tasks, poolStop, notified, pw,
                   mainPc, hPc>>

StopAction(k) ==
    \/ StopCheck(k) \/ StopStore(k) \/ StopCloseListen(k)
    \/ StopJoin(k) \/ StopClear(k) \/ StopClosePort(k)
-----------------------------------------------------------------------------
(* The console handler, on its own thread                                  *)

(* Ctrl-C: g_running = false.                                               *)
Signal ==
    /\ hPc = "idle"
    /\ gRun' = FALSE /\ hPc' = "ptr"
    /\ UNCHANGED <<gptr, alive, running, listening, portOpen, clients,
                   accepted, io, events, acc, accC, tasks, poolStop,
                   notified, pw, stp, mainPc, uaf>>

(* if (g_server) g_server->Stop(); the pointer is read once.               *)
HandlerPtr ==
    /\ hPc = "ptr"
    /\ IF gptr THEN hPc' = "stop" /\ StopStep("handler", "check")
               ELSE hPc' = "done" /\ UNCHANGED stp
    /\ UNCHANGED <<gRun, gptr, alive, running, listening, portOpen, clients,
                   accepted, io, events, acc, accC, tasks, poolStop,
                   notified, pw, mainPc, uaf>>

HandlerRet ==
    /\ hPc = "stop" /\ stp["handler"] = "ret"
    /\ hPc' = "done" /\ StopStep("handler", "out")
    /\ UNCHANGED <<gRun, gptr, alive, running, listening, portOpen, clients,
                   accepted, io, events, acc, accC, tasks, poolStop,
                   notified, pw, mainPc, uaf>>

-----------------------------------------------------------------------------
(* main() from its loop to the end                                          *)

(* while (g_running && g_server->IsRunning()) Sleep(1000); ... (the idle  *)
(* sweep is Server.tla's Timeout).                                          *)
MainLoopExit ==
    /\ mainPc = "loop" /\ (~gRun \/ ~running)
    /\ mainPc' = "reset_srv"
    /\ UNCHANGED <<gRun, gptr, alive, running, listening, portOpen, clients,
                   accepted, io, events, acc, accC, tasks, poolStop,
                   notified, pw, stp, hPc, uaf>>

(* g_server.reset(): unique_ptr nulls the pointer, then ~IOCPServer runs  *)
(* Stop, then the object is freed.                                          *)
MainResetServer ==
    /\ mainPc = "reset_srv"
    /\ gptr' = FALSE /\ mainPc' = "in_dtor"
    /\ StopStep("dtor", "check")
    /\ UNCHANGED <<gRun, alive, running, listening, portOpen, clients,
                   accepted, io, events, acc, accC, tasks, poolStop,
                   notified, pw, hPc, uaf>>

MainFreeServer ==
    /\ mainPc = "in_dtor" /\ stp["dtor"] = "ret"
    /\ alive' = alive \ {"server"} /\ mainPc' = "reset_rest"
    /\ StopStep("dtor", "out")
    /\ UNCHANGED <<gRun, gptr, running, listening, portOpen, clients,
                   accepted, io, events, acc, accC, tasks, poolStop,
                   notified, pw, hPc, uaf>>

(* g_message_store, g_chat_rooms, g_connection_manager .reset().           *)
MainResetRest ==
    /\ mainPc = "reset_rest"
    /\ alive' = alive \ Globals /\ mainPc' = "pool_stop"
    /\ UNCHANGED <<gRun, gptr, running, listening, portOpen, clients,
                   accepted, io, events, acc, accC, tasks, poolStop,
                   notified, pw, stp, hPc, uaf>>

(* g_thread_pool.reset(): ~ThreadPool runs shutdown: stop = true under    *)
(* queue_mutex, notify_all, join every worker.                              *)
PoolShutdownStop ==
    /\ mainPc = "pool_stop"
    /\ poolStop' = TRUE /\ mainPc' = "pool_notify"
    /\ UNCHANGED <<gRun, gptr, alive, running, listening, portOpen, clients,
                   accepted, io, events, acc, accC, tasks, notified, pw,
                   stp, hPc, uaf>>

\* A shutdown that forgets notify_all.
PoolShutdownNoNotify ==
    /\ mainPc = "pool_notify"
    /\ mainPc' = "pool_join"
    /\ UNCHANGED <<gRun, gptr, alive, running, listening, portOpen, clients,
                   accepted, io, events, acc, accC, tasks, poolStop,
                   notified, pw, stp, hPc, uaf>>

PoolShutdownNotify ==
    /\ mainPc = "pool_notify"
    /\ notified' = TRUE /\ mainPc' = "pool_join"
    /\ UNCHANGED <<gRun, gptr, alive, running, listening, portOpen, clients,
                   accepted, io, events, acc, accC, tasks, poolStop, pw,
                   stp, hPc, uaf>>

PoolShutdownJoin ==
    /\ mainPc = "pool_join" /\ \A w \in PoolWorker : pw[w] = "exited"
    /\ mainPc' = "done"
    /\ UNCHANGED <<gRun, gptr, alive, running, listening, portOpen, clients,
                   accepted, io, events, acc, accC, tasks, poolStop,
                   notified, pw, stp, hPc, uaf>>

-----------------------------------------------------------------------------
(* Pool workers                                                             *)

(* What a task dereferences: the server through the captured this and     *)
(* g_server, the room and connection managers, and the store for a        *)
(* message.                                                                 *)
Uses(t) == {"server", "rooms", "cm"} \cup
           (IF t.kind = "message" THEN {"store"} ELSE {})

(* Woken with a task queued (or still busy): pop the front and run it.     *)
PoolRun(w) ==
    /\ pw[w] \in {"wait", "busy"} /\ tasks # <<>>
    /\ pw' = [pw EXCEPT ![w] = "busy"]
    /\ tasks' = Tail(tasks)
    /\ uaf' = (uaf \/ ~gptr \/ ~(Uses(Head(tasks)) \subseteq alive))
    /\ UNCHANGED <<gRun, gptr, alive, running, listening, portOpen, clients,
                   accepted, io, events, acc, accC, poolStop, notified, stp,
                   mainPc, hPc>>

(* Back at the wait with nothing queued and no stop: block.                *)
PoolIdle(w) ==
    /\ pw[w] = "busy" /\ tasks = <<>> /\ ~poolStop
    /\ pw' = [pw EXCEPT ![w] = "wait"]
    /\ UNCHANGED <<gRun, gptr, alive, running, listening, portOpen, clients,
                   accepted, io, events, acc, accC, tasks, poolStop,
                   notified, stp, mainPc, hPc, uaf>>

(* stop and an empty queue: return.  A blocked worker needs notify_all to *)
(* see it; one coming back from a task tests the predicate at once.        *)
PoolExit(w) ==
    /\ pw[w] = "busy" \/ (pw[w] = "wait" /\ notified)
    /\ poolStop /\ tasks = <<>>
    /\ pw' = [pw EXCEPT ![w] = "exited"]
    /\ UNCHANGED <<gRun, gptr, alive, running, listening, portOpen, clients,
                   accepted, io, events, acc, accC, tasks, poolStop,
                   notified, stp, mainPc, hPc, uaf>>

-----------------------------------------------------------------------------
Next ==
    \/ Signal \/ HandlerPtr \/ HandlerRet
    \/ \E k \in Caller : StopAction(k)
    \/ MainLoopExit \/ MainResetServer \/ MainFreeServer \/ MainResetRest
    \/ PoolShutdownStop \/ PoolShutdownNotify \/ PoolShutdownJoin
    \/ \E c \in Client : IoEvent(c) \/ AccGot(c)
    \/ IoExit \/ AccHandle \/ AccExit
    \/ \E w \in PoolWorker : PoolRun(w) \/ PoolIdle(w) \/ PoolExit(w)

(* The server's own threads are weakly fair once they can move; Ctrl-C    *)
(* and peers are not.                                                       *)
Fairness ==
    /\ WF_vars(HandlerPtr) /\ WF_vars(HandlerRet)
    /\ \A k \in Caller : WF_vars(StopAction(k))
    /\ WF_vars(MainLoopExit) /\ WF_vars(MainResetServer)
    /\ WF_vars(MainFreeServer) /\ WF_vars(MainResetRest)
    /\ WF_vars(PoolShutdownStop) /\ WF_vars(PoolShutdownNotify)
    /\ WF_vars(PoolShutdownJoin)
    /\ WF_vars(IoExit) /\ WF_vars(AccHandle) /\ WF_vars(AccExit)
    /\ \A w \in PoolWorker : WF_vars(PoolRun(w) \/ PoolIdle(w) \/ PoolExit(w))

Spec == Init /\ [][Next]_vars /\ Fairness

-----------------------------------------------------------------------------
(* After Ctrl-C, main() always gets to the end: Stop's join returns       *)
(* because the IOCP workers see running false, and the pool's join returns *)
(* because shutdown wakes the blocked workers, which drain the queue.      *)
ShutdownTerminates == (~gRun) ~> (mainPc = "done")

(* No thread uses an object main() has destroyed: no pool task runs once  *)
(* g_server or a manager it uses has been reset (the pool is reset last   *)
(* and still drains its queue), and neither the console handler inside    *)
(* Stop nor the detached accept thread touches the IOCPServer after       *)
(* g_server.reset() has freed it.                                          *)
NoUseAfterFree == ~uaf
=============================================================================
