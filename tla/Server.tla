------------------------------- MODULE Server -------------------------------
(***************************************************************************)
(* The connection lifecycle of the chat server: the IOCP transport         *)
(* (src/iocp_server.cpp), the task pool its callbacks are posted to        *)
(* (src/thread_pool.h, .cpp), and the three callbacks of src/server.cpp  *)
(* (HandleConnect, HandleMessage, HandleDisconnect) acting on the room     *)
(* manager (ChatRooms.tla), the client-name map and the connection count   *)
(* of ConnectionManager.                                                   *)
(*                                                                         *)
(* Threads: the accept thread, the IOCP workers (one step per completion  *)
(* packet: one outstanding read per client, so completions of a client     *)
(* never overlap), the pool workers (Take a task off the FIFO queue, later *)
(* Run it), the 1 Hz idle sweep of main(), and the peers, which send       *)
(* chunks and close.  A callback runs as one step: with one pool worker    *)
(* no other callback can interleave with it, and the transport state it   *)
(* touches is under clients_mutex at every access.                         *)
(***************************************************************************)
EXTENDS Naturals, Sequences, FiniteSets

CONSTANTS
    Worker,      \* pool worker threads (hardware concurrency)
    Name,        \* display names a peer may register
    NoName,      \* g_client_names has no entry: the "User#<id>" placeholder
    Chunk,       \* the chunks a peer may send (records, see ChunkType)
    NoChunk,
    NoTask,
    MaxChunks,   \* chunks each peer sends at most
    MaxTotal     \* ConnectionManager::Config::max_total_connections

CONSTANTS Client, RoomName, General, Admin, Password, NoPassword,
          Topic, WelcomeTopic, NoTopic, NoRoom

ASSUME Client = 1..Cardinality(Client)

VARIABLES
    rm,          \* ChatRoomManager
    tclients,    \* ids in IOCPServer::clients
    sock,        \* each id's socket: "none", "open" or "closed"
    rd,          \* its read: "idle", "pending" (WSARecv posted), "data" or
                 \* "eof" (completion queued); pending on a closed socket is
                 \* a cancelled read whose error completion is queued
    inbuf,       \* the chunk held by a "data" completion
    sent,        \* chunks the peer has sent
    nextId,      \* IOCPServer::next_client_id
    tasks,       \* ThreadPool::tasks
    wtask,       \* the task each pool worker has dequeued and is running
    names,       \* g_client_names
    activity,    \* ids with an entry in ConnectionManager::last_activity
    connCount,   \* ConnectionManager::current_connections
    admitted,    \* history: ids on_connect admitted
    discRuns     \* history: how often on_disconnect ran for each id

vars == <<rm, tclients, sock, rd, inbuf, sent, nextId, tasks, wtask, names,
          activity, connCount, admitted, discRuns>>

R == INSTANCE ChatRooms

Task == [kind : {"connect", "message", "disconnect"},
         id : Client, chunk : Chunk \cup {NoChunk}]

ChunkType == [kind : {"text", "join", "create", "leave", "exit", "kick"},
              arg : Name \cup RoomName \cup {NoName}]

ConnectTask(c) == [kind |-> "connect", id |-> c, chunk |-> NoChunk]
MessageTask(c, ch) == [kind |-> "message", id |-> c, chunk |-> ch]
DisconnectTask(c) == [kind |-> "disconnect", id |-> c, chunk |-> NoChunk]

(* Type invariant.  connCount stays a natural number only because          *)
(* OnDisconnect never decrements below zero, although on_disconnect can    *)
(* run more often than OnConnect.                                          *)
TypeOK ==
    /\ R!RoomsType
    /\ tclients \in SUBSET Client
    /\ sock \in [Client -> {"none", "open", "closed"}]
    /\ rd \in [Client -> {"idle", "pending", "data", "eof"}]
    /\ inbuf \in [Client -> Chunk \cup {NoChunk}]
    /\ sent \in [Client -> 0..MaxChunks]
    /\ nextId \in 1..Cardinality(Client) + 1
    /\ tasks \in Seq(Task)
    /\ wtask \in [Worker -> Task \cup {NoTask}]
    /\ names \in [Client -> Name \cup {NoName}]
    /\ activity \in SUBSET Client
    /\ connCount \in Nat
    /\ admitted \in SUBSET Client
    /\ discRuns \in [Client -> Nat]

Init ==
    /\ rm = R!InitRooms
    /\ tclients = {}
    /\ sock = [c \in Client |-> "none"]
    /\ rd = [c \in Client |-> "idle"]
    /\ inbuf = [c \in Client |-> NoChunk]
    /\ sent = [c \in Client |-> 0]
    /\ nextId = 1
    /\ tasks = <<>>
    /\ wtask = [w \in Worker |-> NoTask]
    /\ names = [c \in Client |-> NoName]
    /\ activity = {}
    /\ connCount = 0
    /\ admitted = {}
    /\ discRuns = [c \in Client |-> 0]

-----------------------------------------------------------------------------
(* Transport                                                              *)

(* CleanupClient: erase the id and close its socket if it is still in the *)
(* table, then post on_disconnect to the pool whether or not it was.  q is *)
(* the task queue as the caller has left it.                              *)
CleanupClient(c, q) ==
    /\ tclients' = tclients \ {c}
    /\ sock' = IF c \in tclients THEN [sock EXCEPT ![c] = "closed"] ELSE sock
    /\ tasks' = Append(q, DisconnectTask(c))

(* AcceptConnections/HandleAccept: the next id is registered, on_connect   *)
(* is posted, then the first read.                                         *)
Accept ==
    /\ nextId \in Client
    /\ LET c == nextId IN
       /\ tclients' = tclients \cup {c}
       /\ sock' = [sock EXCEPT ![c] = "open"]
       /\ tasks' = Append(tasks, ConnectTask(c))
       /\ rd' = [rd EXCEPT ![c] = "pending"]
       /\ nextId' = nextId + 1
    /\ UNCHANGED <<rm, inbuf, sent, wtask, names, activity, connCount,
                   admitted, discRuns>>

(* The peer's bytes complete the pending read.                            *)
PeerSend(c, ch) ==
    /\ sock[c] = "open" /\ rd[c] = "pending"
    /\ sent[c] < MaxChunks
    /\ rd' = [rd EXCEPT ![c] = "data"]
    /\ inbuf' = [inbuf EXCEPT ![c] = ch]
    /\ sent' = [sent EXCEPT ![c] = @ + 1]
    /\ UNCHANGED <<rm, tclients, sock, nextId, tasks, wtask, names, activity,
                   connCount, admitted, discRuns>>

(* The peer closes (or resets) the connection: the read completes with    *)
(* zero bytes or an error.                                                 *)
PeerClose(c) ==
    /\ sock[c] = "open" /\ rd[c] = "pending"
    /\ rd' = [rd EXCEPT ![c] = "eof"]
    /\ UNCHANGED <<rm, tclients, sock, inbuf, sent, nextId, tasks, wtask,
                   names, activity, connCount, admitted, discRuns>>

\* A PostRead whose failure on a closed socket is not followed by cleanup.
CompleteReadNoCleanup(c) ==
    /\ rd[c] = "data"
    /\ tasks' = Append(tasks, MessageTask(c, inbuf[c]))
    /\ rd' = [rd EXCEPT ![c] = IF sock[c] = "open" THEN "pending" ELSE "idle"]
    /\ inbuf' = [inbuf EXCEPT ![c] = NoChunk]
    /\ UNCHANGED <<tclients, sock>>
    /\ UNCHANGED <<rm, sent, nextId, wtask, names, activity, connCount,
                   admitted, discRuns>>

(* IOCPWorkerThread on a data completion: HandleRead posts on_message with *)
(* the bytes, whether or not the client is still in the table, then        *)
(* PostRead.  WSARecv on a socket that was closed meanwhile fails, and the *)
(* failure path runs CleanupClient.                                        *)
CompleteRead(c) ==
    /\ rd[c] = "data"
    /\ LET q == Append(tasks, MessageTask(c, inbuf[c])) IN
       IF sock[c] = "open"
       THEN /\ rd' = [rd EXCEPT ![c] = "pending"]
            /\ tasks' = q
            /\ UNCHANGED <<tclients, sock>>
       ELSE /\ rd' = [rd EXCEPT ![c] = "idle"]
            /\ CleanupClient(c, q)
    /\ inbuf' = [inbuf EXCEPT ![c] = NoChunk]
    /\ UNCHANGED <<rm, sent, nextId, wtask, names, activity, connCount,
                   admitted, discRuns>>

(* IOCPWorkerThread on a zero-byte completion: graceful close.            *)
CompleteEof(c) ==
    /\ rd[c] = "eof"
    /\ rd' = [rd EXCEPT ![c] = "idle"]
    /\ CleanupClient(c, tasks)
    /\ UNCHANGED <<rm, inbuf, sent, nextId, wtask, names, activity, connCount,
                   admitted, discRuns>>

(* IOCPWorkerThread on a failed completion: closesocket cancelled the      *)
(* pending read, and its error packet reaches a worker.                    *)
CompleteAborted(c) ==
    /\ rd[c] = "pending" /\ sock[c] = "closed"
    /\ rd' = [rd EXCEPT ![c] = "idle"]
    /\ CleanupClient(c, tasks)
    /\ UNCHANGED <<rm, inbuf, sent, nextId, wtask, names, activity, connCount,
                   admitted, discRuns>>

(* CheckTimeouts: a client is returned once its last_activity entry is    *)
(* older than the timeout; a client without an entry never is.  Time is   *)
(* not modelled, so any client with an entry may have gone quiet.          *)
TimedOut(c) == c \in activity

(* main's 1 Hz loop: CheckTimeouts over GetAllClients, and each id it      *)
(* returns is passed to DisconnectClient.                                  *)
Timeout(c) ==
    /\ c \in tclients /\ TimedOut(c)
    /\ CleanupClient(c, tasks)
    /\ UNCHANGED <<rm, rd, inbuf, sent, nextId, wtask, names, activity,
                   connCount, admitted, discRuns>>

-----------------------------------------------------------------------------
(* Thread pool                                                            *)

(* A worker waits on the condition variable until the queue is non-empty *)
(* and pops its front.                                                     *)
Take(w) ==
    /\ wtask[w] = NoTask
    /\ tasks # <<>>
    /\ wtask' = [wtask EXCEPT ![w] = Head(tasks)]
    /\ tasks' = Tail(tasks)
    /\ UNCHANGED <<rm, tclients, sock, rd, inbuf, sent, nextId, names,
                   activity, connCount, admitted, discRuns>>

Done(w) == wtask' = [wtask EXCEPT ![w] = NoTask]

-----------------------------------------------------------------------------
(* Callbacks (server.cpp)                                                  *)

(* AllowConnection with n connections counted: refused at the limit.  No *)
(* ban list in this model, and the per-second window never fills with     *)
(* fewer than max_connections_per_second (50) accepts.                    *)
AllowConnection(n) == n < MaxTotal

(* HandleConnect: AllowConnection, then either DisconnectClient, or        *)
(* OnConnect, JoinRoom("general") and the welcome.                         *)
RunConnect(w) ==
    LET c == wtask[w].id IN
    /\ wtask[w] # NoTask /\ wtask[w].kind = "connect"
    /\ Done(w)
    /\ IF AllowConnection(connCount)
       THEN /\ connCount' = connCount + 1
            /\ rm' = R!Join(rm, General, c)
            /\ admitted' = admitted \cup {c}
            /\ UNCHANGED <<tclients, sock, tasks>>
       ELSE /\ CleanupClient(c, tasks)
            /\ UNCHANGED <<connCount, rm, admitted>>
    /\ UNCHANGED <<rd, inbuf, sent, nextId, names, activity, discRuns>>

(* The room-changing part of ProcessCommand for client c.                 *)
CommandRooms(s, c, ch) ==
    CASE ch.kind = "join" ->
            IF R!ClientRoom(s, c) # ch.arg /\ R!CanJoin(s, ch.arg, NoPassword)
            THEN R!Join(s, ch.arg, c) ELSE s
      [] ch.kind = "create" ->
            IF R!CanCreate(s, ch.arg)
            THEN R!Join(R!Create(s, ch.arg, c, FALSE, NoPassword), ch.arg, c)
            ELSE s
      [] ch.kind = "leave" ->
            IF R!ClientRoom(s, c) # General THEN R!Join(s, General, c) ELSE s
      [] OTHER -> s

(* HandleMessage on a non-empty chunk.  RecordMessage creates the         *)
(* activity entry (AllowMessage never refuses: no mutes here and fewer    *)
(* than 60 chunks a minute).  While the name is the placeholder a text    *)
(* chunk becomes the name.  A command goes to ProcessCommand: #exit and   *)
(* #kick call DisconnectClient, the room commands change rooms, the rest  *)
(* only reply.  Other text is stored and sent to the room (Store and      *)
(* Send are not part of this model).                                       *)
RunMessage(w) ==
    LET c == wtask[w].id
        ch == wtask[w].chunk
        targets == {t \in Client : names[t] = ch.arg}
    IN
    /\ wtask[w] # NoTask /\ wtask[w].kind = "message"
    /\ Done(w)
    /\ activity' = activity \cup {c}
    /\ names' = IF names[c] = NoName /\ ch.kind = "text"
                THEN [names EXCEPT ![c] = ch.arg] ELSE names
    /\ rm' = CommandRooms(rm, c, ch)
    /\ CASE ch.kind = "exit" -> CleanupClient(c, tasks)
         [] ch.kind = "kick" /\ targets # {} ->
               \E t \in targets : CleanupClient(t, tasks)
         [] OTHER -> UNCHANGED <<tclients, sock, tasks>>
    /\ UNCHANGED <<rd, inbuf, sent, nextId, connCount, admitted,
                   discRuns>>

\* An OnDisconnect that decrements without the positive check.
RunDisconnectNoFloor(w) ==
    LET c == wtask[w].id IN
    /\ wtask[w] # NoTask /\ wtask[w].kind = "disconnect"
    /\ Done(w)
    /\ rm' = R!Leave(rm, c)
    /\ connCount' = connCount - 1
    /\ names' = [names EXCEPT ![c] = NoName]
    /\ discRuns' = [discRuns EXCEPT ![c] = @ + 1]
    /\ UNCHANGED <<tclients, sock, rd, inbuf, sent, nextId, tasks, activity,
                   admitted>>

(* HandleDisconnect: LeaveRoom, OnDisconnect (decrements only when       *)
(* positive), erase the name, tell the old room.                          *)
RunDisconnect(w) ==
    LET c == wtask[w].id IN
    /\ wtask[w] # NoTask /\ wtask[w].kind = "disconnect"
    /\ Done(w)
    /\ rm' = R!Leave(rm, c)
    /\ connCount' = IF connCount > 0 THEN connCount - 1 ELSE connCount
    /\ names' = [names EXCEPT ![c] = NoName]
    /\ discRuns' = [discRuns EXCEPT ![c] = @ + 1]
    /\ UNCHANGED <<tclients, sock, rd, inbuf, sent, nextId, tasks, activity,
                   admitted>>

-----------------------------------------------------------------------------
Next ==
    \/ Accept
    \/ \E c \in Client :
          \/ \E ch \in Chunk : PeerSend(c, ch)
          \/ PeerClose(c)
          \/ CompleteRead(c) \/ CompleteEof(c) \/ CompleteAborted(c)
          \/ Timeout(c)
    \/ \E w \in Worker :
          Take(w) \/ RunConnect(w) \/ RunMessage(w) \/ RunDisconnect(w)

(* The server's own threads are fair; peers are not (a peer may stay       *)
(* silent forever).                                                        *)
Fairness ==
    /\ \A c \in Client :
          /\ WF_vars(CompleteRead(c)) /\ WF_vars(CompleteEof(c))
          /\ WF_vars(CompleteAborted(c)) /\ WF_vars(Timeout(c))
    /\ \A w \in Worker :
          WF_vars(Take(w) \/ RunConnect(w) \/ RunMessage(w) \/ RunDisconnect(w))

Spec == Init /\ [][Next]_vars /\ Fairness

-----------------------------------------------------------------------------
(* Nothing is in flight: no queued or running task and no completion      *)
(* waiting for an IOCP worker.                                             *)
Quiescent ==
    /\ tasks = <<>>
    /\ \A w \in Worker : wtask[w] = NoTask
    /\ \A c \in Client : rd[c] = "idle" \/ (rd[c] = "pending" /\ sock[c] = "open")

(* Once everything in flight has been handled, a client the transport has *)
(* dropped is in no room and has no name: on_disconnect ran after every   *)
(* other callback of that client (spec 4.1), so nothing re-created its    *)
(* membership or name afterwards.                                          *)
QuiescentNoGhosts ==
    Quiescent =>
        \A c \in Client \ tclients :
            rm.clientRoom[c] = NoRoom /\ names[c] = NoName

(* on_disconnect fires exactly once per client (spec 4.1, 4.6).           *)
DisconnectFiresOnce == \A c \in Client : discRuns[c] <= 1

(* AllowConnection admits at most max_total_connections clients net of   *)
(* disconnects (spec section 8): admitted clients still connected never   *)
(* outnumber the limit.                                                    *)
AdmittedWithinLimit == Cardinality(admitted \cap tclients) <= MaxTotal
=============================================================================
