------------------------------ MODULE Delivery ------------------------------
(***************************************************************************)
(* The outbound path of the chat server: what each client is sent, by     *)
(* whom and in what order.  The three callbacks of src/server.cpp run on   *)
(* pool workers and reach a socket only through SendToClient, which calls *)
(* IOCPServer::Send; Send checks the client table under clients_mutex and *)
(* PostWrite issues the WSASend.  Sends to one socket are posted in order, *)
(* so a socket's bytes are a sequence: inbox[c] is what client c is sent. *)
(*                                                                         *)
(* A callback is split wherever it takes and drops a lock: every          *)
(* ChatRoomManager call, every g_client_names access and every Send is     *)
(* one step, and a fan-out (a loop over GetRoomMembers) is one step per    *)
(* recipient, in the ascending order of std::set.  Rate and mute gates     *)
(* (Gate.tla) and the message store (MessageStore.tla) are left out: every *)
(* chunk is allowed, and Store, which sends nothing, is not a step.  The   *)
(* read pipeline is Server.tla's; here a peer's chunk posts on_message at  *)
(* once.  A line is the record of what it tells, not its text.             *)
(***************************************************************************)
EXTENDS Naturals, Sequences, FiniteSets

CONSTANTS
    Worker,      \* pool worker threads
    Name,        \* display names a peer may register
    NoName,      \* g_client_names has no entry: the "User#<id>" placeholder
    Chunk,       \* the chunks a peer may send (records, see ChunkType)
    NoTask,
    MaxChunks,   \* chunks all peers send together, at most
    MaxTotal     \* ConnectionManager::Config::max_total_connections

CONSTANTS Client, RoomName, General, Admin, Password, NoPassword,
          Topic, WelcomeTopic, NoTopic, NoRoom

ASSUME Client = 1..Cardinality(Client)

VARIABLES
    rm,          \* ChatRoomManager
    tclients,    \* ids in IOCPServer::clients
    nextId,      \* IOCPServer::next_client_id
    sent,        \* chunks all peers have sent
    tasks,       \* ThreadPool::tasks
    wk,          \* each pool worker: its task, where it is, its locals
    names,       \* g_client_names
    connCount,   \* ConnectionManager::current_connections
    inbox        \* the lines written to each client's socket, in order

vars == <<rm, tclients, nextId, sent, tasks, wk, names, connCount, inbox>>

R == INSTANCE ChatRooms

ChunkType ==
    [kind : {"text", "join", "create", "leave", "whisper", "kick", "exit",
             "other"},
     arg : Name \cup RoomName \cup {NoName}]

Task == [kind : {"connect", "message", "disconnect"}, id : Client,
         chunk : Chunk \cup {NoTask}]

ConnectTask(c) == [kind |-> "connect", id |-> c, chunk |-> NoTask]
MessageTask(c, ch) == [kind |-> "message", id |-> c, chunk |-> ch]
DisconnectTask(c) == [kind |-> "disconnect", id |-> c, chunk |-> NoTask]

(* Lines: the welcome, a reply to the sender's own command, a whisper, the *)
(* kick notice, and the room lines (chat, "<name> has joined #r" and       *)
(* "<name> joined #r", "<name> left #r", "<name> has left the chat"),      *)
(* which name their subject and the room the dispatcher addressed.        *)
RoomKind == {"chat", "joined", "left", "bye"}

Line == [kind : RoomKind \cup {"welcome", "reply", "whisper", "kicked"},
         who : Client, room : RoomName \cup {NoRoom}]

Say(k, c, r) == [kind |-> k, who |-> c, room |-> r]

Idle == [pc |-> "idle", task |-> NoTask, room |-> NoRoom, old |-> NoRoom,
         target |-> 0, todo |-> {}, line |-> NoTask, next |-> "idle"]

TypeOK ==
    /\ R!RoomsType
    /\ tclients \in SUBSET Client
    /\ nextId \in 1..Cardinality(Client) + 1
    /\ sent \in 0..MaxChunks
    /\ tasks \in Seq(Task)
    /\ \A w \in Worker : wk[w].task \in Task \cup {NoTask}
    /\ names \in [Client -> Name \cup {NoName}]
    /\ connCount \in 0..MaxTotal
    /\ inbox \in [Client -> Seq(Line)]

Init ==
    /\ rm = R!InitRooms
    /\ tclients = {}
    /\ nextId = 1
    /\ sent = 0
    /\ tasks = <<>>
    /\ wk = [w \in Worker |-> Idle]
    /\ names = [c \in Client |-> NoName]
    /\ connCount = 0
    /\ inbox = [c \in Client |-> <<>>]

-----------------------------------------------------------------------------
(* Transport                                                              *)

(* CleanupClient: erase the id from the table (closing its socket) and    *)
(* post on_disconnect, whether or not the id was still there.             *)
CleanupClient(c) ==
    /\ tclients' = tclients \ {c}
    /\ tasks' = Append(tasks, DisconnectTask(c))

(* SendToClient -> Send -> PostWrite: a line to an id still in the table  *)
(* is written to its socket; Send to an erased id returns false.           *)
SendTo(m, l) ==
    inbox' = IF m \in tclients THEN [inbox EXCEPT ![m] = Append(@, l)]
             ELSE inbox

(* HandleAccept: register the next id and post on_connect.               *)
Accept ==
    /\ nextId \in Client
    /\ tclients' = tclients \cup {nextId}
    /\ tasks' = Append(tasks, ConnectTask(nextId))
    /\ nextId' = nextId + 1
    /\ UNCHANGED <<rm, sent, wk, names, connCount, inbox>>

(* HandleRead: a chunk of a connected peer is posted as on_message.       *)
PeerSend(c, ch) ==
    /\ c \in tclients /\ sent < MaxChunks
    /\ sent' = sent + 1
    /\ tasks' = Append(tasks, MessageTask(c, ch))
    /\ UNCHANGED <<rm, tclients, nextId, wk, names, connCount, inbox>>

(* The peer closes: the zero-byte completion runs CleanupClient.          *)
PeerClose(c) ==
    /\ c \in tclients
    /\ CleanupClient(c)
    /\ UNCHANGED <<rm, nextId, sent, wk, names, connCount, inbox>>

-----------------------------------------------------------------------------
(* Thread pool                                                            *)

(* A worker pops the front of the queue.                                  *)
Take(w) ==
    /\ wk[w].pc = "idle"
    /\ tasks # <<>>
    /\ wk' = [wk EXCEPT ![w] = [Idle EXCEPT !.pc = "start", !.task = Head(tasks)]]
    /\ tasks' = Tail(tasks)
    /\ UNCHANGED <<rm, tclients, nextId, sent, names, connCount, inbox>>

-----------------------------------------------------------------------------
(* Steps of a callback.  Goto moves worker w on; Fan starts a loop over   *)
(* recipients (straight to next when there are none); Finish ends the     *)
(* callback.                                                               *)
Goto(w, pc) == wk' = [wk EXCEPT ![w].pc = pc]

Fan(w, todo, l, next) ==
    wk' = [wk EXCEPT ![w] = IF todo = {} /\ next = "idle" THEN Idle
                           ELSE [@ EXCEPT !.pc = IF todo = {} THEN next ELSE "fan",
                                          !.todo = todo, !.line = l, !.next = next]]

Finish(w) == wk' = [wk EXCEPT ![w] = Idle]

At(w, pc) == wk[w].pc = pc

Me(w) == wk[w].task.id

\* GetRoomMembers of the current manager.
Members(r) == rm.room[r].members

(* One SendToClient of a fan-out loop: the smallest id left.              *)
FanStep(w) ==
    LET todo == wk[w].todo
        m == CHOOSE x \in todo : \A y \in todo : x <= y
    IN /\ At(w, "fan")
       /\ SendTo(m, wk[w].line)
       /\ wk' = [wk EXCEPT ![w] =
                    IF todo = {m} /\ @.next = "idle" THEN Idle
                    ELSE [@ EXCEPT !.todo = todo \ {m},
                                   !.pc = IF todo = {m} THEN wk[w].next ELSE "fan"]]
       /\ UNCHANGED <<rm, tclients, nextId, sent, tasks, names, connCount>>

(* A step that only sends one line and moves on.                          *)
SendStep(w, pc, m, l, next) ==
    /\ At(w, pc)
    /\ SendTo(m, l)
    /\ IF next = "idle" THEN Finish(w) ELSE Goto(w, next)
    /\ UNCHANGED <<rm, tclients, nextId, sent, tasks, names, connCount>>

Reply(c) == Say("reply", c, NoRoom)

Arg(w) == wk[w].task.chunk.arg

Set(w, f, v, pc) == wk' = [wk EXCEPT ![w] = [@ EXCEPT !.pc = pc, ![f] = v]]

-----------------------------------------------------------------------------
(* HandleConnect (server.cpp:218-238)                                     *)

(* AllowConnection, and OnConnect when it passes (their split is Gate's   *)
(* subject); a refused client is dropped with DisconnectClient.           *)
ConnAllow(w) ==
    /\ At(w, "start") /\ wk[w].task.kind = "connect"
    /\ IF connCount < MaxTotal
       THEN /\ connCount' = connCount + 1
            /\ Goto(w, "c_join")
            /\ UNCHANGED <<tclients, tasks>>
       ELSE /\ CleanupClient(Me(w))
            /\ Finish(w)
            /\ UNCHANGED connCount
    /\ UNCHANGED <<rm, nextId, sent, names, inbox>>

(* JoinRoom("general"), then the welcome.                                  *)
ConnJoin(w) ==
    /\ At(w, "c_join")
    /\ rm' = R!Join(rm, General, Me(w))
    /\ Goto(w, "c_welcome")
    /\ UNCHANGED <<tclients, nextId, sent, tasks, names, connCount, inbox>>

ConnWelcome(w) == SendStep(w, "c_welcome", Me(w), Say("welcome", Me(w), NoRoom), "idle")

-----------------------------------------------------------------------------
(* HandleMessage (server.cpp:270-335)                                     *)

(* The first step of each command of ProcessCommand.                      *)
FirstPc == [join |-> "j_old", create |-> "cr_create", leave |-> "l_cur",
            whisper |-> "w_find", kick |-> "k_find", exit |-> "x_drop",
            other |-> "o_reply"]

(* GetClientName: while the name is the placeholder a chunk not starting  *)
(* with '#' is the name; a command goes to ProcessCommand; other text is  *)
(* broadcast.                                                              *)
MsgStart(w) ==
    LET ch == wk[w].task.chunk IN
    /\ At(w, "start") /\ wk[w].task.kind = "message"
    /\ Goto(w, IF ch.kind = "text"
               THEN IF names[Me(w)] = NoName THEN "r_set" ELSE "b_room"
               ELSE FirstPc[ch.kind])
    /\ UNCHANGED <<rm, tclients, nextId, sent, tasks, names, connCount, inbox>>

(* Registration: SetClientName, GetClientRoom, then "<name> has joined    *)
(* #room" to the other members.                                            *)
RegSet(w) ==
    /\ At(w, "r_set")
    /\ names' = [names EXCEPT ![Me(w)] = Arg(w)]
    /\ Goto(w, "r_room")
    /\ UNCHANGED <<rm, tclients, nextId, sent, tasks, connCount, inbox>>

(* A step that reads the client's room (GetClientRoom) into a local.      *)
ReadRoom(w, pc, next) ==
    /\ At(w, pc)
    /\ Set(w, "room", R!ClientRoom(rm, Me(w)), next)
    /\ UNCHANGED <<rm, tclients, nextId, sent, tasks, names, connCount, inbox>>

(* A step that reads GetRoomMembers(room) and starts the fan-out of l.    *)
FanOut(w, pc, todo, l, next) ==
    /\ At(w, pc)
    /\ Fan(w, todo, l, next)
    /\ UNCHANGED <<rm, tclients, nextId, sent, tasks, names, connCount, inbox>>

RegRoom(w) == ReadRoom(w, "r_room", "r_members")

RegMembers(w) ==
    FanOut(w, "r_members", Members(wk[w].room) \ {Me(w)},
           Say("joined", Me(w), wk[w].room), "idle")

(* BroadcastToRoom (server.cpp:571-591): GetClientName and GetClientRoom, *)
(* Store, then the line to every other member.                             *)
BcRoom(w) == ReadRoom(w, "b_room", "b_members")

BcMembers(w) ==
    FanOut(w, "b_members", Members(wk[w].room) \ {Me(w)},
           Say("chat", Me(w), wk[w].room), "idle")

(* ProcessCommand (server.cpp:337-569).  A step that only reads and      *)
(* decides a reply to the sender is merged with that reply.               *)

(* A step that replies to the sender and ends the callback.               *)
ReplyStep(w, pc) == SendStep(w, pc, Me(w), Reply(Me(w)), "idle")

(* #join: GetClientRoom into old_room; "already in" when it is the room.  *)
JoinOld(w) ==
    /\ At(w, "j_old")
    /\ LET old == R!ClientRoom(rm, Me(w)) IN
       IF old = Arg(w)
       THEN SendTo(Me(w), Reply(Me(w))) /\ Finish(w)
       ELSE Set(w, "old", old, "j_join") /\ UNCHANGED inbox
    /\ UNCHANGED <<rm, tclients, nextId, sent, tasks, names, connCount>>

(* JoinRoom; on failure "Failed to join room".                             *)
JoinRoomStep(w) ==
    /\ At(w, "j_join")
    /\ IF R!CanJoin(rm, Arg(w), NoPassword)
       THEN rm' = R!Join(rm, Arg(w), Me(w)) /\ Goto(w, "j_left") /\ UNCHANGED inbox
       ELSE SendTo(Me(w), Reply(Me(w))) /\ Finish(w) /\ UNCHANGED rm
    /\ UNCHANGED <<tclients, nextId, sent, tasks, names, connCount>>

(* "<name> left #old" to every member of old_room, then "<name> joined     *)
(* #room" to the other members of the room, then "Joined #room".           *)
JoinLeft(w) ==
    FanOut(w, "j_left", Members(wk[w].old), Say("left", Me(w), wk[w].old), "j_new")

JoinNew(w) ==
    FanOut(w, "j_new", Members(Arg(w)) \ {Me(w)}, Say("joined", Me(w), Arg(w)),
           "j_confirm")

JoinConfirm(w) == ReplyStep(w, "j_confirm")

(* #create: CreateRoom (public, owned by the sender), then JoinRoom, then  *)
(* "Created and joined"; on failure "Failed to create room".              *)
CreateStep(w) ==
    /\ At(w, "cr_create")
    /\ IF R!CanCreate(rm, Arg(w))
       THEN /\ rm' = R!Create(rm, Arg(w), Me(w), FALSE, NoPassword)
            /\ Goto(w, "cr_join") /\ UNCHANGED inbox
       ELSE SendTo(Me(w), Reply(Me(w))) /\ Finish(w) /\ UNCHANGED rm
    /\ UNCHANGED <<tclients, nextId, sent, tasks, names, connCount>>

(* A JoinRoom step whose result the code ignores.                         *)
JoinStep(w, pc, r, next) ==
    /\ At(w, pc)
    /\ rm' = IF R!CanJoin(rm, r, NoPassword) THEN R!Join(rm, r, Me(w)) ELSE rm
    /\ Goto(w, next)
    /\ UNCHANGED <<tclients, nextId, sent, tasks, names, connCount, inbox>>

CreateJoin(w) == JoinStep(w, "cr_join", Arg(w), "cr_confirm")

CreateConfirm(w) == ReplyStep(w, "cr_confirm")

(* #leave: GetClientRoom; outside "general" JoinRoom("general") and "You  *)
(* left", else "already in #general".  No room is told.                    *)
LeaveCur(w) ==
    /\ At(w, "l_cur")
    /\ IF R!ClientRoom(rm, Me(w)) # General
       THEN Goto(w, "l_join") /\ UNCHANGED inbox
       ELSE SendTo(Me(w), Reply(Me(w))) /\ Finish(w)
    /\ UNCHANGED <<rm, tclients, nextId, sent, tasks, names, connCount>>

LeaveJoin(w) == JoinStep(w, "l_join", General, "l_confirm")

LeaveConfirm(w) == ReplyStep(w, "l_confirm")

(* The lookup of #whisper, #kick: the first id whose name is the         *)
(* argument in the iteration of g_client_names, an unordered_map, so any  *)
(* of them; "User not found" when there is none.                           *)
Find(w, pc, next) ==
    LET found == {t \in Client : names[t] = Arg(w)} IN
    /\ At(w, pc)
    /\ IF found = {}
       THEN SendTo(Me(w), Reply(Me(w))) /\ Finish(w)
       ELSE /\ \E t \in found : Set(w, "target", t, next)
            /\ UNCHANGED inbox
    /\ UNCHANGED <<rm, tclients, nextId, sent, tasks, names, connCount>>

(* #whisper: the whisper to the target, then the echo to the sender.       *)
WhisperFind(w) == Find(w, "w_find", "w_to")

WhisperTo(w) == SendStep(w, "w_to", wk[w].target, Say("whisper", Me(w), NoRoom), "w_back")

WhisperBack(w) == ReplyStep(w, "w_back")

(* #kick: "You have been kicked" to the target, DisconnectClient(target),  *)
(* then "Kicked" to the sender.                                            *)
KickFind(w) == Find(w, "k_find", "k_notify")

KickNotify(w) == SendStep(w, "k_notify", wk[w].target, Say("kicked", Me(w), NoRoom), "k_drop")

KickDrop(w) ==
    /\ At(w, "k_drop")
    /\ CleanupClient(wk[w].target)
    /\ Goto(w, "k_confirm")
    /\ UNCHANGED <<rm, nextId, sent, names, connCount, inbox>>

KickConfirm(w) == ReplyStep(w, "k_confirm")

(* #exit: DisconnectClient(self).                                          *)
ExitDrop(w) ==
    /\ At(w, "x_drop")
    /\ CleanupClient(Me(w))
    /\ Finish(w)
    /\ UNCHANGED <<rm, nextId, sent, names, connCount, inbox>>

(* #help, #rooms, #online, #history and unknown commands read state and   *)
(* send one reply.                                                         *)
OtherReply(w) == ReplyStep(w, "o_reply")

-----------------------------------------------------------------------------
(* HandleDisconnect (server.cpp:240-268)                                  *)

(* GetClientName and GetClientRoom, which answers "general" for an id     *)
(* with no entry, so the room is never the empty string the code tests.   *)
DiscRoom(w) ==
    /\ At(w, "start") /\ wk[w].task.kind = "disconnect"
    /\ ReadRoom(w, "start", "d_leave")

DiscLeave(w) ==
    /\ At(w, "d_leave")
    /\ rm' = R!Leave(rm, Me(w))
    /\ Goto(w, "d_count")
    /\ UNCHANGED <<tclients, nextId, sent, tasks, names, connCount, inbox>>

(* OnDisconnect: decrements only while positive.                           *)
DiscCount(w) ==
    /\ At(w, "d_count")
    /\ connCount' = IF connCount > 0 THEN connCount - 1 ELSE 0
    /\ Goto(w, "d_erase")
    /\ UNCHANGED <<rm, tclients, nextId, sent, tasks, names, inbox>>

DiscErase(w) ==
    /\ At(w, "d_erase")
    /\ names' = [names EXCEPT ![Me(w)] = NoName]
    /\ Goto(w, "d_bye")
    /\ UNCHANGED <<rm, tclients, nextId, sent, tasks, connCount, inbox>>

(* "<name> has left the chat" to every member of the room read first.     *)
DiscBye(w) ==
    FanOut(w, "d_bye", Members(wk[w].room), Say("bye", Me(w), wk[w].room), "idle")

-----------------------------------------------------------------------------
Step(w) ==
    \/ Take(w) \/ FanStep(w)
    \/ ConnAllow(w) \/ ConnJoin(w) \/ ConnWelcome(w)
    \/ MsgStart(w) \/ RegSet(w) \/ RegRoom(w) \/ RegMembers(w)
    \/ BcRoom(w) \/ BcMembers(w)
    \/ JoinOld(w) \/ JoinRoomStep(w) \/ JoinLeft(w) \/ JoinNew(w) \/ JoinConfirm(w)
    \/ CreateStep(w) \/ CreateJoin(w) \/ CreateConfirm(w)
    \/ LeaveCur(w) \/ LeaveJoin(w) \/ LeaveConfirm(w)
    \/ WhisperFind(w) \/ WhisperTo(w) \/ WhisperBack(w)
    \/ KickFind(w) \/ KickNotify(w) \/ KickDrop(w) \/ KickConfirm(w)
    \/ ExitDrop(w) \/ OtherReply(w)
    \/ DiscRoom(w) \/ DiscLeave(w) \/ DiscCount(w) \/ DiscErase(w) \/ DiscBye(w)

Next ==
    \/ Accept
    \/ \E c \in Client : PeerClose(c) \/ \E ch \in Chunk : PeerSend(c, ch)
    \/ \E w \in Worker : Step(w)

Spec == Init /\ [][Next]_vars

-----------------------------------------------------------------------------
(* The welcome line sent on connect precedes any broadcast the client    *)
(* receives (spec section 5): every room line (chat, "has joined", "left", *)
(* "has left the chat") in a client's inbox comes after its welcome.      *)
(* HandleConnect joins "general" (ConnJoin) before it sends the welcome   *)
(* (ConnWelcome), and another worker's fan-out may read the members in    *)
(* between.                                                                *)
WelcomeFirst ==
    \A c \in Client : \A i \in 1..Len(inbox[c]) :
        inbox[c][i].kind \in RoomKind =>
            \E j \in 1..i - 1 : inbox[c][j].kind = "welcome"

=============================================================================
