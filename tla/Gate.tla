-------------------------------- MODULE Gate --------------------------------
(***************************************************************************)
(* The dispatcher's admission path (src/server.cpp) against the policy     *)
(* controller (Policy.tla): HandleConnect's AllowConnection and OnConnect, *)
(* HandleMessage's rate and mute gates and name registration, the #mute   *)
(* and #ban commands, and HandleDisconnect's OnDisconnect, run by a pool   *)
(* of workers off one FIFO queue.                                          *)
(*                                                                         *)
(* A worker's callback is split at every ConnectionManager call, since     *)
(* each of those takes and drops its own mutex.  RecordMessage and the     *)
(* IsMuted that follows it are one step: they touch different maps, so    *)
(* nothing another worker does between them changes either outcome.  The   *)
(* room, name-text and transport detail modelled in Server.tla is left     *)
(* out: a connection is open or closed, a chunk read is posted at once,    *)
(* and each DisconnectClient posts one on_disconnect.                      *)
(***************************************************************************)
EXTENDS Integers, Sequences, FiniteSets

CONSTANTS
    Worker,       \* pool worker threads
    Host,         \* peer IP addresses
    HostOf,       \* the host each client connects from
    Chunk,        \* the chunks a peer may send (see ChunkType)
    MuteArg,      \* what follows "#mute <user>": NoArg, BadArg or a number
    NoArg,        \* nothing follows the user name
    BadArg,       \* a token that is not a number
    DefaultMute,  \* the 60 seconds #mute defaults to, in ticks
    MaxChunks,    \* chunks each peer sends at most
    NoTask

CONSTANTS Client, MaxTotal, PerSecond, PerMinute, Second, Minute,
          TimeoutTicks, NoMute, Forever, Never, MaxTime

(* GetSocketAddress: "ip:port".  Every connection has its own source port, *)
(* here the client id.                                                     *)
AddrOf(c) == <<HostOf[c], c>>

Addr == {AddrOf(c) : c \in Client}

VARIABLES
    cm,        \* ConnectionManager
    now,       \* steady_clock
    conn,      \* each client's connection: "none", "open" or "closed"
    sent,      \* chunks each peer has sent
    tasks,     \* ThreadPool::tasks
    wk,        \* each worker's callback: the task and where it is in it
    named,     \* ids with an entry in g_client_names
    rec,       \* history: every timestamp RecordMessage stored, per client
    banHosts,  \* history: hosts #ban has banned an address of
    bannedIn   \* history: clients admitted from a host already banned

vars == <<cm, now, conn, sent, tasks, wk, named, rec, banHosts, bannedIn>>

P == INSTANCE Policy

ChunkType ==
    [kind : {"text"}] \cup
    [kind : {"mute"}, target : Client, arg : MuteArg] \cup
    [kind : {"ban"}, target : Client]

Task == [kind : {"connect", "disconnect"}, id : Client] \cup
        [kind : {"message"}, id : Client, chunk : Chunk]

Stage == {"idle", "conn_allow", "conn_count", "allow", "check", "process",
          "disc"}

TypeOK ==
    /\ P!PolicyType
    /\ now \in 0..MaxTime
    /\ conn \in [Client -> {"none", "open", "closed"}]
    /\ sent \in [Client -> 0..MaxChunks]
    /\ tasks \in Seq(Task)
    /\ wk \in [Worker -> [pc : Stage, task : Task \cup {NoTask}]]
    /\ named \subseteq Client
    /\ rec \in [Client -> Seq(0..MaxTime)]
    /\ banHosts \subseteq Host
    /\ bannedIn \subseteq Client

Init ==
    /\ cm = P!InitPolicy
    /\ now = 0
    /\ conn = [c \in Client |-> "none"]
    /\ sent = [c \in Client |-> 0]
    /\ tasks = <<>>
    /\ wk = [w \in Worker |-> [pc |-> "idle", task |-> NoTask]]
    /\ named = {}
    /\ rec = [c \in Client |-> <<>>]
    /\ banHosts = {}
    /\ bannedIn = {}

-----------------------------------------------------------------------------
(* Environment: the clock, and peers that connect and send.               *)

Tick ==
    /\ now < MaxTime
    /\ now' = now + 1
    /\ UNCHANGED <<cm, conn, sent, tasks, wk, named, rec, banHosts, bannedIn>>

(* HandleAccept registers the connection and posts on_connect.            *)
Connect(c) ==
    /\ conn[c] = "none"
    /\ conn' = [conn EXCEPT ![c] = "open"]
    /\ tasks' = Append(tasks, [kind |-> "connect", id |-> c])
    /\ UNCHANGED <<cm, now, sent, wk, named, rec, banHosts, bannedIn>>

(* A chunk from an open connection is posted as on_message.               *)
Send(c, ch) ==
    /\ conn[c] = "open"
    /\ sent[c] < MaxChunks
    /\ sent' = [sent EXCEPT ![c] = @ + 1]
    /\ tasks' = Append(tasks, [kind |-> "message", id |-> c, chunk |-> ch])
    /\ UNCHANGED <<cm, now, conn, wk, named, rec, banHosts, bannedIn>>

(* DisconnectClient: closes an open connection and posts on_disconnect.   *)
DisconnectClient(c, q) ==
    IF conn[c] = "open"
    THEN /\ conn' = [conn EXCEPT ![c] = "closed"]
         /\ tasks' = Append(q, [kind |-> "disconnect", id |-> c])
    ELSE UNCHANGED <<conn, tasks>>

-----------------------------------------------------------------------------
(* Workers                                                                 *)

Entry(t) ==
    CASE t.kind = "connect" -> "conn_allow"
      [] t.kind = "message" -> "allow"
      [] t.kind = "disconnect" -> "disc"

Take(w) ==
    /\ wk[w].pc = "idle"
    /\ tasks # <<>>
    /\ wk' = [wk EXCEPT ![w] = [pc |-> Entry(Head(tasks)), task |-> Head(tasks)]]
    /\ tasks' = Tail(tasks)
    /\ UNCHANGED <<cm, now, conn, sent, named, rec, banHosts, bannedIn>>

Goto(w, pc) == wk' = [wk EXCEPT ![w].pc = pc]

Finish(w) == wk' = [wk EXCEPT ![w] = [pc |-> "idle", task |-> NoTask]]

(* HandleConnect, first half: AllowConnection(GetSocketAddress(socket)); *)
(* on refusal DisconnectClient and return.                                *)
ConnAllow(w) ==
    LET c == wk[w].task.id
        ok == P!AllowConnection(cm, AddrOf(c), now)
    IN
    /\ wk[w].pc = "conn_allow"
    /\ cm' = P!AllowConnectionNext(cm, AddrOf(c), now)
    /\ IF ok
       THEN /\ Goto(w, "conn_count")
            /\ bannedIn' = IF HostOf[c] \in banHosts THEN bannedIn \cup {c}
                           ELSE bannedIn
            /\ UNCHANGED <<conn, tasks>>
       ELSE /\ Finish(w)
            /\ DisconnectClient(c, tasks)
            /\ UNCHANGED bannedIn
    /\ UNCHANGED <<now, sent, named, rec, banHosts>>

(* HandleConnect, second half: OnConnect (JoinRoom and the welcome are    *)
(* in Server.tla).                                                         *)
ConnCount(w) ==
    /\ wk[w].pc = "conn_count"
    /\ cm' = P!OnConnect(cm)
    /\ Finish(w)
    /\ UNCHANGED <<now, conn, sent, tasks, named, rec, banHosts, bannedIn>>

(* HandleMessage: AllowMessage; on refusal the "slow down" reply.         *)
MsgAllow(w) ==
    LET c == wk[w].task.id IN
    /\ wk[w].pc = "allow"
    /\ cm' = P!AllowMessageNext(cm, c, now)
    /\ IF P!AllowMessage(cm, c, now) THEN Goto(w, "check") ELSE Finish(w)
    /\ UNCHANGED <<now, conn, sent, tasks, named, rec, banHosts, bannedIn>>

(* RecordMessage, then IsMuted; when muted the "You are muted" reply.     *)
MsgCheck(w) ==
    LET c == wk[w].task.id
        s == P!RecordMessage(cm, c, now)
    IN
    /\ wk[w].pc = "check"
    /\ cm' = P!IsMutedNext(s, c, now)
    /\ rec' = [rec EXCEPT ![c] = Append(@, now)]
    /\ IF P!IsMuted(s, c, now) THEN Finish(w) ELSE Goto(w, "process")
    /\ UNCHANGED <<now, conn, sent, tasks, named, banHosts, bannedIn>>

(* iss >> target >> duration: a missing duration keeps the default, one   *)
(* that does not parse is stored as 0, which Mute takes as permanent.     *)
ParseDuration(arg) ==
    CASE arg = NoArg -> DefaultMute
      [] arg = BadArg -> 0
      [] OTHER -> arg

(* The rest of HandleMessage.  While the client is anonymous a text chunk *)
(* is its name; a command is run either way.  #mute and #ban look the     *)
(* target up in g_client_names; #ban also needs GetClient to find it,     *)
(* bans its address and disconnects it.  Other text is broadcast.         *)
MsgProcess(w) ==
    LET c == wk[w].task.id
        ch == wk[w].task.chunk
        t == IF ch.kind = "text" THEN c ELSE ch.target
    IN
    /\ wk[w].pc = "process"
    /\ Finish(w)
    /\ CASE ch.kind = "text" ->
              /\ named' = named \cup {c}
              /\ UNCHANGED <<cm, conn, tasks, banHosts>>
         [] ch.kind = "mute" /\ t \in named ->
              /\ cm' = P!Mute(cm, t, ParseDuration(ch.arg), now)
              /\ UNCHANGED <<named, conn, tasks, banHosts>>
         [] ch.kind = "ban" /\ t \in named /\ conn[t] = "open" ->
              /\ cm' = P!Ban(cm, AddrOf(t))
              /\ banHosts' = banHosts \cup {HostOf[t]}
              /\ DisconnectClient(t, tasks)
              /\ UNCHANGED <<named>>
         [] OTHER -> UNCHANGED <<cm, named, conn, tasks, banHosts>>
    /\ UNCHANGED <<now, sent, rec, bannedIn>>

(* HandleDisconnect: OnDisconnect and the name erased.                    *)
Disc(w) ==
    /\ wk[w].pc = "disc"
    /\ cm' = P!OnDisconnect(cm)
    /\ named' = named \ {wk[w].task.id}
    /\ Finish(w)
    /\ UNCHANGED <<now, conn, sent, tasks, rec, banHosts, bannedIn>>

Next ==
    \/ Tick
    \/ \E c \in Client : Connect(c) \/ \E ch \in Chunk : Send(c, ch)
    \/ \E w \in Worker :
          \/ Take(w) \/ ConnAllow(w) \/ ConnCount(w)
          \/ MsgAllow(w) \/ MsgCheck(w) \/ MsgProcess(w) \/ Disc(w)

Spec == Init /\ [][Next]_vars

-----------------------------------------------------------------------------
\* The timestamps in rec[c] within the message window that ends at t.
InWindow(c, t) == SelectSeq(rec[c], LAMBDA x : t - Minute <= x /\ x <= t)

(* Message rate (spec 4.4): no client gets more than max_messages_per_minute *)
(* messages past AllowMessage and recorded within any one-minute window,   *)
(* however its chunks are spread over the pool's workers and the clock.    *)
RateLimitHolds ==
    \A c \in Client, t \in 0..now : Len(InWindow(c, t)) <= PerMinute

(* "#ban <user>" bans the target's IP (spec 4.6), and AllowConnection      *)
(* rejects a banned IP: no connection from a host #ban has banned is       *)
(* admitted afterwards.                                                    *)
BannedHostStaysOut == bannedIn = {}
=============================================================================
