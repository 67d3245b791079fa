# TLA+ models of the IOCP chat server

These modules model the multi-threaded, room-based TCP chat server in `src/`
and check it with TLC. Every action is translated from the C++ source.
`PROJECT.json` maps each definition to the lines it models, lists the runs,
mutants and findings, and records the hazards of the code.

## 1. The system

| Part | Source | State | Operations |
|---|---|---|---|
| IOCP transport | `iocp_server.cpp/.h` | `clients`, `socket_to_id`, `next_client_id`, one outstanding read per client | accept thread (`AcceptConnections`, `HandleAccept`); IOCP workers (`IOCPWorkerThread`: data, zero-byte and error completions); `HandleRead`, `PostRead`, `PostWrite`, `CleanupClient`, `DisconnectClient`, `Send`, `Stop` |
| Thread pool | `thread_pool.cpp/.h` | FIFO `tasks`, `stop` | `enqueue`, worker loop (take front, run), `shutdown` |
| Dispatcher | `server.cpp` | `g_client_names` | `HandleConnect`, `HandleMessage` (trim, rate gate, `RecordMessage`, mute gate, name registration, `ProcessCommand` or `BroadcastToRoom`), `HandleDisconnect`, the 1 Hz idle sweep in `main`, `ConsoleHandler` |
| Room manager | `chat_room.cpp/.h` | `rooms` (members, owner, private, password, topic), `client_rooms` | `CreateRoom`, `DeleteRoom`, `JoinRoom`, `LeaveRoom`, `SetTopic`, read-only queries |
| Connection manager | `connection_manager.cpp/.h` | `current_connections`, `banned_ips`, `connection_timestamps`, `client_messages`, `last_activity`, `muted_until` | `AllowConnection`, `OnConnect`/`OnDisconnect`, `AllowMessage`, `RecordMessage`, `CheckTimeouts`, `Ban`, `Mute`, `IsMuted` |
| Message store | `message_store.cpp/.h` | `room_messages`, log file, `current_file_size` | `Store`, `GetRecent`, `GetBySender`, `Search`, `GetTotalCount`, `Clear`, `WriteToFile`, `RotateLogFile`, `OpenLogFile` |
| Utilities | `sockutil.*`, `win32_compat.h` | none | Winsock and thread wrappers |
| Client | `client.cpp` | `g_socket`, `g_running`, the socket, stdin | `main()` (connect, name, `SendMessages`, cleanup, join), the receive thread `ReceiveMessages`, the Ctrl-C `ConsoleHandler`; a separate program talking to the server over one TCP stream |

How the parts interact:

- The transport posts every callback (`on_connect`, `on_message`,
  `on_disconnect`) to the pool as an independent task.
- Pool workers run the dispatcher callbacks.
- The callbacks call the room manager, the connection manager and the message
  store. Each of those takes its own mutex per call, so every call is atomic,
  but a callback made of several calls is not.
- `DisconnectClient` closes the socket. The read still outstanding on it then
  completes with an error on an IOCP worker, and that worker runs
  `CleanupClient` again.

What makes this system hard:

- The callbacks of one client can be reordered across pool workers.
- The disconnect callback can fire twice.
- Connection accounting is split across two steps: the `AllowConnection`
  check and the later `OnConnect`.
- A check and the use of what it read are separate steps: the `#join` room
  notice, and the rate-limit check followed by `RecordMessage`.
- Log rotation.
- Shutdown ordering.
- On the client, three threads of control (main, the receive thread, the
  console handler) share `g_running` and `g_socket` without a lock, and
  TCP keeps the order of the client's sends but not their boundaries.

## 2. Modules

| Module | Models | State ↔ code |
|---|---|---|
| `ChatRooms` | room manager | `rm.names` = keys of `rooms`; `rm.room[r]` = `Room`; `rm.clientRoom` = `client_rooms` (`NoRoom` = no entry). Each method is a pure operator on `rm` (`Create`, `Delete`, `Join`, `Leave`), so `Server` can chain calls as `ProcessCommand` does. |
| `AbstractRooms` | what the room manager promises | the set of rooms and each client's single location; `General` is never closed, and a closed room's occupants land in `General`. |
| `Server` | transport, pool and dispatcher | `tclients` = `clients`; `sock`/`rd` = socket and outstanding read; `tasks` = pool queue; `wtask` = task a worker runs; `names` = `g_client_names`; `activity` = ids with a `last_activity` entry; `connCount` = `current_connections`. Composes `ChatRooms` via `R == INSTANCE ChatRooms`. |
| `MessageStore` | message store | `cache` = `room_messages`; `log` = open handle, its day and `current_file_size`; `files` = bytes in each day's file; `today` = local date. |
| `Policy` | connection manager | one record `cm`: `connTs` = `connection_timestamps`, `cur` = `current_connections`, `msgTs` = `client_messages`, `banned` = `banned_ips`, `muted` = `muted_clients` (`NoMute` = no entry, `Forever` = `time_point::max()`), `active` = `last_activity`. Each method is a pair of pure operators: its result and the manager it leaves, at clock reading `now`. `DropOlder` is the lazy expiry loop (RECURSIVE). |
| `Gate` | the callbacks' calls into the connection manager | composes `Policy` via `P == INSTANCE Policy`. `conn` = the transport's view of a connection; `tasks` = pool queue; `wk[w]` = where worker `w` is inside its callback; `named` = clients with a name; `rec` = timestamps actually recorded (history); `banHosts`, `bannedIn`, `muteArg` = history for the ban and mute properties. Addresses are `<<host, client>>`, as `GetSocketAddress` returns `ip:port`. |
| `Shutdown` | shutdown | `gRun` = `g_running`, `gptr` = `g_server` non-null, `alive` = objects not yet destroyed, `running`/`listening`/`portOpen` = the IOCPServer's flags and handles, `io`, `acc`, `pw` = the IOCP workers, the accept thread and the pool workers, `stp[k]` = where caller `k` (handler or destructor) is inside `Stop`, `mainPc`, `hPc` = `main()` and the console handler. |
| `Delivery` | the callbacks' fan-out to the peers | composes `ChatRooms` (`R == INSTANCE ChatRooms`). `tclients`/`nextId` = the transport's `clients`/`next_client_id`; `tasks` = pool queue; `wk[w]` = what pool worker `w` is doing: its task, the statement it is at (`pc`), and the callback's locals (`room`, `old_room`, `target`, the recipients still to send to); `names` = `g_client_names`; `connCount` = `current_connections`; `inbox[c]` = the lines written to client `c`'s socket, in order. |
| `Client` | the console client | `gRunning`/`gSocket` = `g_running`/`g_socket`; `sock` = the client socket's state; `stdin`, `typed`, `input` = console input and the line just read; `mainPc`, `rcvPc`, `hPc` = where `main()` (with `SendMessages`), the receive thread and the console handler are; `joinable` = the `w32::Thread` has a handle; `wire` = sends not yet read by the server; `srv` = the server end; `replies` = server lines not yet received; `notice` = "Disconnected from server." was printed. |
| `MC*` | model instances | `MCServer`, `MCGate`, `MCDelivery` define the chunk sets peers may send. |

### Correspondence of actions

- **Transport.**
  - `Accept` is `AcceptConnections`/`HandleAccept`.
  - `CompleteRead` is `HandleRead` and then `PostRead`. When the socket has
    been closed meanwhile, `WSARecv` fails and `CleanupClient` runs.
  - `CompleteEof` is the zero-byte completion.
  - `CompleteAborted` is the error completion of a read cancelled by
    `closesocket`.
  - `Timeout` is the idle sweep calling `DisconnectClient`.
  - `CleanupClient(c, q)` always appends an `on_disconnect` task, exactly as
    the code does.
  - `PeerSend`/`PeerClose` are the environment.
- **Pool.** `Take(w)` pops the queue's head. `RunConnect`, `RunMessage` and
  `RunDisconnect` each run one whole callback as one step.
- **Connection manager (`Policy`).** One action per method, any argument,
  plus `Tick`. `Call(s)` sets the manager to a method's result.
- **Gate.** A callback is split at each `ConnectionManager` call, because
  each call takes its own mutex and releases it before the next:
  `ConnAllow` (`AllowConnection`, and `DisconnectClient` on refusal) then
  `ConnCount` (`OnConnect`); `MsgAllow` (`AllowMessage`, the "slow down"
  reply) then `MsgCheck` (`RecordMessage`, then `IsMuted` and its reply) then
  `MsgProcess` (name registration, `#mute`, `#ban`); `Disc`
  (`OnDisconnect`). `ParseDuration` is `iss >> target >> duration`.
- **Shutdown.** `Signal`/`HandlerPtr`/`HandlerRet` are `ConsoleHandler`;
  `StopCheck` … `StopClosePort` are the statements of `Stop`, one action per
  caller; `MainLoopExit`, `MainResetServer` (pointer nulled, `~IOCPServer`
  enters `Stop`), `MainFreeServer`, `MainResetRest` and the three
  `PoolShutdown*` steps are `main()`'s cleanup in order; `IoEvent`/`IoExit`
  are the IOCP worker loop; `AccGot`/`AccHandle`/`AccExit` the detached
  accept thread; `PoolRun`/`PoolIdle`/`PoolExit` the pool worker loop.
- **Delivery.** Each callback is cut at every call that takes a lock and
  at every `SendToClient`, because another worker can run between them:
  - `HandleConnect` is `ConnAllow` (`AllowConnection`; refusal runs
    `DisconnectClient`), `ConnJoin` (`JoinRoom(general)`), `ConnWelcome`.
  - `HandleMessage` is `MsgStart` (`OnConnect` of the first chunk, name
    registration or the command dispatch), then `ReadRoom` and `FanOut`
    for a chat line, or the statements of the `ProcessCommand` branch:
    `JoinOld`/`JoinRoomStep`/`JoinLeft`/`JoinNew`/`JoinConfirm` for
    `#join`, `CreateStep`/`CreateJoin`/`CreateConfirm`, `LeaveCur`/
    `LeaveJoin`/`LeaveConfirm`, `WhisperFind`/`WhisperTo`/`WhisperBack`,
    `KickFind`/`KickNotify`/`KickDrop`/`KickConfirm`, `ExitDrop`,
    `OtherReply` for the reply-only commands.
  - `HandleDisconnect` is `DiscRoom` (`GetClientRoom`, which answers
    `general` for an unknown id), `DiscLeave`, `DiscCount` (`OnDisconnect`),
    `DiscErase`, `DiscBye`.
  - `BroadcastToRoom` reads the member list once (`GetRoomMembers`) and
    then sends one line per step, in ascending id order (`std::set`):
    `FanStep`. A send to an id no longer in `clients` is dropped, as
    `Send` does.
  - `Find` is the scan of `g_client_names`, an `unordered_map`: any client
    with the name may be chosen.
- **Message store.** `Store` is the cache append with eviction, then
  `WriteToFile`, which includes `RotateLogFile` and `OpenLogFile`. Whether a
  reopen succeeds is a nondeterministic choice. The read-only queries are
  RECURSIVE operators over the cache, one per loop, with the early exits
  where the code has them: `BySender` (push, then `>= count`), `SearchIn`
  (`>= max_results` before each message) and `SearchRooms` (the `break`
  between rooms). Rooms are visited in an order `o` that is any
  permutation of the room names, since `room_messages` is an
  `unordered_map`; a sender and a substring match are the constant
  relations `SenderOf` and `Contains`.
- **Room queries.** `ListRooms`, `GetRoomMembers`, `RoomExists`,
  `GetRoomInfo` and `GetRoommates` are operators on `rm`.
- **Client.** One action per statement that touches shared state:
  `MainStart`, `MainConnect` (`CreateClientSocket` may fail, and the
  receive thread may fail to start), `MainNameTyped`/`MainNameEof`
  (an empty name becomes "Anonymous"), `SendLoop`, `SendTyped`/`SendEof`
  (`getline`), `SendLine` (`#exit` clears `g_running`; a failed `send`
  ends the loop), `MainCleanup`, `MainClose`, `MainJoin`; the receive
  thread's `RecvLoop`, `RecvData`, `RecvFail` (the notice is printed only
  when `g_running` is still set); the handler's `Signal`, `HandlerSend`,
  `HandlerStop`. `CloseStdin` is the user ending input. The server end is
  the environment: `ServerRead` reads the first k pending sends as one
  chunk (a TCP read may join several sends) and closes only when that
  chunk is exactly `#exit`; `ServerEof`, `ServerDrop` and `ServerPush`
  (a reply) may happen at any time.

## 3. Runs

| Run | Expect | Question |
|---|---|---|
| `chatrooms` | pass | `TypeOK`, `RoomIndexConsistent` (the two indexes agree) and `AbstractSpec` (refinement of `AbstractRooms`) under arbitrary calls. |
| `core_w1` | pass | One pool worker: `TypeOK` (with `OnDisconnect`'s floor keeping the count non-negative) and `QuiescentNoGhosts` (once nothing is in flight, a dropped client has no room and no name). |
| `core_double_disconnect` | violation | `#exit`, then the aborted read: `on_disconnect` runs twice. |
| `core_conn_limit` | violation | A rejected client's `on_disconnect` decrements the count, so two admitted clients are connected at once with a limit of one. |
| `store_cache` | pass | `RecentIsNewest`: `GetRecent(r, n)` returns the newest min(n, cap, stored) messages of `r` in order, after any sequence of stores, evictions and clears. `QueriesAreFilters`: in every reachable cache and every room visiting order, `GetBySender(id, n)` (n ≥ 1) and `Search(q, room, max)` return the first n (max) messages of the filtered sequence, and `GetTotalCount` the number of cached messages. |
| `store_rotate` | violation | The log grows past limit + one line, because rotation reopens the same day's file. |
| `gate_w1` | pass | One worker, with `#mute` (parsed and unparsable durations) and `#ban` in play: `TypeOK` and `RateLimitHolds` (no client has more than `max_messages_per_minute` recorded in any window, over the lazy expiry at the window's edge). |
| `gate_rate_race` | violation | Two workers: two chunks both pass `AllowMessage` before either `RecordMessage`. |
| `shutdown_terminates` | pass | `ShutdownTerminates`: after Ctrl-C `main()` always finishes. |
| `shutdown_uaf` | violation | `NoUseAfterFree`: a queued callback runs after `g_server.reset()`, or the handler is still inside `Stop` when the server is freed. |
| `delivery_welcome` | violation | Two workers: `WelcomeFirst` (spec section 5, the welcome precedes any broadcast the client receives) fails. `HandleConnect` joins `general` and sends the welcome in two lock sections; another worker's registration fan-out reads `general`'s members in between, so "alice has joined #general" arrives first. |
| `client_session` | pass | Any typing, Ctrl-C, end of input and server behaviour: `TypeOK` (never an empty send), `ClientTerminates` (once `main()` is in cleanup it returns: the socket is closed before the join, so the blocked `recv` fails), `NoticeMeansServerClosed` ("Disconnected from server." only after the server closed its end). |

The project keeps at most twelve runs. `gate_ban` (the `#ban` of
`ip:port`, `BannedHostStaysOut` violated) was retired for `client_session`;
`tlc -config MCGate_ban.cfg MCGate` still reproduces it. For the same
reason `Delivery` has no passing run: its one-worker run checked
properties that hold only because a single FIFO worker serialises the
callbacks, and its slot went to `delivery_welcome`.

Each property of a passing run has a mutant in `PROJECT.json`. The mutant is
a plausible bug in the mapped code, and TLC finds the property violated once
it is swapped in. For example, `Join` that keeps the old membership, a pool
`shutdown` without `notify_all`, or a trim one too early.

### Bounds

- **Server.**
  - Two clients: enough for one client to kick another and for a rejection
    next to an admission.
  - One name, two rooms: `general` and `devs`, so `#create`, `#join` and
    `#leave` all change state.
  - Six chunk kinds.
  - `MaxChunks` = 1–2 per client.
  - `MaxTotal` = 1 in `core_w1`, so rejection happens.
  - The limit run has three clients and `MaxTotal` = 1: it needs one rejected
    client and two admitted ones.
  - `core_w1` reaches about 4.4 M distinct states in about a minute and a half.
- **ChatRooms.** Two clients, three rooms, two passwords and three topics.
  Every branch of every method is reached: private rooms, wrong passwords,
  admin deletion.
- **MessageStore.**
  - Cache of 2 per room and 5 stores, so eviction happens in one room while
    the other is cleared.
  - A limit of 4 bytes with lines of 1 or 3 bytes, so a rotation is reached
    with and without overshoot.
  - A prior file of 0 or 3 bytes, for a restart on the same day.
  - Two days.
- **Policy** (inside `Gate`; it has no run of its own). One client, one address, `MaxTime` = 3 ticks with a window of
  1 tick for connections and 2 for messages, limits of 1–2, mute durations
  0, 1 and −1: enough for every window to fill, expire at and past its edge,
  and for permanent, finite and already-expired mutes. Two clients exceed
  18 M states without adding a case the checked properties tell apart.
- **Gate.** Two clients on one host, up to 2 chunks each, `MaxTime` ≤ 2,
  a one-tick minute. The chunk sets are chosen per run: text only for the
  rate race, text and `#ban` for the ban. `gate_w1` has all chunk kinds,
  one worker, `MaxTotal` = 1 (604 k states).
- **Delivery.** Two clients, one name, rooms `general` and `devs`, two
  pool workers, `MaxTotal` = 2, chunks limited to a name or chat line and a
  budget of 2 over all clients (12 k states before the violation): one
  client registers while the other is being connected.
- **MessageStore queries.** Two senders (odd messages from one, even
  from the other) and two queries with overlapping matches, counts and
  limits 1 … 6 (`n` = 0 is left out, see below), checked in every state
  of `store_cache` (39 k states) and every permutation of the two rooms;
  the cache reaches two full rooms, so every early exit, the `break`
  between rooms and a limit above the total are all met.
- **Client.** Lines `""`, `hi` and `#exit`, names `""` and `alice`, two
  lines of input and one server reply (47 k states): enough for an empty
  line, an empty name, `#exit` typed or sent by Ctrl-C, a server that
  reads two sends as one chunk, and a drop during each of main's steps.
- **Shutdown.** Two connections, one pool worker, two completions: enough
  for a queued task at reset, a client connected at `Stop`, and an accept
  racing `Stop` (225 k states, about 30 s with the liveness check).

### Fairness

Weak fairness is assumed only for the server's own threads:

- the IOCP workers draining completions;
- the pool workers taking and running tasks;
- the 1 Hz sweep.

Those threads loop forever while `running`. Peers get no fairness, because a
peer may stay silent forever.

In `Shutdown` the same holds: `main()`, the handler after Ctrl-C, each
caller inside `Stop`, the IOCP workers, the accept thread and each pool
worker are weakly fair; Ctrl-C itself, connects and completions are not.
A pool worker blocked on the condition variable can only leave once
`notify_all` has run (or after finishing a task), which is what the
termination property depends on.

In `Client`, the client's own threads (main, the receive thread, the
handler once Ctrl-C came) and the server's read and end-of-stream
handling are weakly fair; the user typing, Ctrl-C, closing stdin and the
server dropping or replying are not, since none of them need ever happen.
`ClientTerminates` is stated from cleanup on: before it, `main()` waits in
`getline` on the user, which no fairness can justify.

### Seen in the models but not checked by a run

These divergences are visible in the modelled steps, and `PROJECT.json`
lists each as a hazard with a note:

- `AllowMessage` refuses a muted client first. A muted client is told
  "slow down", and the "You are muted." branch is unreachable (spec
  scenario 5).
- `#mute bob x` parses the duration as 0, which `Mute` stores as permanent.
- `Stop`'s `running` test is not atomic, so the handler's `Stop` and the
  destructor's `Stop` both run its body.
- `Stop` clears the client table without any `on_disconnect` (spec
  scenario 6).
- With two workers, `on_disconnect` can overtake `on_connect`.
- A client that never sends is never timed out.
- Lines go to yesterday's log file after midnight.
- A refused client is heard (`Delivery`, `MaxTotal` = 1): its
  `on_connect` refuses it, but its first chunk is already queued; that
  `on_message` registers its name and, since `GetClientRoom` answers
  `general` for it, "alice has joined #general" reaches the others
  (spec 4.6, connect flow: a refused client is disconnected at once and no join takes place).
- With two workers a client's own `#leave` reply is written before its
  welcome, since its `on_message` runs next to its `on_connect` (not a
  broadcast, so not what `WelcomeFirst` states).
- With two workers a fan-out sends to a member list that is stale: a bye
  uses the members read before another client's `ConnJoin`, or a client
  another worker has moved meanwhile still gets the line.
- With two workers two `on_connect` tasks both pass `AllowConnection` at
  the last free slot (`Gate`), so `current_connections` exceeds the total.
- Two `#kick` chunks for the same target call `DisconnectClient` twice
  and queue a second `on_disconnect`.
- `GetBySender(id, 0)` returns one message (the push precedes the
  `>= count` test); spec 4.5 says "up to n".
- Client: a Ctrl-C during cleanup sends `#exit` on the closed `g_socket`,
  which is never reset.
- Client: after the server drops it, `main()` stays in `getline` until the
  next Enter; if the receive thread never started, nothing clears
  `g_running`.
- Client: the name and a first line, or a line and a Ctrl-C `#exit`, sent
  back to back can arrive as one chunk; the server takes the merged text
  as the name, or as a chat line, and the `#exit` is not honoured (spec 6:
  one chunk per logical line).
- Client: after a typed `#exit` the server can close before `g_running`
  is cleared, and "Disconnected from server." is printed on an exit the
  user asked for.

## 4. Not modelled (yet)

- Byte-level framing and write completion (`HandleWrite`, buffers):
  `Delivery` appends a whole line to the peer's inbox when it is posted.
- Console colours, the text printed and line splitting on the client;
  `Search`'s lower-casing (abstracted into `Contains`) and `ListRooms`'
  sort (a set here).
- Message formatting; the reply-only commands (`#help`, `#rooms`,
  `#online`, `#history`, unknown commands) are one `OtherReply` step.
- `Broadcast` to every client (used only by the console).
- Time in `Server`, except as the nondeterministic "this client has gone
  quiet"; `Policy` and `Gate` use a bounded tick clock.
- The lifetime of the `CLIENT_INFO*` that `GetClient` returns (`#ban` runs as
  one step in `Gate`).
- What happens after a use after free: the models record it in a history
  variable and go on as if the memory were still valid.
- `test_apply.cpp`, and `sockutil.*` except `GetSocketAddress` and
  `CreateClientSocket`'s outcome.

## 5. Plan

1. `ChatRooms` + `AbstractRooms` refinement. **Done.**
2. `Server` core: transport, FIFO pool and callbacks, with the
   double-disconnect and limit findings. **Done.**
3. `MessageStore`: cache law, rotation, day roll. **Done.**
4. `Policy` module for `ConnectionManager`: bans stored as `ip:port`, mute
   expiry (including duration 0), the message-rate window and the
   `AllowMessage`/`RecordMessage` race. Compose it into `Server`'s
   `RunMessage` so the mute and rate gates are real. **Done** (`Policy`,
   `Gate`). A violation run for the unreachable "You are muted" reply
   remains: it is recorded as a hazard, not checked by a run.
5. Split `HandleConnect` into check and count steps in a `ServerRace`
   refinement of `Server`, showing over-admission with two workers.
   The split is in `Gate` (`ConnCount` after `ConnAllow`); no run checks the
   over-admission, and a refinement to `Server` remains.
6. The outbound path: per-client send order, the welcome arriving after a
   broadcast, and `#join` notices going to a stale `old_room`. Modelled
   (`Delivery`); the welcome order is checked (`delivery_welcome`), the
   stale member lists are not.
7. `Shutdown`: `Stop`, pool `shutdown` and `main`'s reset order. Checks that
   no task runs against a destroyed server (`shutdown_uaf`) and that
   `main()` terminates (`shutdown_terminates`). That `Stop` delivers no
   `on_disconnect` is modelled (`StopClear`) but not checked.
8. The console client against the server end of its stream. **Done**
   (`Client`).
9. The store's and the room manager's read-only queries. **Done**.
10. An abstract per-client callback protocol
   (connect · message* · disconnect) that `Server` with one worker refines.
