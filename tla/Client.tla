------------------------------- MODULE Client -------------------------------
(***************************************************************************)
(* The console client (src/client.cpp): main(), which connects, sends the  *)
(* name and then runs SendMessages; the receive thread ReceiveMessages;    *)
(* the Ctrl-C ConsoleHandler, which Windows runs on a thread of its own;   *)
(* and the cleanup at the end of main().  The threads share g_running and  *)
(* g_socket.                                                               *)
(*                                                                         *)
(* The environment is the user (lines typed, stdin closed, Ctrl-C) and the *)
(* server end of the TCP connection.  The stream keeps the order of the    *)
(* client's sends but not their boundaries: a completed read on the server *)
(* may hold several sends, and the server treats it as one chunk.  The     *)
(* server closes the connection on a chunk that is exactly "#exit", on     *)
(* end of stream, or at any time of its own (#kick, idle sweep, Stop).     *)
(***************************************************************************)
EXTENDS Naturals, Sequences

CONSTANTS
    Line,        \* lines the user may type, "" included
    UserName,    \* what the user may type at the name prompt, "" included
    ExitCmd,     \* "#exit"
    Anonymous,   \* the name sent for an empty one
    MaxInputs,   \* bound on lines typed after the name
    MaxReplies   \* bound on server lines not yet read by the client

MainPc == {"start", "connect", "name", "loop", "read", "send", "cleanup",
           "close", "join", "done"}

VARIABLES
    gRunning,   \* g_running
    gSocket,    \* g_socket: "invalid" until connected, then "valid"
    sock,       \* the client socket: "none", "open" or "closed"
    stdin,      \* std::cin: "open", or "eof" once a read has failed
    typed,      \* lines typed after the name
    input,      \* SendMessages' input
    mainPc,
    joinable,   \* recv_thread holds a thread handle
    rcvPc,      \* ReceiveMessages: "loop", "recv" or "done"
    hPc,        \* ConsoleHandler: "idle", "check", "stop" or "done"
    wire,       \* bytes sent and not yet read by the server, one per send
    srv,        \* the server's end: "open" or "closed"
    replies,    \* server lines not yet read by the client
    notice      \* "Disconnected from server." has been printed

vars == <<gRunning, gSocket, sock, stdin, typed, input, mainPc, joinable,
          rcvPc, hPc, wire, srv, replies, notice>>

\* What a send may put on the stream: never an empty buffer.
Sent == (Line \cup UserName \cup {Anonymous, ExitCmd}) \ {""}

TypeOK ==
    /\ gRunning \in BOOLEAN /\ joinable \in BOOLEAN /\ notice \in BOOLEAN
    /\ gSocket \in {"invalid", "valid"}
    /\ sock \in {"none", "open", "closed"}
    /\ stdin \in {"open", "eof"}
    /\ typed \in 0..MaxInputs
    /\ input \in Line
    /\ mainPc \in MainPc
    /\ rcvPc \in {"loop", "recv", "done"}
    /\ hPc \in {"idle", "check", "stop", "done"}
    /\ wire \in Seq(Sent)
    /\ srv \in {"open", "closed"}
    /\ replies \in 0..MaxReplies

\* The globals g_socket and g_running; the receive thread is not started.
Init ==
    /\ gRunning = TRUE /\ gSocket = "invalid" /\ sock = "none"
    /\ stdin = "open" /\ typed = 0 /\ input = "" /\ mainPc = "start"
    /\ joinable = FALSE /\ rcvPc = "done" /\ hPc = "idle"
    /\ wire = <<>> /\ srv = "open" /\ replies = 0 /\ notice = FALSE

\* The process is alive until main() returns.
Alive == mainPc # "done"

\* send(g_socket, b): on an open socket the bytes join the stream, and the
\* server drops them once it has closed; a send on a socket main() has
\* closed fails.
Send(b) ==
    wire' = IF sock = "open" /\ srv = "open" THEN Append(wire, b) ELSE wire

-----------------------------------------------------------------------------
(* main()                                                                  *)

\* InitializeWinsock, then SetConsoleCtrlHandler: Ctrl-C is handled from
\* here on.  A WSAStartup failure ends main() with 1.
MainStart ==
    /\ mainPc = "start"
    /\ mainPc' \in {"connect", "done"}
    /\ UNCHANGED <<gRunning, gSocket, sock, stdin, typed, input, joinable,
                   rcvPc, hPc, wire, srv, replies, notice>>

\* CreateClientSocket: socket() and connect() succeed, or it returns
\* INVALID_SOCKET (bad address, refused) and main() returns 1.
CreateClientSocket == {"valid", "invalid"}

MainConnect ==
    /\ mainPc = "connect"
    /\ \E s \in CreateClientSocket :
          IF s = "valid"
          THEN gSocket' = "valid" /\ sock' = "open" /\ mainPc' = "name"
          ELSE mainPc' = "done" /\ UNCHANGED <<gSocket, sock>>
    /\ UNCHANGED <<gRunning, stdin, typed, input, joinable, rcvPc, hPc,
                   wire, srv, replies, notice>>

\* w32::Thread's constructor: _beginthreadex may fail, and then the handle
\* is NULL, the thread never runs and join() does nothing.
StartThread == BOOLEAN

\* A name step that sends the name as typed, empty or not.
NameEnteredRaw(u) ==
    /\ mainPc = "name"
    /\ Send(u)
    /\ \E ok \in StartThread :
          /\ joinable' = ok
          /\ rcvPc' = IF ok THEN "loop" ELSE "done"
    /\ mainPc' = "loop"
    /\ UNCHANGED <<gRunning, gSocket, sock, stdin, typed, input, hPc, srv,
                   replies, notice>>

\* getline(g_username) returned u; "Anonymous" for an empty name; send it,
\* ignoring the result; start the receive thread; enter SendMessages.
NameEntered(u) ==
    /\ mainPc = "name"
    /\ Send(IF u = "" THEN Anonymous ELSE u)
    /\ \E ok \in StartThread :
          /\ joinable' = ok
          /\ rcvPc' = IF ok THEN "loop" ELSE "done"
    /\ mainPc' = "loop"
    /\ UNCHANGED <<gRunning, gSocket, sock, stdin, typed, input, hPc, srv,
                   replies, notice>>

\* The user types a name, or std::cin has failed and getline returns "".
MainNameTyped == stdin = "open" /\ \E u \in UserName : NameEntered(u)

MainNameEof == stdin = "eof" /\ NameEntered("")

\* while (g_running) in SendMessages.
SendLoop ==
    /\ mainPc = "loop"
    /\ mainPc' = IF gRunning THEN "read" ELSE "cleanup"
    /\ UNCHANGED <<gRunning, gSocket, sock, stdin, typed, input, joinable,
                   rcvPc, hPc, wire, srv, replies, notice>>

\* getline returned l; then "if (!g_running) break" and "if (input.empty())
\* continue".
LineRead(l) ==
    /\ mainPc = "read"
    /\ input' = l
    /\ mainPc' = CASE ~gRunning -> "cleanup"
                   [] l = ""    -> "loop"
                   [] OTHER     -> "send"
    /\ UNCHANGED <<gRunning, gSocket, sock, stdin, joinable, rcvPc, hPc,
                   wire, srv, replies, notice>>

SendTyped ==
    /\ stdin = "open" /\ typed < MaxInputs
    /\ \E l \in Line : LineRead(l)
    /\ typed' = typed + 1

\* Once std::cin has failed, every getline returns at once with "".
SendEof == stdin = "eof" /\ LineRead("") /\ UNCHANGED typed

\* send(input): on SOCKET_ERROR "Failed to send", g_running = false; after
\* a send of "#exit" g_running = false; either way SendMessages returns.
\* A send on a connection the server has closed may still succeed.
SendLine ==
    /\ mainPc = "send"
    /\ \E ok \in IF srv = "open" THEN {TRUE} ELSE BOOLEAN :
          IF ok
          THEN /\ Send(input)
               /\ gRunning' = (gRunning /\ input # ExitCmd)
               /\ mainPc' = IF input = ExitCmd THEN "cleanup" ELSE "loop"
          ELSE /\ gRunning' = FALSE /\ mainPc' = "cleanup"
               /\ UNCHANGED wire
    /\ UNCHANGED <<gSocket, sock, stdin, typed, input, joinable, rcvPc, hPc,
                   srv, replies, notice>>

\* A cleanup that goes straight to the join, without closing the socket.
CleanupSkipClose ==
    /\ mainPc = "cleanup"
    /\ gRunning' = FALSE
    /\ mainPc' = "join"
    /\ UNCHANGED <<gSocket, sock, stdin, typed, input, joinable, rcvPc, hPc,
                   wire, srv, replies, notice>>

\* main(), after SendMessages: g_running = false.
MainCleanup ==
    /\ mainPc = "cleanup"
    /\ gRunning' = FALSE
    /\ mainPc' = "close"
    /\ UNCHANGED <<gSocket, sock, stdin, typed, input, joinable, rcvPc, hPc,
                   wire, srv, replies, notice>>

\* shutdown(g_socket, SD_BOTH) and closesocket(g_socket); g_socket keeps
\* its value.
MainClose ==
    /\ mainPc = "close"
    /\ sock' = "closed"
    /\ mainPc' = "join"
    /\ UNCHANGED <<gRunning, gSocket, stdin, typed, input, joinable, rcvPc,
                   hPc, wire, srv, replies, notice>>

\* Thread::join: WaitForSingleObject on a live handle, nothing otherwise.
JoinReturns == ~joinable \/ rcvPc = "done"

\* recv_thread.join(), CleanupWinsock, "Goodbye!", return 0.
MainJoin ==
    /\ mainPc = "join"
    /\ JoinReturns
    /\ mainPc' = "done"
    /\ UNCHANGED <<gRunning, gSocket, sock, stdin, typed, input, joinable,
                   rcvPc, hPc, wire, srv, replies, notice>>

-----------------------------------------------------------------------------
(* ReceiveMessages                                                         *)

\* while (g_running).
RecvLoop ==
    /\ Alive /\ rcvPc = "loop"
    /\ rcvPc' = IF gRunning THEN "recv" ELSE "done"
    /\ UNCHANGED <<gRunning, gSocket, sock, stdin, typed, input, mainPc,
                   joinable, hPc, wire, srv, replies, notice>>

\* recv returns bytes: one or more server lines in one buffer, printed in
\* the colour their text selects.
RecvData ==
    /\ Alive /\ rcvPc = "recv"
    /\ sock = "open" /\ replies > 0
    /\ replies' \in 0..(replies - 1)
    /\ rcvPc' = "loop"
    /\ UNCHANGED <<gRunning, gSocket, sock, stdin, typed, input, mainPc,
                   joinable, hPc, wire, srv, notice>>

\* A failed recv that prints the notice whatever g_running says.
RecvFailNoCheck ==
    /\ Alive /\ rcvPc = "recv"
    /\ sock = "closed" \/ (srv = "closed" /\ replies = 0)
    /\ notice' = TRUE /\ gRunning' = FALSE
    /\ rcvPc' = "done"
    /\ UNCHANGED <<gSocket, sock, stdin, typed, input, mainPc, joinable,
                   hPc, wire, srv, replies>>

\* recv returns 0 or SOCKET_ERROR: the server's end is closed and its lines
\* are read, or main() has shut the socket down.  "Disconnected from
\* server." and g_running = false only while g_running is still set.
RecvFail ==
    /\ Alive /\ rcvPc = "recv"
    /\ sock = "closed" \/ (srv = "closed" /\ replies = 0)
    /\ IF gRunning
       THEN notice' = TRUE /\ gRunning' = FALSE
       ELSE UNCHANGED <<notice, gRunning>>
    /\ rcvPc' = "done"
    /\ UNCHANGED <<gSocket, sock, stdin, typed, input, mainPc, joinable,
                   hPc, wire, srv, replies>>

-----------------------------------------------------------------------------
(* ConsoleHandler and the user                                             *)

\* Ctrl-C: Windows starts ConsoleHandler on a new thread.  A getline that
\* is waiting on the console may be aborted, which fails std::cin.
Signal ==
    /\ Alive /\ hPc = "idle"
    /\ hPc' = "check"
    /\ stdin' \in IF mainPc \in {"name", "read"} THEN {stdin, "eof"}
                                                  ELSE {stdin}
    /\ UNCHANGED <<gRunning, gSocket, sock, typed, input, mainPc, joinable,
                   rcvPc, wire, srv, replies, notice>>

\* if (g_socket != INVALID_SOCKET) send "#exit".
HandlerSend ==
    /\ Alive /\ hPc = "check"
    /\ IF gSocket = "valid" THEN Send(ExitCmd) ELSE UNCHANGED wire
    /\ hPc' = "stop"
    /\ UNCHANGED <<gRunning, gSocket, sock, stdin, typed, input, mainPc,
                   joinable, rcvPc, srv, replies, notice>>

\* g_running = false; return TRUE.
HandlerStop ==
    /\ Alive /\ hPc = "stop"
    /\ gRunning' = FALSE
    /\ hPc' = "done"
    /\ UNCHANGED <<gSocket, sock, stdin, typed, input, mainPc, joinable,
                   rcvPc, wire, srv, replies, notice>>

\* Ctrl-Z or the end of a redirected stdin.
CloseStdin ==
    /\ Alive /\ stdin = "open"
    /\ stdin' = "eof"
    /\ UNCHANGED <<gRunning, gSocket, sock, typed, input, mainPc, joinable,
                   rcvPc, hPc, wire, srv, replies, notice>>

-----------------------------------------------------------------------------
(* The server end                                                          *)

\* A read completion takes the first k sends as one chunk (HandleRead);
\* HandleMessage runs "#exit" only when the chunk is exactly "#exit", and
\* may answer with a line.
ServerRead ==
    /\ srv = "open" /\ wire # <<>>
    /\ \E k \in 1..Len(wire) :
          /\ wire' = SubSeq(wire, k + 1, Len(wire))
          /\ srv' = IF SubSeq(wire, 1, k) = <<ExitCmd>> THEN "closed" ELSE srv
          /\ replies' \in {replies, IF replies < MaxReplies THEN replies + 1
                                                             ELSE replies}
    /\ UNCHANGED <<gRunning, gSocket, sock, stdin, typed, input, mainPc,
                   joinable, rcvPc, hPc, notice>>

\* The zero-byte completion after the client closed: CleanupClient.
ServerEof ==
    /\ srv = "open" /\ sock = "closed" /\ wire = <<>>
    /\ srv' = "closed"
    /\ UNCHANGED <<gRunning, gSocket, sock, stdin, typed, input, mainPc,
                   joinable, rcvPc, hPc, wire, replies, notice>>

\* #kick, the idle sweep, Stop, or a refused connection.
ServerDrop ==
    /\ srv = "open" /\ sock = "open"
    /\ srv' = "closed"
    /\ UNCHANGED <<gRunning, gSocket, sock, stdin, typed, input, mainPc,
                   joinable, rcvPc, hPc, wire, replies, notice>>

\* A line from the server that no send of this client caused (a broadcast,
\* a whisper, a notice).
ServerPush ==
    /\ srv = "open" /\ sock = "open" /\ replies < MaxReplies
    /\ replies' = replies + 1
    /\ UNCHANGED <<gRunning, gSocket, sock, stdin, typed, input, mainPc,
                   joinable, rcvPc, hPc, wire, srv, notice>>

-----------------------------------------------------------------------------
Next ==
    \/ MainStart \/ MainConnect \/ MainNameTyped \/ MainNameEof
    \/ SendLoop \/ SendTyped \/ SendEof \/ SendLine
    \/ MainCleanup \/ MainClose \/ MainJoin
    \/ RecvLoop \/ RecvData \/ RecvFail
    \/ Signal \/ HandlerSend \/ HandlerStop \/ CloseStdin
    \/ ServerRead \/ ServerEof \/ ServerDrop \/ ServerPush

(* The client's threads are weakly fair where they do not wait for the    *)
(* user: a getline on a failed std::cin returns at once.  The server's    *)
(* workers are weakly fair in reading the stream and seeing end of        *)
(* stream.  Typing, Ctrl-C and the server's own decisions to drop the     *)
(* client or to send it a line are not.                                     *)
Fairness ==
    /\ WF_vars(MainStart) /\ WF_vars(MainConnect) /\ WF_vars(MainNameEof)
    /\ WF_vars(SendLoop) /\ WF_vars(SendEof) /\ WF_vars(SendLine)
    /\ WF_vars(MainCleanup) /\ WF_vars(MainClose) /\ WF_vars(MainJoin)
    /\ WF_vars(RecvLoop) /\ WF_vars(RecvData) /\ WF_vars(RecvFail)
    /\ WF_vars(HandlerSend) /\ WF_vars(HandlerStop)
    /\ WF_vars(ServerRead) /\ WF_vars(ServerEof)

Spec == Init /\ [][Next]_vars /\ Fairness

-----------------------------------------------------------------------------
(* Once SendMessages has returned, main() always returns: closing the      *)
(* socket before joining makes the receive thread's blocking recv fail, so *)
(* the join cannot wait for a server that never closes its end (a Ctrl-C   *)
(* before the connection existed sends no "#exit"; a merged "#exit" is not *)
(* honoured; the idle sweep is not counted on).                            *)
ClientTerminates == (mainPc \in {"cleanup", "close", "join"}) ~> (mainPc = "done")

(* "Disconnected from server." is printed only when the server has closed *)
(* its end: when main() closes the socket itself, every way out of         *)
(* SendMessages and main()'s cleanup have cleared g_running first, so the  *)
(* receive thread's failed recv stays silent.                               *)
NoticeMeansServerClosed == [][~notice /\ notice' => srv = "closed"]_vars
====
