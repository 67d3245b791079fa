------------------------------- MODULE Policy -------------------------------
(***************************************************************************)
(* The rate and policy controller (src/connection_manager.h, .cpp).        *)
(*                                                                         *)
(* Each state family sits under its own mutex and every method holds one   *)
(* of them (AllowMessage takes mute_mutex inside IsMuted, then             *)
(* message_mutex), so a method is one step.  The whole manager is one      *)
(* record, and each method is a pair of operators: the value it returns    *)
(* and the manager it leaves, both of the clock reading now.  Time is in   *)
(* ticks of steady_clock: Second ticks make the one-second connection      *)
(* window, Minute ticks the one-minute message window.                     *)
(***************************************************************************)
EXTENDS Integers, Sequences

CONSTANTS
    Client,        \* client ids
    Addr,          \* "ip:port" strings GetSocketAddress may return
    MaxTotal,      \* Config::max_total_connections
    PerSecond,     \* Config::max_connections_per_second
    PerMinute,     \* Config::max_messages_per_minute
    Second,        \* ticks in one second
    Minute,        \* ticks in one minute
    TimeoutTicks,  \* Config::connection_timeout_seconds, in ticks
    NoMute,        \* muted_clients has no entry
    Forever,       \* steady_clock::time_point::max(), the permanent mute
    Never          \* last_activity has no entry

VARIABLE cm

(* Constructor: every map empty, no connections counted.                  *)
InitPolicy ==
    [connTs  |-> <<>>,
     cur     |-> 0,
     msgTs   |-> [c \in Client |-> <<>>],
     banned  |-> {},
     muted   |-> [c \in Client |-> NoMute],
     active  |-> [c \in Client |-> Never]]

PolicyType ==
    /\ cm.connTs \in Seq(Nat)
    /\ cm.cur \in Nat
    /\ cm.msgTs \in [Client -> Seq(Nat)]
    /\ cm.banned \in SUBSET Addr
    /\ cm.muted \in [Client -> Int \cup {NoMute, Forever}]
    /\ cm.active \in [Client -> Nat \cup {Never}]

-----------------------------------------------------------------------------

(* The lazy expiry loop of both windows: pop the front while it is older  *)
(* than lo.                                                                *)
RECURSIVE DropOlder(_, _)
DropOlder(q, lo) ==
    IF q # <<>> /\ Head(q) < lo THEN DropOlder(Tail(q), lo) ELSE q

(* IsMuted: no entry, or an expired finite entry (which it erases), is not *)
(* muted; a permanent entry or one not yet past is.                        *)
IsMuted(s, c, now) ==
    /\ s.muted[c] # NoMute
    /\ s.muted[c] = Forever \/ now <= s.muted[c]

IsMutedNext(s, c, now) ==
    IF s.muted[c] \notin {NoMute, Forever} /\ now > s.muted[c]
    THEN [s EXCEPT !.muted[c] = NoMute]
    ELSE s

\* An AllowMessage that lets the client reach one message over the limit.
AllowMessageAtLimit(s, c, now) ==
    /\ ~IsMuted(s, c, now)
    /\ Len(DropOlder(s.msgTs[c], now - Minute)) <= PerMinute

(* AllowMessage: refused while muted; else the client's window is expired *)
(* and the message allowed iff fewer than PerMinute timestamps remain.     *)
AllowMessage(s, c, now) ==
    /\ ~IsMuted(s, c, now)
    /\ Len(DropOlder(s.msgTs[c], now - Minute)) < PerMinute

AllowMessageNext(s, c, now) ==
    IF IsMuted(s, c, now) THEN IsMutedNext(s, c, now)
    ELSE [IsMutedNext(s, c, now) EXCEPT
              !.msgTs[c] = DropOlder(@, now - Minute)]

(* RecordMessage: append the timestamp, and UpdateActivity.               *)
RecordMessage(s, c, now) ==
    [s EXCEPT !.msgTs[c] = Append(@, now), !.active[c] = now]

UpdateActivity(s, c, now) == [s EXCEPT !.active[c] = now]

(* AllowConnection: banned address, then the total, then the one-second   *)
(* window, which is expired first and gets the timestamp on success.       *)
AllowConnection(s, a, now) ==
    /\ a \notin s.banned
    /\ s.cur < MaxTotal
    /\ Len(DropOlder(s.connTs, now - Second)) < PerSecond

AllowConnectionNext(s, a, now) ==
    IF a \in s.banned \/ s.cur >= MaxTotal THEN s
    ELSE LET q == DropOlder(s.connTs, now - Second)
         IN [s EXCEPT !.connTs = IF Len(q) < PerSecond THEN Append(q, now)
                                 ELSE q]

OnConnect(s) == [s EXCEPT !.cur = @ + 1]

\* An OnDisconnect without the positive check.
OnDisconnectNoFloor(s) == [s EXCEPT !.cur = @ - 1]

OnDisconnect(s) == IF s.cur > 0 THEN [s EXCEPT !.cur = @ - 1] ELSE s

Ban(s, a) == [s EXCEPT !.banned = @ \cup {a}]

Unban(s, a) == [s EXCEPT !.banned = @ \ {a}]

(* Mute: a duration of 0 is permanent, any other is added to now (a       *)
(* negative one gives an expiry already past).                             *)
Mute(s, c, d, now) ==
    [s EXCEPT !.muted[c] = IF d = 0 THEN Forever ELSE now + d]

Unmute(s, c) == [s EXCEPT !.muted[c] = NoMute]

(* CheckTimeouts: the given ids whose activity entry is older than the    *)
(* timeout; ids without an entry are skipped.                              *)
CheckTimeouts(s, ids, now) ==
    {c \in ids : s.active[c] # Never /\ now - s.active[c] > TimeoutTicks}

=============================================================================
