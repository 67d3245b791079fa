---------------------------- MODULE MessageStore ----------------------------
(***************************************************************************)
(* The message store (src/message_store.h, message_store.cpp): a bounded   *)
(* in-memory queue per room and an append-only log file per day, rotated   *)
(* by size.  Messages are numbered in the order they are stored, so that   *)
(* order is visible; a log line is abstracted to its length in bytes, in   *)
(* units of which LimitBytes stands for max_file_size_mb * 1024 * 1024.    *)
(* The file's bytes themselves are not modelled, only how many each day's  *)
(* file holds.                                                              *)
(***************************************************************************)
EXTENDS Naturals, Sequences

SX == INSTANCE SequencesExt

CONSTANTS
    Room,         \* room names messages are stored under
    MaxPerRoom,   \* Config::max_messages_per_room
    LimitBytes,   \* Config::max_file_size_mb * 1024 * 1024
    LineLen,      \* lengths a formatted log line may have
    PriorSize,    \* sizes today's file may already have when the server starts
    MaxStores,    \* bound on Store calls
    MaxDay,       \* bound on the days the clock reaches
    Sender,       \* sender ids
    SenderOf(_),  \* ChatMessage::sender_id of each message
    Query,        \* Search queries
    Contains(_, _) \* the content of message m contains query q, ignoring
                   \* ASCII case (tolower on both, then find)

ASSUME MaxPerRoom \in Nat \ {0} /\ LimitBytes \in Nat \ {0}
ASSUME LineLen \subseteq Nat \ {0} /\ PriorSize \subseteq Nat

VARIABLES
    cache,    \* room_messages
    persist,  \* config.enable_persistence
    log,      \* log_file and current_file_size: [open, day, cur]
    files,    \* bytes in each day's chat_<YYYYMMDD>.log
    today,    \* the local date
    hist,     \* history: every message stored in each room since its Clear
    stored    \* history: Store calls so far

vars == <<cache, persist, log, files, today, hist, stored>>

Day == 1..MaxDay
Msg == 1..MaxStores
MaxLine == CHOOSE l \in LineLen : \A k \in LineLen : k <= l
Min(a, b) == IF a < b THEN a ELSE b

TypeOK ==
    /\ cache \in [Room -> Seq(Msg)]
    /\ persist \in BOOLEAN
    /\ log \in [open : BOOLEAN, day : Day, cur : Nat]
    /\ files \in [Day -> Nat]
    /\ today \in Day
    /\ hist \in [Room -> Seq(Msg)]
    /\ stored \in 0..MaxStores

-----------------------------------------------------------------------------
(* OpenLogFile: open today's file for append.  On failure persistence is   *)
(* switched off for good; on success current_file_size is read back from   *)
(* the file.  cur is what current_file_size held before the call.          *)
Opened(ok, cur) ==
    IF ok THEN [open |-> TRUE, day |-> today, cur |-> files[today]]
    ELSE [open |-> FALSE, day |-> today, cur |-> cur]

(* The constructor: persistence is enabled (server.cpp), so the log file   *)
(* is opened at once.  Today's file may exist from an earlier run.         *)
Init ==
    /\ today = 1
    /\ files \in {[d \in Day |-> IF d = 1 THEN s ELSE 0] : s \in PriorSize}
    /\ \E ok \in BOOLEAN :
          /\ log = Opened(ok, 0)
          /\ persist = ok
    /\ cache = [r \in Room |-> <<>>]
    /\ hist = [r \in Room |-> <<>>]
    /\ stored = 0

\* The cache update of a Store that trims one message too many.
CachedTrimEarly(q, m) ==
    LET q1 == Append(q, m)
    IN IF Len(q1) >= MaxPerRoom THEN Tail(q1) ELSE q1

(* Store, in-memory part: append, then drop from the front while the      *)
(* queue is longer than the limit (at most one message is ever over).     *)
Cached(q, m) ==
    LET q1 == Append(q, m)
    IN IF Len(q1) > MaxPerRoom THEN Tail(q1) ELSE q1

(* WriteToFile of a line of len bytes, then RotateLogFile when the count   *)
(* reaches the limit: close, zero the count, OpenLogFile.                  *)
WriteToFile(len, ok) ==
    IF ~log.open
    THEN UNCHANGED <<log, files, persist>>
    ELSE LET cur == log.cur + len
             files1 == [files EXCEPT ![log.day] = @ + len]
         IN IF cur >= LimitBytes
            THEN /\ files' = files1
                 /\ log' = IF ok THEN [open |-> TRUE, day |-> today,
                                       cur |-> files1[today]]
                           ELSE [open |-> FALSE, day |-> today, cur |-> 0]
                 /\ persist' = ok
            ELSE /\ files' = files1
                 /\ log' = [log EXCEPT !.cur = cur]
                 /\ UNCHANGED persist

(* Store: the message goes into its room's cache, then, when persistence  *)
(* is on, into the log.  ok is whether a reopen during rotation succeeds. *)
Store(r, len, ok) ==
    /\ stored < MaxStores
    /\ LET m == stored + 1 IN
       /\ cache' = [cache EXCEPT ![r] = Cached(@, m)]
       /\ hist' = [hist EXCEPT ![r] = Append(@, m)]
       /\ stored' = m
    /\ IF persist THEN WriteToFile(len, ok) ELSE UNCHANGED <<log, files, persist>>
    /\ UNCHANGED today

(* Clear(room) erases one room's queue; Clear() erases every queue.       *)
Clear(r) ==
    /\ cache' = [cache EXCEPT ![r] = <<>>]
    /\ hist' = [hist EXCEPT ![r] = <<>>]
    /\ UNCHANGED <<persist, log, files, today, stored>>

ClearAll ==
    /\ cache' = [r \in Room |-> <<>>]
    /\ hist' = [r \in Room |-> <<>>]
    /\ UNCHANGED <<persist, log, files, today, stored>>

(* The local date moves on.                                               *)
NewDay ==
    /\ today < MaxDay
    /\ today' = today + 1
    /\ UNCHANGED <<cache, persist, log, files, hist, stored>>

Next ==
    \/ \E r \in Room, len \in LineLen, ok \in BOOLEAN : Store(r, len, ok)
    \/ \E r \in Room : Clear(r)
    \/ ClearAll
    \/ NewDay

Spec == Init /\ [][Next]_vars

-----------------------------------------------------------------------------
(* The read-only queries.  room_messages is an unordered_map, so they may *)
(* visit the rooms in any order o; a room without an entry is visited as  *)
(* an empty queue, which yields the same results.                         *)

\* Every message of the cache, rooms in the order o, oldest first.
InOrder(o) == SX!FlattenSeq([i \in 1..Len(o) |-> cache[o[i]]])

\* A GetBySender scan that never stops at count.
RECURSIVE BySenderNoLimit(_, _, _, _)
BySenderNoLimit(s, id, count, res) ==
    IF s = <<>> THEN res
    ELSE BySenderNoLimit(Tail(s), id, count,
                         IF SenderOf(Head(s)) = id THEN Append(res, Head(s))
                                                    ELSE res)

(* GetBySender's loops over s, the messages in visiting order: a match is *)
(* pushed, then "if (result.size() >= count) return result".              *)
RECURSIVE BySender(_, _, _, _)
BySender(s, id, count, res) ==
    IF s = <<>> THEN res
    ELSE IF SenderOf(Head(s)) # id THEN BySender(Tail(s), id, count, res)
    ELSE IF Len(res) + 1 >= count THEN Append(res, Head(s))
    ELSE BySender(Tail(s), id, count, Append(res, Head(s)))

GetBySender(o, id, count) == BySender(InOrder(o), id, count, <<>>)

(* search_in_room: stop once max_results are found, else push a match.   *)
RECURSIVE SearchIn(_, _, _, _)
SearchIn(q, query, max, res) ==
    IF q = <<>> \/ Len(res) >= max THEN res
    ELSE SearchIn(Tail(q), query, max,
                  IF Contains(Head(q), query) THEN Append(res, Head(q)) ELSE res)

\* Search over every room, in the order o, with its break between rooms.
RECURSIVE SearchRooms(_, _, _, _)
SearchRooms(o, query, max, res) ==
    IF o = <<>> THEN res
    ELSE LET res1 == SearchIn(cache[Head(o)], query, max, res)
         IN IF Len(res1) >= max THEN res1 ELSE SearchRooms(Tail(o), query, max, res1)

\* Search(query, room, max_results); room "" searches every room.
Search(o, query, room, max) ==
    IF room # "" THEN SearchIn(cache[room], query, max, <<>>)
    ELSE SearchRooms(o, query, max, <<>>)

\* GetTotalCount: the sum of the queue lengths.
GetTotalCount == SX!MapThenSumSet(LAMBDA r : Len(cache[r]), Room)

\* A GetRecent whose start index is one too far.
GetRecentSkipOne(q, count) ==
    LET start == IF Len(q) > count THEN Len(q) - count + 1 ELSE 0
    IN [i \in 1..Len(q) - start |-> q[start + i]]

(* GetRecent: the messages from index max(size - count, 0) to the end.    *)
GetRecent(q, count) ==
    LET start == IF Len(q) > count THEN Len(q) - count ELSE 0
    IN [i \in 1..Len(q) - start |-> q[start + i]]

\* Reference: the last k elements of a sequence.
LastN(s, k) == SubSeq(s, Len(s) - k + 1, Len(s))

(* GetRecent(r, n) returns the min(n, |cache[r]|) most recently stored    *)
(* messages of r in the order they were stored, and the cache holds the   *)
(* newest min(max_messages_per_room, stored) of them (spec section 8),    *)
(* for every n #history can ask for, across any sequence of Store, Clear  *)
(* and eviction.                                                           *)
RecentIsNewest ==
    \A r \in Room, n \in 1..MaxPerRoom + 1 :
        GetRecent(cache[r], n) =
            LastN(hist[r], Min(n, Min(MaxPerRoom, Len(hist[r]))))

\* Reference: the first k elements of s, or all of s.
FirstN(s, k) == SubSeq(s, 1, Min(k, Len(s)))

(* The read-only queries return what spec 4.5 says, on every cache TLC   *)
(* reaches and whatever order the unordered_map visits the rooms in:      *)
(* GetBySender(id, n), n >= 1, the first n messages of id in visiting     *)
(* order; Search(q, room, max) the first max matches of q in that room,   *)
(* or in all rooms in visiting order; GetTotalCount the number of cached  *)
(* messages.  Each is an early-exit scan whose limit is tested at a       *)
(* different point of its loop.                                            *)
QueriesAreFilters ==
    \A o \in SX!SetToSeqs(Room) :
        /\ \A id \in Sender, n \in 1..MaxStores + 1 :
              GetBySender(o, id, n) =
                 FirstN(SelectSeq(InOrder(o), LAMBDA m : SenderOf(m) = id), n)
        /\ \A q \in Query, r \in Room \cup {""}, max \in 0..MaxStores + 1 :
              Search(o, q, r, max) =
                 FirstN(SelectSeq(IF r = "" THEN InOrder(o) ELSE cache[r],
                                  LAMBDA m : Contains(m, q)), max)
        /\ GetTotalCount = Len(InOrder(o))

(* Log rotation bounds the open file (spec section 8): it never holds      *)
(* more than max_file_size_mb MiB plus one line.                           *)
FileSizeBounded ==
    log.open => files[log.day] <= LimitBytes + MaxLine
=============================================================================
