--------------------------- MODULE AbstractRooms ---------------------------
(***************************************************************************)
(* What the room manager promises its callers (spec section 4.3), with no *)
(* indexes: a set of existing rooms and, for each client, the one room it  *)
(* is in (or none).  ChatRooms.tla is checked to implement this.           *)
(***************************************************************************)
CONSTANTS Client, Room, General, NoRoom

VARIABLES rooms, loc

vars == <<rooms, loc>>

Init ==
    /\ rooms = {General}
    /\ loc = [c \in Client |-> NoRoom]

\* A room is added under a fresh name.
Open(r) ==
    /\ r \notin rooms
    /\ rooms' = rooms \cup {r}
    /\ UNCHANGED loc

\* A room other than General disappears and its occupants are in General.
Close(r) ==
    /\ r \in rooms \ {General}
    /\ rooms' = rooms \ {r}
    /\ loc' = [c \in Client |-> IF loc[c] = r THEN General ELSE loc[c]]

\* A client moves, as one step, into an existing room.
Move(c, r) ==
    /\ r \in rooms
    /\ loc' = [loc EXCEPT ![c] = r]
    /\ UNCHANGED rooms

\* A client is in no room any more.
Quit(c) ==
    /\ loc' = [loc EXCEPT ![c] = NoRoom]
    /\ UNCHANGED rooms

Next ==
    \/ \E r \in Room : Open(r) \/ Close(r)
    \/ \E c \in Client : Quit(c) \/ \E r \in Room : Move(c, r)

Spec == Init /\ [][Next]_vars

\* Every placed client is in a room that exists, and General always exists.
Placed == General \in rooms /\ \A c \in Client : loc[c] \in rooms \cup {NoRoom}
=============================================================================
