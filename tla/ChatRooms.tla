----------------------------- MODULE ChatRooms -----------------------------
(***************************************************************************)
(* The room manager of the chat server (src/chat_room.h, chat_room.cpp).  *)
(*                                                                         *)
(* Every method of ChatRoomManager takes the single rooms_mutex for its    *)
(* whole body, so each call is one atomic step.  The manager keeps two     *)
(* indexes of the same relation: Room::members (room -> clients) and       *)
(* client_rooms (client -> room).  The whole manager is one record         *)
(* variable rm, and each method is a pure operator from the old record to *)
(* the new one, so that the server (Server.tla) can chain several calls    *)
(* inside one handler, as ProcessCommand does for #create.                 *)
(***************************************************************************)
EXTENDS FiniteSets

CONSTANTS
    Client,      \* client ids that ever connect
    RoomName,    \* room names that commands may mention; General is one
    General,     \* the room "general", created by the constructor
    Admin,       \* the sentinel owner id 0, never a real connection
    Password,    \* passwords a room may be created with; contains NoPassword
    NoPassword,  \* the empty string, the default of JoinRoom/CreateRoom
    Topic,       \* topics SetTopic may store; contains WelcomeTopic, NoTopic
    WelcomeTopic,\* "Welcome to the chat server!"
    NoTopic,     \* the empty topic of a freshly created room
    NoRoom       \* client_rooms has no entry for the client

ASSUME General \in RoomName /\ NoPassword \in Password
ASSUME {WelcomeTopic, NoTopic} \subseteq Topic /\ NoRoom \notin RoomName
ASSUME Admin \notin Client

VARIABLE rm

Owner == Client \cup {Admin}

(* A room record, keyed by name in the rooms map (Room, chat_room.h).     *)
NewRoom(owner, priv, pw) ==
    [owner |-> owner, private |-> priv, password |-> pw,
     topic |-> NoTopic, members |-> {}]

\* The value a map slot holds while no room of that name exists.
Vacant == NewRoom(Admin, FALSE, NoPassword)

(* ChatRoomManager::ChatRoomManager: only "general", owned by id 0.       *)
InitRooms ==
    [names      |-> {General},
     room       |-> [r \in RoomName |->
                       IF r = General
                       THEN [Vacant EXCEPT !.topic = WelcomeTopic]
                       ELSE Vacant],
     clientRoom |-> [c \in Client |-> NoRoom]]

RoomsType ==
    /\ rm.names \in SUBSET RoomName
    /\ rm.room \in [RoomName -> [owner : Owner, private : BOOLEAN,
                                 password : Password, topic : Topic,
                                 members : SUBSET Client]]
    /\ rm.clientRoom \in [Client -> rm.names \cup {NoRoom}]

-----------------------------------------------------------------------------
(* CreateRoom: fails when the name is taken, else inserts a new room.     *)
CanCreate(s, name) == name \notin s.names

Create(s, name, owner, priv, pw) ==
    [s EXCEPT !.names = @ \cup {name},
              !.room[name] = NewRoom(owner, priv, pw)]

\* A DeleteRoom that would also delete "general".
CanDeleteAnyRoom(s, name, requester) ==
    /\ name \in s.names
    /\ s.room[name].owner = requester \/ requester = Admin

(* DeleteRoom: never "general"; only the owner or the admin; every member *)
(* is moved into "general" before the room is erased.                     *)
CanDelete(s, name, requester) ==
    /\ name # General
    /\ name \in s.names
    /\ s.room[name].owner = requester \/ requester = Admin

\* A DeleteRoom that moves the members but leaves client_rooms alone.
DeleteKeepingIndex(s, name) ==
    [s EXCEPT !.names = @ \ {name},
              !.room = [@ EXCEPT ![General].members = @ \cup s.room[name].members,
                                 ![name] = Vacant]]

Delete(s, name) ==
    LET moved == s.room[name].members
    IN [s EXCEPT !.names = @ \ {name},
                 !.room = [@ EXCEPT ![General].members = @ \cup moved,
                                    ![name] = Vacant],
                 !.clientRoom = [c \in Client |->
                                   IF c \in moved THEN General
                                   ELSE s.clientRoom[c]]]

(* JoinRoom: the room must exist and, when private, the password match.   *)
CanJoin(s, name, pw) ==
    /\ name \in s.names
    /\ ~s.room[name].private \/ s.room[name].password = pw

\* A Join that forgets to take the client out of its previous room.
JoinKeepingOld(s, name, c) ==
    [s EXCEPT !.room[name].members = @ \cup {c}, !.clientRoom[c] = name]

(* The client is erased from its current room (when that room still       *)
(* exists) and then inserted into the new one.                            *)
Join(s, name, c) ==
    LET old == s.clientRoom[c]
        left == IF old \in s.names
                THEN [s.room EXCEPT ![old].members = @ \ {c}]
                ELSE s.room
    IN [s EXCEPT !.room = [left EXCEPT ![name].members = @ \cup {c}],
                 !.clientRoom[c] = name]

(* LeaveRoom: drops the client from its room and erases its entry.        *)
Leave(s, c) ==
    LET cur == s.clientRoom[c]
    IN IF cur = NoRoom THEN s
       ELSE [s EXCEPT !.room = IF cur \in s.names
                               THEN [@ EXCEPT ![cur].members = @ \ {c}]
                               ELSE @,
                      !.clientRoom[c] = NoRoom]

(* SetTopic: only the owner or the admin.                                 *)
CanSetTopic(s, name, requester) ==
    /\ name \in s.names
    /\ s.room[name].owner = requester \/ requester = Admin

(* GetClientRoom: "general" when the client has no entry.                 *)
ClientRoom(s, c) ==
    IF s.clientRoom[c] = NoRoom THEN General ELSE s.clientRoom[c]

(* The read-only queries.  ListRooms: the public rooms (sorted in the     *)
(* code; the order is left out).                                          *)
ListRooms(s) == {r \in s.names : ~s.room[r].private}

(* GetRoomMembers: empty for a room that does not exist.                  *)
GetRoomMembers(s, name) == IF name \in s.names THEN s.room[name].members ELSE {}

RoomExists(s, name) == name \in s.names

(* GetRoomInfo: name, topic, member count and privacy, or "Room not       *)
(* found" (NoRoom here).                                                   *)
GetRoomInfo(s, name) ==
    IF name \in s.names
    THEN [name |-> name, topic |-> s.room[name].topic,
          count |-> Cardinality(s.room[name].members),
          private |-> s.room[name].private]
    ELSE NoRoom

(* GetRoommates: a client with no entry gets the members of "general";    *)
(* otherwise the members of its room, or none if that room is gone.       *)
GetRoommates(s, c) ==
    IF s.clientRoom[c] = NoRoom THEN GetRoomMembers(s, General)
    ELSE GetRoomMembers(s, s.clientRoom[c])

-----------------------------------------------------------------------------
(* The manager on its own: any caller may invoke any method with any      *)
(* arguments.  A call that returns false changes nothing and is omitted.  *)

Init == rm = InitRooms

CreateRoom(name, owner, priv, pw) ==
    /\ CanCreate(rm, name)
    /\ rm' = Create(rm, name, owner, priv, pw)

DeleteRoom(name, requester) ==
    /\ CanDelete(rm, name, requester)
    /\ rm' = Delete(rm, name)

JoinRoom(name, c, pw) ==
    /\ CanJoin(rm, name, pw)
    /\ rm' = Join(rm, name, c)

LeaveRoom(c) ==
    /\ rm.clientRoom[c] # NoRoom
    /\ rm' = Leave(rm, c)

SetTopic(name, t, requester) ==
    /\ CanSetTopic(rm, name, requester)
    /\ rm' = [rm EXCEPT !.room[name].topic = t]

Next ==
    \/ \E name \in RoomName, o \in Client, priv \in BOOLEAN, pw \in Password :
          CreateRoom(name, o, priv, pw)
    \/ \E name \in RoomName, q \in Owner : DeleteRoom(name, q)
    \/ \E name \in RoomName, c \in Client, pw \in Password : JoinRoom(name, c, pw)
    \/ \E c \in Client : LeaveRoom(c)
    \/ \E name \in RoomName, t \in Topic, q \in Owner : SetTopic(name, t, q)

Spec == Init /\ [][Next]_rm

-----------------------------------------------------------------------------
(* Type invariant; a client's recorded room is always one that exists     *)
(* (spec section 8), which DeleteRoom must keep true for the members it   *)
(* moves.                                                                  *)
TypeOK == RoomsType

(* The two indexes agree (spec section 8): client c is recorded in        *)
(* client_rooms as being in room r exactly when r exists and c is one of  *)
(* r's members.  JoinRoom, LeaveRoom and DeleteRoom each update both.     *)
RoomIndexConsistent ==
    \A c \in Client, r \in RoomName :
        (rm.clientRoom[c] = r) <=> (r \in rm.names /\ c \in rm.room[r].members)

(* What the manager promises (AbstractRooms): rooms partition the clients *)
(* that have joined one, "general" is never removed, and a deleted room's *)
(* members end up in "general".  The mapping reads locations off the      *)
(* members sets, the index DeleteRoom and JoinRoom iterate.               *)
WhereIs(c) ==
    IF \E r \in rm.names : c \in rm.room[r].members
    THEN CHOOSE r \in rm.names : c \in rm.room[r].members
    ELSE NoRoom

Abstract == INSTANCE AbstractRooms
    WITH Room <- RoomName, rooms <- rm.names,
         loc <- [c \in Client |-> WhereIs(c)]

AbstractSpec == Abstract!Spec

=============================================================================
