\* One pool worker; a client disconnects by #exit or #kick.
CONSTANTS
    Client = {1, 2}
    Worker = {w1}
    Name = {alice}
    alice = alice
    devs = devs
    NoName = noname
    Chunk <- MCChunk
    NoChunk = nochunk
    NoTask = notask
    MaxChunks = 1
    MaxTotal = 2
    RoomName = {general, devs}
    General = general
    Admin = admin
    Password = {nopw}
    NoPassword = nopw
    Topic = {welcome, notopic}
    WelcomeTopic = welcome
    NoTopic = notopic
    NoRoom = noroom
SPECIFICATION Spec
CHECK_DEADLOCK FALSE
INVARIANT DisconnectFiresOnce
