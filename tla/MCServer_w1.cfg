\* One pool worker: the pool runs callbacks in posting order.
CONSTANTS
    Client = {1, 2}
    Worker = {w1}
    Name = {alice}
    alice = alice
    devs = devs
    NoName = noname
    Chunk <- MCChunk
    NoChunk = nochunk
    NoTask = notask
    MaxChunks = 2
    MaxTotal = 1
    RoomName = {general, devs}
    General = general
    Admin = admin
    Password = {nopw}
    NoPassword = nopw
    Topic = {welcome, notopic}
    WelcomeTopic = welcome
    NoTopic = notopic
    NoRoom = noroom
SPECIFICATION Spec
INVARIANT TypeOK
INVARIANT QuiescentNoGhosts
CHECK_DEADLOCK FALSE
