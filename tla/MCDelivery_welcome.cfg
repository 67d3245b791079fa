\* Two pool workers, two clients: a client's on_message runs next to its on_connect.
CONSTANTS
    Client = {1, 2}
    Worker = {w1, w2}
    Name = {alice}
    alice = alice
    devs = devs
    NoName = noname
    Chunk <- MCTextChunk
    NoTask = notask
    MaxChunks = 2
    MaxTotal = 2
    RoomName = {general, devs}
    General = general
    Admin = admin
    Password = {nopw}
    NoPassword = nopw
    Topic = {welcome, notopic}
    WelcomeTopic = welcome
    NoTopic = notopic
    NoRoom = noroom
SPECIFICATION Spec
INVARIANT WelcomeFirst
CHECK_DEADLOCK FALSE
